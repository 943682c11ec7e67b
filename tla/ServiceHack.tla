----------------------------- MODULE ServiceHack -----------------------------
(***************************************************************************)
(* pkg/cmd/remote: "remote aihack" and "remote nexushack", which wait for   *)
(* the service of a chart that is being applied and give it the address of  *)
(* a virtual ip.  They differ in the name of the service only; the module   *)
(* is either of them.                                                       *)
(*                                                                          *)
(* External: the api server, which refuses an update of a version that is   *)
(* no longer the current one; helm, which makes the service and may make it *)
(* anew; and the controllers of the cluster, which write to it meanwhile.   *)
(***************************************************************************)
EXTENDS Naturals

CONSTANTS
  Writers,     \* controllers: each writes a part of the service of its own
  MaxCreates,  \* bound on how often the service is made
  Faults       \* subset of {"config", "client", "api", "delete"}

ASSUME HackAssumption ==
  /\ MaxCreates \in Nat
  /\ Faults \subseteq {"config", "client", "api", "delete"}

VARIABLES
  pc,          \* the command's next step
  service,     \* the command's copy of the service
  object,      \* the service in the cluster
  version,     \* the last resourceVersion the cluster gave out
  creates,     \* how often the service was made
  written,     \* the writers that have written to this service
  api          \* the api server answers

vars == <<pc, service, object, version, creates, written, api>>
cluster == <<object, version, creates, written, api>>

\* A service: which one it is (0 if there is none), its version, whether its
\* spec.loadBalancerIP is set, and the parts the writers have put into it.
Absent == [uid |-> 0, rv |-> 0, ip |-> FALSE, parts |-> {}]
Service == [uid : 0 .. MaxCreates, rv : 0 .. version, ip : BOOLEAN,
            parts : SUBSET Writers]

TypeOK ==
  /\ pc \in {"config", "client", "get", "update", "answer", "done"}
  /\ version \in Nat
  /\ creates \in 0 .. MaxCreates
  /\ service \in Service
  /\ object \in Service
  /\ written \subseteq Writers
  /\ api \in BOOLEAN

Init ==
  /\ pc = "config"
  /\ service = Absent /\ object = Absent
  /\ version = 0 /\ creates = 0
  /\ written = {}
  /\ api = TRUE

-----------------------------------------------------------------------------
(* The cluster (external).                                                  *)

Exists == object.uid # 0

\* A write that changes something gives the service a new version.
Store(new) ==
  IF new = object THEN UNCHANGED <<object, version>>
  ELSE object' = [new EXCEPT !.rv = version + 1] /\ version' = version + 1

CreateService ==
  /\ ~Exists
  /\ creates < MaxCreates /\ creates' = creates + 1
  /\ Store([Absent EXCEPT !.uid = creates + 1])
  /\ written' = {}
  /\ UNCHANGED <<pc, service, api>>

DeleteService ==
  /\ "delete" \in Faults
  /\ Exists
  /\ object' = Absent
  /\ written' = {}
  /\ UNCHANGED <<pc, service, version, creates, api>>

ControllerWrites(w) ==
  /\ Exists
  /\ w \notin written
  /\ Store([object EXCEPT !.parts = @ \cup {w}])
  /\ written' = written \cup {w}
  /\ UNCHANGED <<pc, service, creates, api>>

ApiGoes ==
  /\ "api" \in Faults
  /\ api /\ api' = FALSE
  /\ UNCHANGED <<pc, service, object, version, creates, written>>

ApiComes ==
  /\ ~api /\ api' = TRUE
  /\ UNCHANGED <<pc, service, object, version, creates, written>>

-----------------------------------------------------------------------------
(* The command: a loop that starts over, after a second, on any error.      *)

Goto(from, to) == pc = from /\ pc' = to

\* Mutant: what the first round has built and read is kept.
RetryUpdate(from) == Goto(from, IF from = "update" THEN "update" ELSE "config")

Retry(from) == Goto(from, "config")

\* The kubeconfig, a link that "remote k8s" makes, is read in every round.
BuildConfig ==
  /\ Goto("config", "client")
  /\ UNCHANGED <<service, cluster>>

BuildConfigError ==
  /\ "config" \in Faults
  /\ Retry("config")
  /\ UNCHANGED <<service, cluster>>

NewClient ==
  /\ Goto("client", "get")
  /\ UNCHANGED <<service, cluster>>

NewClientError ==
  /\ "client" \in Faults
  /\ Retry("client")
  /\ UNCHANGED <<service, cluster>>

\* Mutant: the copy is given the version that it is to have.
GetNextVersion ==
  /\ api /\ Exists
  /\ Goto("get", "update")
  /\ service' = [object EXCEPT !.ip = TRUE, !.rv = @ + 1]
  /\ UNCHANGED cluster

\* The field is set in the copy.
Get ==
  /\ api /\ Exists
  /\ Goto("get", "update")
  /\ service' = [object EXCEPT !.ip = TRUE]
  /\ UNCHANGED cluster

GetError ==
  /\ ~(api /\ Exists)
  /\ Retry("get")
  /\ UNCHANGED <<service, cluster>>

\* Mutant: the update is sent without the version it is made from.
SameService == object.uid = service.uid

\* What the api server asks of an update: the copy carries the version.
Current == object.uid = service.uid /\ object.rv = service.rv

\* The whole copy replaces the service; the answer is on its way.
Update ==
  /\ api /\ Exists /\ Current
  /\ Goto("update", "answer")
  /\ Store(service)
  /\ UNCHANGED <<service, creates, written, api>>

\* Mutant: an error of the update ends the loop too.
UpdateErrorIgnored ==
  /\ ~(api /\ Exists /\ Current)
  /\ Goto("update", "done")
  /\ UNCHANGED <<service, cluster>>

\* A conflict, no service, or no api server.
UpdateError ==
  /\ ~(api /\ Exists /\ Current)
  /\ Retry("update")
  /\ UNCHANGED <<service, cluster>>

Answer ==
  /\ api
  /\ Goto("answer", "done")
  /\ UNCHANGED <<service, cluster>>

\* The update was made and the command does not know: it makes it again.
AnswerLost ==
  /\ ~api
  /\ Retry("answer")
  /\ UNCHANGED <<service, cluster>>

Command ==
  \/ BuildConfig \/ BuildConfigError
  \/ NewClient \/ NewClientError
  \/ Get \/ GetError
  \/ Update \/ UpdateError
  \/ Answer \/ AnswerLost

Next ==
  \/ Command
  \/ CreateService \/ DeleteService
  \/ \E w \in Writers : ControllerWrites(w)
  \/ ApiGoes \/ ApiComes

Spec == Init /\ [][Next]_vars

\* The command runs on, and a kubeconfig that is there for good is read one
\* time or another.
FairSpec ==
  /\ Spec
  /\ WF_vars(Command)
  /\ SF_vars(BuildConfig)
  /\ SF_vars(NewClient)

-----------------------------------------------------------------------------
(* Properties.                                                              *)

\* The command reads the service, sets one field and writes all of it back,
\* while the controllers write to it too: what they have written is never
\* overwritten by an older copy.
NoLostWrites == Exists => written \subseteq object.parts

\* When the command has returned, the service it found has its address, with
\* whatever the controllers wrote since, unless helm made the service anew.
DoneMeansSet ==
  pc = "done" /\ object.uid = service.uid => object.ip

\* "Loop forever until we see the service object": once the service stays and
\* the api server answers, the command returns, however many of its rounds
\* failed, lost their answer or met a conflict before.
ReturnsWhenStable == <>[](api /\ Exists) => <>(pc = "done")
=============================================================================
