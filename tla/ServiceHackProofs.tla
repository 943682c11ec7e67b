-------------------------- MODULE ServiceHackProofs --------------------------
(***************************************************************************)
(* Theorems about ServiceHack, for any controllers, any number of services  *)
(* and any faults.                                                          *)
(***************************************************************************)
EXTENDS ServiceHack, TLAPS

\* Once the command has read a service it holds a copy of one, with the
\* address set, of a uid that was given out.
CopyInv ==
  /\ object.uid <= creates /\ service.uid <= creates
  /\ pc \in {"update", "answer", "done"} => service.uid # 0 /\ service.ip

\* A copy of the current version is a copy of the current parts: every write
\* gives the service a version that is ahead of all copies.
FreshInv == pc = "update" /\ Current => service.parts = object.parts

\* The answer is on its way, or has come, only when the address is set.
SetInv ==
  pc \in {"answer", "done"} /\ object.uid = service.uid => object.ip

HackInv == TypeOK /\ NoLostWrites /\ CopyInv /\ FreshInv /\ SetInv

-----------------------------------------------------------------------------
\* What a write to the service does to its type and its version, for any new
\* value that has the type of a service.
LEMMA StoreType ==
  ASSUME version \in Nat, object \in Service,
         NEW new \in Service, Store(new)
  PROVE  /\ version' \in Nat /\ version <= version'
         /\ object' \in Service'
         /\ object'.uid = new.uid /\ object'.ip = new.ip
         /\ object'.parts = new.parts
         /\ \/ object' = object /\ new = object /\ version' = version
            \/ object'.rv = version + 1
  BY DEF Store, Service

\* A service of the type stays one when the cluster gives out more versions.
LEMMA ServiceLater ==
  ASSUME version \in Nat, version' \in Nat, version <= version',
         NEW s \in Service
  PROVE  s \in Service'
  BY DEF Service

\* No service has the type of one.
LEMMA AbsentIsService ==
  ASSUME version \in Nat, MaxCreates \in Nat
  PROVE  Absent \in Service
  BY DEF Absent, Service

\* The steps of the command that change neither its copy nor the cluster, and
\* do not lead to a step that relies on the copy.
LEMMA Restart ==
  ASSUME HackInv, UNCHANGED <<service, cluster>>,
         pc' \in {"config", "client", "get"}
  PROVE  HackInv'
  BY DEF HackInv, TypeOK, NoLostWrites, CopyInv, FreshInv, SetInv, cluster,
         Service, Exists, Current

\* The copy that is read is of the current version.
LEMMA GetStep ==
  ASSUME HackInv, Get
  PROVE  HackInv'
  <1>1. service' \in Service /\ service'.uid = object.uid /\ service'.ip
        /\ service'.parts = object.parts
    BY DEF HackInv, TypeOK, Get, Service
  <1>. QED
    BY <1>1 DEF HackInv, TypeOK, NoLostWrites, CopyInv, FreshInv, SetInv, cluster,
         Service, Exists, Get, Goto

\* The update goes through only where the copy has all that was written.
LEMMA UpdateStep ==
  ASSUME HackInv, Update
  PROVE  HackInv'
  <1>1. /\ version' \in Nat /\ version <= version'
        /\ object' \in Service'
        /\ object'.uid = service.uid /\ object'.ip = service.ip
        /\ object'.parts = service.parts
    BY StoreType DEF HackInv, TypeOK, Update
  <1>2. service' \in Service'
    BY <1>1, ServiceLater DEF HackInv, TypeOK, Update
  <1>3. TypeOK'
    BY <1>1, <1>2 DEF HackInv, TypeOK, Update, Goto
  <1>4. NoLostWrites'
    BY <1>1 DEF HackInv, NoLostWrites, FreshInv, Update, Goto, Exists
  <1>5. CopyInv' /\ FreshInv' /\ SetInv'
    BY <1>1 DEF HackInv, CopyInv, FreshInv, SetInv, Update, Goto
  <1>. QED
    BY <1>3, <1>4, <1>5 DEF HackInv

\* A new service has a uid that no copy has.
LEMMA CreateStep ==
  ASSUME HackInv, CreateService
  PROVE  HackInv'
  <1> DEFINE new == [Absent EXCEPT !.uid = creates + 1]
  <1>1. new \in Service /\ new.uid = creates + 1 /\ new # object
    <2>1. creates + 1 \in 0 .. MaxCreates /\ creates + 1 # object.uid
      BY HackAssumption DEF HackInv, TypeOK, CreateService, Exists
    <2>2. Absent \in Service
      BY HackAssumption, AbsentIsService DEF HackInv, TypeOK
    <2>3. new \in Service /\ new.uid = creates + 1
      BY <2>1, <2>2 DEF Service
    <2>. QED
      BY <2>1, <2>3
  <1>2. /\ version' \in Nat /\ version <= version'
        /\ object' \in Service'
        /\ object'.uid = creates + 1
        /\ object'.rv = version + 1
    BY <1>1, StoreType DEF HackInv, TypeOK, CreateService
  <1>3. service' \in Service'
    BY <1>2, ServiceLater DEF HackInv, TypeOK, CreateService
  <1>4. TypeOK'
    BY <1>2, <1>3, HackAssumption DEF HackInv, TypeOK, CreateService
  <1>5. NoLostWrites'
    BY DEF NoLostWrites, CreateService
  <1>6. object'.uid # service'.uid
    BY <1>2 DEF HackInv, TypeOK, CopyInv, CreateService, Service
  <1>7. CopyInv' /\ FreshInv' /\ SetInv'
    BY <1>2, <1>6
    DEF HackInv, TypeOK, CopyInv, FreshInv, SetInv, CreateService, Current, Service
  <1>. QED
    BY <1>4, <1>5, <1>7 DEF HackInv

\* No service: nothing is written to it, and no copy is of it.
LEMMA DeleteStep ==
  ASSUME HackInv, DeleteService
  PROVE  HackInv'
  <1>1. object' \in Service'
    BY HackAssumption DEF HackInv, TypeOK, DeleteService, Absent, Service
  <1>2. TypeOK'
    BY <1>1 DEF HackInv, TypeOK, DeleteService, Service
  <1>3. CopyInv' /\ FreshInv' /\ SetInv' /\ NoLostWrites'
    BY DEF HackInv, TypeOK, CopyInv, FreshInv, SetInv, NoLostWrites, DeleteService,
           Current, Absent, Exists
  <1>. QED
    BY <1>2, <1>3 DEF HackInv

\* A controller's write makes every copy that lacks it an old one.
LEMMA WriteStep ==
  ASSUME HackInv, NEW w \in Writers, ControllerWrites(w)
  PROVE  HackInv'
  <1> DEFINE new == [object EXCEPT !.parts = @ \cup {w}]
  <1>1. /\ new \in Service /\ new.uid = object.uid /\ new.ip = object.ip
        /\ new.parts = object.parts \cup {w}
    BY DEF HackInv, TypeOK, Service
  <1>2. /\ version' \in Nat /\ version <= version'
        /\ object' \in Service'
        /\ object'.uid = object.uid /\ object'.ip = object.ip
        /\ object'.parts = object.parts \cup {w}
        /\ \/ object' = object /\ version' = version
           \/ object'.rv = version + 1
    BY <1>1, StoreType DEF HackInv, TypeOK, ControllerWrites
  <1>3. service' \in Service'
    BY <1>2, ServiceLater DEF HackInv, TypeOK, ControllerWrites
  <1>4. TypeOK'
    BY <1>2, <1>3 DEF HackInv, TypeOK, ControllerWrites
  <1>5. NoLostWrites'
    BY <1>2 DEF HackInv, NoLostWrites, ControllerWrites, Exists
  <1>6. FreshInv'
    <2>1. service.rv # version + 1
      BY DEF HackInv, TypeOK, Service
    <2>. QED
      BY <2>1, <1>2 DEF HackInv, FreshInv, ControllerWrites, Current
  <1>7. CopyInv' /\ SetInv'
    BY <1>2 DEF HackInv, CopyInv, SetInv, ControllerWrites
  <1>. QED
    BY <1>4, <1>5, <1>6, <1>7 DEF HackInv

\* The api server comes and goes, or the answer arrives: nothing that the
\* invariant looks at changes but pc, from "answer" to "done".
LEMMA QuietStep ==
  ASSUME HackInv, Answer \/ ApiGoes \/ ApiComes \/ UNCHANGED vars
  PROVE  HackInv'
  BY DEF HackInv, TypeOK, NoLostWrites, CopyInv, FreshInv, SetInv, Answer,
         ApiGoes, ApiComes, Goto, vars, cluster, Service, Exists, Current

\* HackInv is inductive.
LEMMA HackInvInductive == Init /\ [][Next]_vars => []HackInv
  <1>1. Init => HackInv
    BY HackAssumption
    DEF Init, HackInv, TypeOK, NoLostWrites, CopyInv, FreshInv, SetInv, Service,
        Absent, Exists
  <1>2. ASSUME HackInv, [Next]_vars
        PROVE  HackInv'
    <2>1. CASE \/ BuildConfig \/ BuildConfigError \/ NewClient \/ NewClientError
               \/ GetError \/ UpdateError \/ AnswerLost
      BY <1>2, <2>1, Restart
      DEF BuildConfig, BuildConfigError, NewClient, NewClientError, GetError,
          UpdateError, AnswerLost, Retry, Goto
    <2>2. CASE Get
      BY <1>2, <2>2, GetStep
    <2>3. CASE Update
      BY <1>2, <2>3, UpdateStep
    <2>4. CASE CreateService
      BY <1>2, <2>4, CreateStep
    <2>5. CASE DeleteService
      BY <1>2, <2>5, DeleteStep
    <2>6. CASE \E w \in Writers : ControllerWrites(w)
      BY <1>2, <2>6, WriteStep
    <2>7. CASE Answer \/ ApiGoes \/ ApiComes \/ UNCHANGED vars
      BY <1>2, <2>7, QuietStep
    <2>. QED
      BY <1>2, <2>1, <2>2, <2>3, <2>4, <2>5, <2>6, <2>7 DEF Next, Command
  <1>. QED
    BY <1>1, <1>2, PTL

-----------------------------------------------------------------------------
\* The variables keep their types: in particular no copy of the service is
\* ahead of the versions that the cluster has given out.
THEOREM TypeCorrect == Spec => []TypeOK
  <1>1. HackInv => TypeOK
    BY DEF HackInv
  <1>. QED
    BY <1>1, HackInvInductive, PTL DEF Spec

\* What a controller has written to a service is never overwritten by the
\* copy that the command read before.
THEOREM WritesKept == Spec => []NoLostWrites
  <1>1. HackInv => NoLostWrites
    BY DEF HackInv
  <1>. QED
    BY <1>1, HackInvInductive, PTL DEF Spec

\* When the command has returned, the service it found has its address,
\* whatever conflicts, lost answers and writes there were.
THEOREM AddressIsSet == Spec => []DoneMeansSet
  <1>1. HackInv => DoneMeansSet
    BY DEF HackInv, SetInv, DoneMeansSet
  <1>. QED
    BY <1>1, HackInvInductive, PTL DEF Spec
=============================================================================
