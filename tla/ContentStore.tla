---------------------------- MODULE ContentStore ----------------------------
(***************************************************************************)
(* What pkg/filecache promises its callers: a content-addressed store.  A   *)
(* key is a sha256 sum; a value is identified with its own sum, so the only *)
(* value that belongs under key k is k.  An entry is written once, by       *)
(* anyone, and never changes.  A client is told that a key is cached only   *)
(* when it is, unless it was interrupted: what an interrupted client is     *)
(* told, while its own clean-up is under way, means nothing.                *)
(***************************************************************************)
CONSTANTS Clients, Keys, None

VARIABLES
  store,   \* store[k]: the content found under k, or None
  acked,   \* the pairs <<c, k>> such that client c was told that k is cached
  interrupted  \* the clients that got a signal

Init ==
  /\ store = [k \in Keys |-> None]
  /\ acked = {}
  /\ interrupted = {}

Put(k) ==
  /\ store[k] = None
  /\ store' = [store EXCEPT ![k] = k]
  /\ UNCHANGED <<acked, interrupted>>

Ack(c, k) ==
  /\ store[k] = k \/ c \in interrupted
  /\ acked' = acked \cup {<<c, k>>}
  /\ UNCHANGED <<store, interrupted>>

Interrupt(c) ==
  /\ interrupted' = interrupted \cup {c}
  /\ UNCHANGED <<store, acked>>

Next ==
  \/ \E k \in Keys : Put(k)
  \/ \E c \in Clients, k \in Keys : Ack(c, k)
  \/ \E c \in Clients : Interrupt(c)

Spec == Init /\ [][Next]_<<store, acked, interrupted>>
=============================================================================
