-------------------------- MODULE VerifiedDelivery --------------------------
(***************************************************************************)
(* What file transfer promises (docs/protocol.md, File transfer): a name   *)
(* at the receiver only ever holds a complete file that some sender        *)
(* declared, replaced whole; a sender that prints OK had its file          *)
(* published; every sender ends with OK or with an error.                  *)
(***************************************************************************)
CONSTANTS
  Senders,
  Names,          \* destination names
  Contents,       \* what senders may declare
  Content(_)      \* the file behind a declaration

VARIABLES
  store,      \* content of each name, or <<>>
  delivered,  \* <<name, content, sender>> of each file published
  wanted,     \* what each sender declared last
  result      \* pending, ok, failed

vars == <<store, delivered, wanted, result>>

Init ==
  /\ store = [n \in Names |-> <<>>]
  /\ delivered = {}
  /\ wanted \in [Senders -> Contents]
  /\ result = [s \in Senders |-> "pending"]

Declare(s, h) ==
  /\ result[s] = "pending"
  /\ wanted' = [wanted EXCEPT ![s] = h]
  /\ UNCHANGED <<store, delivered, result>>

Publish(n, h, s) ==
  /\ store' = [store EXCEPT ![n] = Content(h)]
  /\ delivered' = delivered \cup {<<n, h, s>>}
  /\ UNCHANGED <<wanted, result>>

Succeed(s) ==
  /\ result[s] = "pending"
  /\ \E n \in Names : <<n, wanted[s], s>> \in delivered
  /\ result' = [result EXCEPT ![s] = "ok"]
  /\ UNCHANGED <<store, delivered, wanted>>

GiveUp(s) ==
  /\ result[s] = "pending"
  /\ result' = [result EXCEPT ![s] = "failed"]
  /\ UNCHANGED <<store, delivered, wanted>>

Next ==
  \/ \E s \in Senders, h \in Contents : Declare(s, h)
  \/ \E n \in Names, h \in Contents, s \in Senders : Publish(n, h, s)
  \/ \E s \in Senders : Succeed(s) \/ GiveUp(s)

SafeSpec == Init /\ [][Next]_vars
Spec == SafeSpec /\ \A s \in Senders : WF_vars(Succeed(s) \/ GiveUp(s))
=============================================================================
