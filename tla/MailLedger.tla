----------------------------- MODULE MailLedger -----------------------------
(***************************************************************************)
(* What outreach sending promises, one approved attempt (Key) at a time:   *)
(* the mailbox takes at most one message, and the evidence ledger, which   *)
(* every screen reads, names that message or nothing, and keeps its word.  *)
(***************************************************************************)
CONSTANTS Key,      \* idempotency keys, one per approved attempt
          MessageId, \* provider message ids
          NoId

VARIABLES sent,     \* sent[k]: ids of the messages the provider took for k
          recorded  \* recorded[k]: the id in the evidence row of k, or NoId

Init == /\ sent = [k \in Key |-> {}]
        /\ recorded = [k \in Key |-> NoId]

Deliver(k) == /\ sent[k] = {}
              /\ \E m \in MessageId : sent' = [sent EXCEPT ![k] = {m}]
              /\ UNCHANGED recorded

Record(k) == /\ recorded[k] = NoId
             /\ \E m \in sent[k] : recorded' = [recorded EXCEPT ![k] = m]
             /\ UNCHANGED sent

Next == \E k \in Key : Deliver(k) \/ Record(k)

Spec == Init /\ [][Next]_<<sent, recorded>>
=============================================================================
