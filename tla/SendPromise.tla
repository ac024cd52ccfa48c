---------------------------- MODULE SendPromise ----------------------------
(***************************************************************************)
(* What the service promises its owner about native sends, without saying  *)
(* how: a request id stands for one content once it is claimed, an         *)
(* operation on the client is begun at most once per id and never beside   *)
(* another one, and a message is transmitted at most once, while its       *)
(* operation is under way.                                                 *)
(***************************************************************************)
EXTENDS Integers

CONSTANTS Ids, Contents, None

VARIABLES claim,    \* claim[i]: the content request id i stands for
          begun,    \* ids whose operation has ever touched the client
          active,   \* ids whose operation may still act in the client
          sent      \* sent[i]: how often the message was transmitted

promiseVars == <<claim, begun, active, sent>>

Init ==
  /\ claim = [i \in Ids |-> None]
  /\ begun = {}
  /\ active = {}
  /\ sent = [i \in Ids |-> 0]

Claim(i, c) ==
  /\ claim[i] = None
  /\ claim' = [claim EXCEPT ![i] = c]
  /\ UNCHANGED <<begun, active, sent>>

Begin(i) ==
  /\ claim[i] # None
  /\ i \notin begun
  /\ active = {}
  /\ begun' = begun \cup {i}
  /\ active' = {i}
  /\ UNCHANGED <<claim, sent>>

Transmit(i) ==
  /\ active = {i}
  /\ sent[i] = 0
  /\ sent' = [sent EXCEPT ![i] = 1]
  /\ UNCHANGED <<claim, begun, active>>

Finish(i) ==
  /\ active = {i}
  /\ active' = {}
  /\ UNCHANGED <<claim, begun, sent>>

Next ==
  \E i \in Ids :
    \/ \E c \in Contents : Claim(i, c)
    \/ Begin(i)
    \/ Transmit(i)
    \/ Finish(i)

Spec == Init /\ [][Next]_promiseVars
=============================================================================
