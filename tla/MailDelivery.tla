---------------------------- MODULE MailDelivery ----------------------------
(***************************************************************************)
(* What the email pipeline promises of a mailbox it searches by label:     *)
(* delivery at least once of what the mail server hands out.  A letter is  *)
(* in the hands of the workers that took it before it was done; only they  *)
(* send its documents, and it is done when each document that is wanted of *)
(* it was sent or refused.  A document is what the server gives under the  *)
(* number an attachment is asked for by, whatever part that is.  Letters   *)
(* may drop out of the promise.                                            *)
(***************************************************************************)
EXTENDS Naturals

CONSTANT Workers

VARIABLE letter   \* a function on the letters that have come

Done(l) == \A d \in l.wanted : l.sent[d] > 0 \/ d \in l.refused

DeliveryInit == DOMAIN letter = {}

\* A new letter: nothing has been done with it.
Arrive ==
    /\ DOMAIN letter \subseteq DOMAIN letter'
    /\ \A m \in DOMAIN letter : letter'[m] = letter[m]
    /\ \A m \in DOMAIN letter' \ DOMAIN letter :
        /\ letter'[m].state = "open"
        /\ letter'[m].holders = {}
        /\ letter'[m].refused = {}
        /\ \A d \in letter'[m].wanted : letter'[m].sent[d] = 0

GiveUp == \E M \in SUBSET DOMAIN letter : letter' = [m \in M |-> letter[m]]

(***************************************************************************)
(* What a worker p may do with a letter l, which becomes m.                *)
(***************************************************************************)
Take(p, l, m) == l.state = "open" /\ m = [l EXCEPT !.holders = @ \cup {p}]

\* Also of what it does not hold.
LetGo(p, l, m) == m = [l EXCEPT !.holders = @ \ {p}]

\* It may let go at once.
Send(p, l, m) ==
    /\ p \in l.holders
    /\ \E d \in l.wanted, rest \in {{}, {p}} :
        m = [l EXCEPT !.sent[d] = @ + 1, !.holders = @ \ rest]

Refuse(p, l, m) ==
    /\ p \in l.holders
    /\ \E d \in l.wanted : m = [l EXCEPT !.refused = @ \cup {d}]

Finish(p, l, m) ==
    /\ p \in l.holders
    /\ Done(l)
    /\ m = [l EXCEPT !.state = "done", !.holders = @ \ {p}]

Handles(p, l, m) == Take(p, l, m) \/ LetGo(p, l, m) \/ Send(p, l, m) \/ Refuse(p, l, m) \/ Finish(p, l, m)

Work(p) ==
    /\ DOMAIN letter' = DOMAIN letter
    /\ \A m \in DOMAIN letter : letter'[m] = letter[m] \/ Handles(p, letter[m], letter'[m])

DeliveryNext == (\E p \in Workers : Work(p)) \/ Arrive \/ GiveUp

DeliverySpec == DeliveryInit /\ [][DeliveryNext]_letter
=============================================================================
