--------------------------- MODULE MCWebhookIntake ---------------------------
(***************************************************************************)
(* Two messages at once, of one user or of a stranger; three attachments   *)
(* where two are the most, and one of each kind that is treated apart.     *)
(***************************************************************************)
EXTENDS WebhookIntake, TLC

CONSTANTS m1, m2, bot, user, signal

Of(source, body, attachments) == [source |-> source, body |-> body, attachments |-> attachments]

ManyPayloads ==
    {Of("user", "text", a) : a \in {<<"doc", "doc", "doc">>, <<"other", "doc">>, <<"doc", "empty">>,
                                    <<"other">>, <<"large", "doc">>, <<"doc", "noid">>, <<>>}}
    \cup {Of("user", "command", <<>>), Of("user", "resume", <<>>), Of("stranger", "command", <<"doc">>),
          Of("nobody", "text", <<"doc">>)}

Uploads == Messages \X (1 .. 3)
OneClient == [m \in Messages |-> bot]
Tagged == [d \in Uploads |-> <<user, signal>>]
MessageSymmetry == Permutations({m1, m2})
=============================================================================
