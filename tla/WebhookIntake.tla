---------------------------- MODULE WebhookIntake ----------------------------
(***************************************************************************)
(* POST /webhook (shell/signal-pipeline.ts).  A request takes a token of   *)
(* the rate limiter or is refused; for the others the handler answers at   *)
(* once and forks a fiber: find the sender among the users, check the      *)
(* attachment references, and either run a text command or upload the      *)
(* attachments one after the other, each through PaperlessClient, whose    *)
(* tag cache the fibers share.  The text commands themselves are modelled  *)
(* in AccountStore.                                                        *)
(***************************************************************************)
EXTENDS Integers, PaperlessClient

CONSTANTS
    Payloads,        \* what a webhook may carry
    MaxAttachments,  \* MAX_ATTACHMENTS_PER_MESSAGE
    Limit            \* WEBHOOK_RATE_LIMIT_PER_MINUTE

(***************************************************************************)
(* source "nobody": no data message or no valid sender; body "resume": the *)
(* command to resume an account, "command": any other.  Attachments: "doc" *)
(* of a type Paperless takes, "other" of another type, "empty" without     *)
(* bytes, "large" over the limit of 25 MiB, "noid" a reference without an  *)
(* id.                                                                     *)
(***************************************************************************)
Sources == {"nobody", "stranger", "user"}
Bodies == {"resume", "command", "text"}
Kinds == {"doc", "other", "empty", "large", "noid"}

ASSUME PayloadAssumption ==
    /\ Payloads # {}
    /\ \A p \in Payloads : /\ p.source \in Sources
                            /\ p.body \in Bodies
                            /\ p.attachments \in Seq(Kinds)
ASSUME LimitAssumption == MaxAttachments \in Nat \ {0} /\ Limit \in Nat

\* One fiber processes one message; a document is an attachment of it.
Messages == Callers
DocOf(m, i) == <<m, i>>

ASSUME DocOfAssumption ==
    \A m \in Messages, p \in Payloads : \A i \in DOMAIN p.attachments : DocOf(m, i) \in Docs
\* The bot is one process.
ASSUME OneProcessAssumption == Clients # {} /\ \A c, d \in Clients : c = d

VARIABLES
    tokens,   \* what is left of the rate limiter's bucket
    message,  \* message[m]: how far its processing is
    replies   \* replies[m]: what was sent to the sender, or why nothing was

intake == <<tokens, message, replies>>
vars == <<tagVars, intake>>

Stages == {"unsent", "refused", "authorize", "validate", "attachment", "uploading", "reply",
           "over"}
Replies == {"unauthorized", "help", "command", "filetypes"}
\* "gone": no account is there to resume any more; "unlinked": Signal knows no number to send from.
Silences == {"gone", "unlinked"}
Outcomes == Replies \cup Silences

(***************************************************************************)
(* next: the attachment at hand; saved: whether one was uploaded; answer:  *)
(* the reply to send, or "gone".                                           *)
(***************************************************************************)
Unsent == [stage |-> "unsent", payload |-> CHOOSE p \in Payloads : TRUE, next |-> 1,
           saved |-> FALSE, answer |-> "help"]

TypeOK ==
    /\ TagTypeOK
    /\ tokens \in 0 .. Limit
    /\ message \in [Messages -> [stage : Stages, payload : Payloads, next : Nat \ {0},
                                 saved : BOOLEAN, answer : Outcomes]]
    /\ replies \in [Messages -> SUBSET Outcomes]

Init ==
    /\ TagInit
    /\ tokens = Limit
    /\ message = [m \in Messages |-> Unsent]
    /\ replies = [m \in Messages |-> {}]

-----------------------------------------------------------------------------
Goes(m, state) == message' = [message EXCEPT ![m] = state]
At(m, stage) == message[m].stage = stage
To(m, stage) == [message[m] EXCEPT !.stage = stage]
WillReply(m, answer) == [To(m, "reply") EXCEPT !.answer = answer]
\* The fiber ends before its work is done.
Dead(m) == To(m, "over")
Payload(m) == message[m].payload

\* Mutant: a token is taken whether or not there is one.
BugWebhook(m) ==
    /\ At(m, "unsent")
    /\ \E p \in Payloads : Goes(m, [Unsent EXCEPT !.payload = p, !.stage = "authorize"])
    /\ tokens' = tokens - 1
    /\ UNCHANGED <<tagVars, replies>>

(***************************************************************************)
(* webhookHandler.  Signal's bridge does not send a refused request again. *)
(***************************************************************************)
Webhook(m) ==
    /\ At(m, "unsent")
    /\ \E p \in Payloads :
        /\ tokens > 0 =>
            Goes(m, [Unsent EXCEPT !.payload = p,
                                   !.stage = IF p.source = "nobody" THEN "over" ELSE "authorize"])
        /\ tokens = 0 => Goes(m, [Unsent EXCEPT !.payload = p, !.stage = "refused"])
    /\ tokens' = IF tokens > 0 THEN tokens - 1 ELSE 0
    /\ UNCHANGED <<tagVars, replies>>

\* The bucket fills by one token at a time.
Refill ==
    /\ tokens < Limit
    /\ tokens' = tokens + 1
    /\ UNCHANGED <<tagVars, message, replies>>

\* resolveAuthorizedUser: the reply is sent, then the fiber fails.
Authorize(m) ==
    /\ At(m, "authorize")
    /\ Goes(m, IF Payload(m).source = "user" THEN To(m, "validate") ELSE WillReply(m, "unauthorized"))
    /\ UNCHANGED <<tagVars, tokens, replies>>

(***************************************************************************)
(* validateAttachmentsToRaw fails on the first bad reference, and with it  *)
(* the whole message; then the list is cut (trimAttachmentsToMax).         *)
(***************************************************************************)
Attachments(p) ==
    LET n == Len(p.attachments) IN
    SubSeq(p.attachments, 1, IF n < MaxAttachments THEN n ELSE MaxAttachments)
BadReference(p) == \E i \in DOMAIN p.attachments : p.attachments[i] = "noid"

(***************************************************************************)
(* What a message without attachments comes to.  A command is answered,    *)
(* whatever comes of it, but for a resume that finds its account when it   *)
(* looks and no longer when it changes it (handleResumeFound).             *)
(***************************************************************************)
Comes(p) ==
    CASE p.body = "text"    -> {"help"}
      [] p.body = "command" -> {"command"}
      [] p.body = "resume"  -> {"command", "gone"}

Validate(m) ==
    /\ At(m, "validate")
    /\ \/ BadReference(Payload(m)) /\ Goes(m, Dead(m))
       \/ ~BadReference(Payload(m)) /\ Attachments(Payload(m)) # <<>> /\ Goes(m, To(m, "attachment"))
       \/ /\ ~BadReference(Payload(m)) /\ Attachments(Payload(m)) = <<>>
          /\ \E answer \in Comes(Payload(m)) : Goes(m, WillReply(m, answer))
    /\ UNCHANGED <<tagVars, tokens, replies>>

-----------------------------------------------------------------------------
(* processWebhookAttachments, uploadAttachmentToPaperless.                 *)

NextAttachment(m) == [To(m, "attachment") EXCEPT !.next = @ + 1]
KindAtHand(m) == Attachments(Payload(m))[message[m].next]
More(m) == At(m, "attachment") /\ message[m].next <= Len(Attachments(Payload(m)))

\* Mutant: the first attachment that is no document ends the loop.
BugSkipAttachment(m) ==
    /\ More(m)
    /\ KindAtHand(m) \in {"other", "empty"}
    /\ Goes(m, WillReply(m, "filetypes"))
    /\ UNCHANGED <<tagVars, tokens, replies>>

\* What is not a document counts as not saved.
SkipAttachment(m) ==
    /\ More(m)
    /\ KindAtHand(m) \in {"other", "empty"}
    /\ Goes(m, NextAttachment(m))
    /\ UNCHANGED <<tagVars, tokens, replies>>

\* fetchAttachment throws: not an error of the effect, but a defect.
AttachmentTooLarge(m) ==
    /\ More(m)
    /\ KindAtHand(m) = "large"
    /\ Goes(m, Dead(m))
    /\ UNCHANGED <<tagVars, tokens, replies>>

UploadAttachment(m) ==
    /\ More(m)
    /\ KindAtHand(m) = "doc"
    /\ UploadDocument(m, DocOf(m, message[m].next))
    /\ Goes(m, To(m, "uploading"))
    /\ UNCHANGED <<paperless, cache, faults, clashed, tokens, replies>>

\* Mutant: a failed upload is logged and the next attachment is taken up.
BugUploadReturns(m) ==
    /\ At(m, "uploading")
    /\ call[m].pc \in {"done", "failed"}
    /\ Goes(m, [NextAttachment(m) EXCEPT !.saved = @ \/ call[m].pc = "done"])
    /\ Becomes(m, NoCall)
    /\ UNCHANGED <<paperless, cache, faults, clashed, tokens, replies>>

\* An upload that fails ends the fiber: no later attachment, no reply.
UploadReturns(m) ==
    /\ At(m, "uploading")
    /\ \/ /\ call[m].pc = "done"
          /\ Goes(m, [NextAttachment(m) EXCEPT !.saved = TRUE])
       \/ /\ call[m].pc = "failed"
          /\ Goes(m, Dead(m))
    /\ Becomes(m, NoCall)
    /\ UNCHANGED <<paperless, cache, faults, clashed, tokens, replies>>

\* Mutant: the reply depends on the last attachment.
BugAllUploaded(m) ==
    /\ At(m, "attachment")
    /\ ~More(m)
    /\ LET p == Attachments(Payload(m)) IN
        Goes(m, IF p[Len(p)] = "doc" THEN To(m, "over") ELSE WillReply(m, "filetypes"))
    /\ UNCHANGED <<tagVars, tokens, replies>>

AllUploaded(m) ==
    /\ At(m, "attachment")
    /\ ~More(m)
    /\ Goes(m, IF message[m].saved THEN To(m, "over") ELSE WillReply(m, "filetypes"))
    /\ UNCHANGED <<tagVars, tokens, replies>>

(***************************************************************************)
(* reply.  getAccount gives none when the bridge has no number or answers  *)
(* the question with an error; the reply is skipped then, which is no      *)
(* failure.                                                                *)
(***************************************************************************)
Reply(m) ==
    /\ At(m, "reply")
    /\ \/ replies' = [replies EXCEPT ![m] = @ \cup {message[m].answer}]
       \/ /\ message[m].answer \in Replies
          /\ replies' = [replies EXCEPT ![m] = @ \cup {"unlinked"}]
    /\ Goes(m, To(m, "over"))
    /\ UNCHANGED <<tagVars, tokens>>

-----------------------------------------------------------------------------
(* Failures.                                                               *)

(***************************************************************************)
(* A call of a fiber fails for good (the attachment cannot be fetched, the *)
(* reply not be sent) or the fiber is interrupted, as a child is when the  *)
(* fiber of the request ends before it.                                    *)
(***************************************************************************)
FiberEnds(m) ==
    /\ message[m].stage \in {"authorize", "validate", "attachment", "uploading", "reply"}
    /\ faults < MaxFaults
    /\ faults' = faults + 1
    /\ Goes(m, Dead(m))
    /\ call' = [call EXCEPT ![m] = NoCall]
    /\ UNCHANGED <<paperless, cache, clashed, tokens, replies>>

Client == CHOOSE c \in Clients : TRUE

\* systemd starts the bot again; the messages it was processing are lost.
Restart ==
    /\ RestartClient(Client)
    /\ message' = [m \in Messages |->
                    IF message[m].stage \in {"unsent", "refused", "over"} THEN message[m] ELSE Dead(m)]
    /\ tokens' = Limit
    /\ UNCHANGED replies

Step(m) ==
    \/ Authorize(m) \/ Validate(m)
    \/ SkipAttachment(m) \/ AttachmentTooLarge(m) \/ UploadAttachment(m)
    \/ UploadStep(m) /\ UNCHANGED intake
    \/ UploadReturns(m) \/ AllUploaded(m) \/ Reply(m)

Next ==
    \/ \E m \in Messages : \/ Webhook(m) \/ Step(m) \/ FiberEnds(m)
                           \/ RequestFails(m) /\ UNCHANGED intake
    \/ Refill
    \/ EditTag /\ UNCHANGED intake
    \/ Restart

Spec == Init /\ [][Next]_vars

-----------------------------------------------------------------------------
(* Properties.                                                             *)

Documents(m) == {i \in DOMAIN Attachments(Payload(m)) : Attachments(Payload(m))[i] = "doc"}
StoredOf(m) == {i \in DOMAIN Payload(m).attachments : stored[DocOf(m, i)] > 0}

(***************************************************************************)
(* Nothing reaches Paperless but documents of a known user, out of the     *)
(* first attachments of a message all references of which are sound; and   *)
(* they get there in order, without a gap: what is missing is the rest     *)
(* after the first that failed (Effect.forEach is sequential and fails     *)
(* fast).                                                                  *)
(***************************************************************************)
StoredIsAPrefix ==
    \A m \in Messages :
        /\ StoredOf(m) \subseteq Documents(m)
        /\ StoredOf(m) # {} => Payload(m).source = "user" /\ ~BadReference(Payload(m))
        /\ \A i \in StoredOf(m) : \A j \in Documents(m) : j < i => j \in StoredOf(m)

(***************************************************************************)
(* "No documents saved from your attachments" is only sent when none was.  *)
(***************************************************************************)
RepliesAreTrue ==
    \A m \in Messages : "filetypes" \in replies[m] => StoredOf(m) = {}

(***************************************************************************)
(* No document and no sender is passed over in silence.  Of a user's       *)
(* message whose fiber was neither cut off nor hit by a failed request, a  *)
(* clash over a tag or a deleted tag, every document is stored exactly     *)
(* once; a large attachment takes with it those that follow, a bad         *)
(* reference all.  And where none was stored the sender has an answer,     *)
(* unless Signal had no number to send it from or the account the message  *)
(* wants resumed went away between two readings of the file.               *)
(***************************************************************************)
Undisturbed == faults = 0 /\ ~clashed /\ deleted = {}
Large(p) == {i \in DOMAIN Attachments(p) : Attachments(p)[i] = "large"}
Reached(m) == {i \in Documents(m) : \A j \in Large(Payload(m)) : i < j}

NothingLostQuietly ==
    \A m \in Messages :
        At(m, "over") /\ Payload(m).source # "nobody" /\ Undisturbed =>
            /\ Payload(m).source = "user" /\ ~BadReference(Payload(m)) =>
                \A i \in Reached(m) : stored[DocOf(m, i)] = 1
            /\ \/ StoredOf(m) # {}
               \/ replies[m] \cap Replies # {}
               \/ /\ Payload(m).source = "user"
                  /\ BadReference(Payload(m)) \/ Large(Payload(m)) # {}
               \/ "unlinked" \in replies[m]
               \/ "gone" \in replies[m] /\ Payload(m).body = "resume"
=============================================================================
