---------------------------- MODULE TelegramLinks ----------------------------
(***************************************************************************)
(* Telegram chats and the phone numbers they are linked to                 *)
(* (telegram/link.service.js, controllers/telegram.controller.js): the     *)
(* updates Telegram delivers until one delivery is acknowledged, the link  *)
(* a contact share writes, the command of a linked chat, and the answer,   *)
(* which is addressed to a number and finds its chat when it is sent.      *)
(*                                                                         *)
(* What becomes of a command between the webhook and its job is module     *)
(* Inbound; here it is added once, or refused with 503.                    *)
(***************************************************************************)
EXTENDS Integers

CONSTANTS Chat, Phone, Update,  \* chats, numbers, updates
          Handling,             \* webhook requests at once
          SendTries             \* attempts to post one answer

ASSUME TelegramAssumption ==
  SendTries \in Nat \ {0} /\ Phone \cap {"unlinked", "none", "command", "other"} = {}

VARIABLES link,     \* TelegramLink: the number of each chat
          update,   \* what each update is: its chat and content
          handling, \* the webhook requests
          command,  \* the jobs, by update: of which number, and the answer's way
          left      \* the numbers a chat was linked to before another one

telegramVars == <<link, update, handling, command, left>>

Unlinked == "unlinked"
Unsent == [chat |-> Unlinked, content |-> "none"]
NoCommand == [step |-> "none"]
AtRest == [step |-> "rest"]

\* A share of the sender's own, well-formed number; a command; and what is
\* only prompted for a contact, greeted, or ignored: another's contact card,
\* a bad number, /start, a group chat, a message without content.
Contents == Phone \cup {"command", "other"}

TelegramInit ==
  /\ link = [c \in Chat |-> Unlinked]
  /\ update = [u \in Update |-> Unsent]
  /\ handling = [h \in Handling |-> AtRest]
  /\ command = [u \in Update |-> NoCommand]
  /\ left = {}

Handles(h, step) == handling[h].step = step
ChatOf(h) == update[handling[h].u].chat
ContentOf(h) == update[handling[h].u].content
Answer(h) == handling' = [handling EXCEPT ![h] = AtRest]
-----------------------------------------------------------------------------
SendUpdate(u, c, content) ==
  /\ update[u] = Unsent
  /\ update' = [update EXCEPT ![u] = [chat |-> c, content |-> content]]
  /\ UNCHANGED <<link, handling, command, left>>

\* Again at any time: it was refused, or its acknowledgement was lost or late.
DeliverUpdate(h, u) ==
  /\ Handles(h, "rest") /\ update[u] # Unsent
  /\ handling' = [handling EXCEPT ![h] = [step |-> "received", u |-> u]]
  /\ UNCHANGED <<link, update, command, left>>

IgnoreUpdate(h) ==
  /\ Handles(h, "received") /\ ContentOf(h) = "other"
  /\ Answer(h)
  /\ UNCHANGED <<link, update, command, left>>
-----------------------------------------------------------------------------
(* linkContact.                                                            *)

Holders(p) == {c \in Chat : link[c] = p}

\* A number of another chat is refused ("phone_linked_to_other_chat").
ReadHolder(h) ==
  /\ Handles(h, "received") /\ ContentOf(h) \in Phone
  /\ IF Holders(ContentOf(h)) \subseteq {ChatOf(h)}
     THEN handling' = [handling EXCEPT ![h].step = "linking"]
     ELSE Answer(h)
  /\ UNCHANGED <<link, update, command, left>>

Leaves(c, p) == left' = IF link[c] \in Phone \ {p} THEN left \cup {<<c, link[c]>>} ELSE left

\* (Mutant: the row is found by its number, and taken from its chat.)
LinkByNumber(h) ==
  /\ Handles(h, "linking")
  /\ link' = [c \in Chat |-> IF c = ChatOf(h) THEN ContentOf(h)
                             ELSE IF link[c] = ContentOf(h) THEN Unlinked ELSE link[c]]
  /\ Leaves(ChatOf(h), ContentOf(h))
  /\ Answer(h)
  /\ UNCHANGED <<update, command>>

\* The upsert by chat, whatever the order in which the shares were made. The
\* number is unique: if another chat has taken it since, the statement fails
\* and the update is refused with 503.
UpsertLink(h) ==
  /\ Handles(h, "linking")
  /\ IF Holders(ContentOf(h)) \subseteq {ChatOf(h)}
     THEN /\ link' = [link EXCEPT ![ChatOf(h)] = ContentOf(h)]
          /\ Leaves(ChatOf(h), ContentOf(h))
     ELSE UNCHANGED <<link, left>>
  /\ Answer(h)
  /\ UNCHANGED <<update, command>>
-----------------------------------------------------------------------------
(* A message: the number of its chat is read, and the command is claimed   *)
(* by the id of chat and message and added for that number.                *)

ResolveNumber(h) ==
  /\ Handles(h, "received") /\ ContentOf(h) = "command"
  /\ IF link[ChatOf(h)] = Unlinked
     THEN Answer(h)
     ELSE handling' = [handling EXCEPT ![h] =
            [step |-> "resolved", u |-> handling[h].u, number |-> link[ChatOf(h)]]]
  /\ UNCHANGED <<link, update, command, left>>

EnqueueCommand(h) ==
  /\ Handles(h, "resolved")
  /\ command' = [command EXCEPT ![handling[h].u] =
       IF @ = NoCommand THEN [step |-> "queued", number |-> handling[h].number] ELSE @]
  /\ Answer(h)
  /\ UNCHANGED <<link, update, left>>

\* The queue is not available, a statement fails (both 503), or the process
\* dies: Telegram will deliver the update again.
RefuseUpdate(h) ==
  /\ ~ Handles(h, "rest")
  /\ Answer(h)
  /\ UNCHANGED <<link, update, command, left>>
-----------------------------------------------------------------------------
(* sendTextMessage: the chat of the number, then the attempts to post.     *)

FindChat(u) ==
  /\ command[u].step = "queued"
  /\ LET chats == Holders(command[u].number)
     IN command' = [command EXCEPT ![u] =
          IF chats = {} THEN [@ EXCEPT !.step = "undeliverable"]
          ELSE [step |-> "posting", number |-> @.number, tries |-> 0, to |-> CHOOSE c \in chats : TRUE]]
  /\ UNCHANGED <<link, update, handling, left>>

\* callApi and classifyTelegramFailure: 429, 5xx and a broken connection are
\* tried again, and what is then not known to be refused stays unknown.
PostToChat(u, outcome) ==
  /\ command[u].step = "posting"
  /\ command' = IF outcome = "transient_failure" /\ command[u].tries + 1 < SendTries
                THEN [command EXCEPT ![u].tries = @ + 1] ELSE [command EXCEPT ![u].step = outcome]
  /\ UNCHANGED <<link, update, handling, left>>

TelegramNext ==
  \/ \E u \in Update :
       \/ \E c \in Chat, content \in Contents : SendUpdate(u, c, content)
       \/ \E h \in Handling : DeliverUpdate(h, u)
       \/ FindChat(u)
       \/ \E outcome \in {"accepted", "transient_failure", "permanent_failure", "unknown"} : PostToChat(u, outcome)
  \/ \E h \in Handling :
       \/ IgnoreUpdate(h) \/ ReadHolder(h) \/ UpsertLink(h) \/ ResolveNumber(h)
       \/ EnqueueCommand(h) \/ RefuseUpdate(h)

TelegramSpec == TelegramInit /\ [][TelegramNext]_telegramVars
-----------------------------------------------------------------------------
\* The answer to a command is posted to the chat it came from, unless that chat
\* has given its number up for another one; two chats never share one ("two
\* Telegram accounts pointing at one wallet is an account-takeover shape",
\* link.service.js:59), also when their shares are handled at once.
AnswersGoHome ==
  /\ \A c, d \in Chat : link[c] = link[d] /\ link[c] # Unlinked => c = d
  /\ \A u \in Update :
       "to" \in DOMAIN command[u] /\ command[u].to # update[u].chat =>
         <<update[u].chat, command[u].number>> \in left
=============================================================================
