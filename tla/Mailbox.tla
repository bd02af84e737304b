------------------------------ MODULE Mailbox ------------------------------
(***************************************************************************)
(* mailbox_request (drivers/bcm2835/mailbox.c): a caller's tags are copied *)
(* into one static buffer, `sequence', whose address is sent on channel 8; *)
(* the firmware answers in the same buffer and sends the address back; the *)
(* answered tags are handed one by one to the caller's callback.           *)
(* The firmware also sends mail of its own on other channels, into the     *)
(* same inbound queue, and mailbox_receive throws it away.  Before it      *)
(* sends, the code waits for MAIL0, the INBOUND queue, not to be full.     *)
(*                                                                         *)
(* The buffer is modelled word by word, as the walk over the tags reads    *)
(* it: a tag is its identifier, the bytes of its value, a code and the     *)
(* value; identifier 0 ends the list.  The answer to a tag is the number   *)
(* of the call it belongs to.                                              *)
(***************************************************************************)
EXTENDS Integers, Sequences

CONSTANTS
  Requests,     \* the requests: [words |-> the caller's array,
                \*                tags |-> the indices of its tags]
  Size,         \* the words of sequence
  Known,        \* the identifiers the callback accepts
  Capacity,     \* the mails a queue holds
  MaxOthers,    \* bound on the mails the firmware sends on its own
  MaxCalls      \* bound on the calls of mailbox_request

(* The index after the tag at index t: the word at t + 1 says how many     *)
(* bytes its value has.                                                    *)
Following(r, t) == t + 3 + r.words[t + 2] \div 4

(* As clock.c, framebuffer.c and vpu.c lay them out: tags one after the    *)
(* other from index 2 on, each with a value, and a 0 after the last.       *)
ASSUME MailboxAssumption ==
  /\ {Size, Capacity} \subseteq Nat \ {0} /\ {MaxOthers, MaxCalls} \subseteq Nat
  /\ \A r \in Requests :
       /\ r.words \in Seq(Nat)
       /\ 2 \in r.tags /\ r.tags \subseteq 2 .. Len(r.words) - 5
       /\ \A t \in r.tags :
            LET next == Following(r, t)
            IN  /\ r.words[t + 1] # 0 /\ r.words[t + 2] >= 4
                /\ next < Len(r.words)
                /\ \A u \in r.tags : u <= t \/ u >= next
                /\ \/ next \in r.tags
                   \/ r.words[next + 1] = 0 /\ \A u \in r.tags : u < next

VARIABLES
  sequence,     \* the buffer the two sides share
  inbox,        \* MAIL0: the channels of the mails to the core
  outbox,       \* MAIL1: the channels of the mails to the firmware
  answering,    \* the firmware has answered and still has to send its mail
  mailbox_pc, request,  \* where mailbox_request is, and its argument
  ptr,          \* the word the walk has reached
  seen,         \* what the callback was given: index, identifier, value
  result,       \* what the last call returned
  calls, others     \* the calls, and the firmware's own mails, so far

mailboxVars == <<sequence, inbox, outbox, answering, mailbox_pc, request, ptr,
                 seen, result, calls, others>>
callVars == <<request, ptr, seen, result, calls>>

MAILBOX_ID == 8
FOREIGN    == 1   \* any other channel
OK         == 1   \* MAILBOX_RESPONSE_SUCCESS
ERROR      == 2

MailboxTypeOK ==
  /\ sequence \in [0 .. Size - 1 -> Nat]
  /\ inbox \in Seq({MAILBOX_ID, FOREIGN}) /\ Len(inbox) <= Capacity
  /\ outbox \in Seq({MAILBOX_ID}) /\ Len(outbox) <= Capacity
  /\ answering \in BOOLEAN /\ result \in BOOLEAN
  /\ mailbox_pc \in {"idle", "send", "receive", "check", "walk"}
  /\ request \in Requests
  /\ ptr \in 0 .. Size - 1
  /\ calls \in 0 .. MaxCalls /\ others \in 0 .. MaxOthers

MailboxInit ==
  /\ sequence = [i \in 0 .. Size - 1 |-> 0]
  /\ inbox = <<>> /\ outbox = <<>> /\ answering = FALSE
  /\ mailbox_pc = "idle" /\ request \in Requests
  /\ ptr = 0 /\ seen = <<>> /\ result = FALSE
  /\ calls = 0 /\ others = 0

(* size > sizeof(sequence) *)
TooLarge(r) ==
  /\ mailbox_pc = "idle" /\ calls < MaxCalls
  /\ Len(r.words) > Size
  /\ calls' = calls + 1 /\ request' = r
  /\ result' = FALSE /\ seen' = <<>>
  /\ UNCHANGED <<sequence, inbox, outbox, answering, mailbox_pc, ptr, others>>

(* Fault: the size is not checked, and the copy runs past the buffer. *)
CopyUnchecked(r) ==
  /\ mailbox_pc = "idle" /\ calls < MaxCalls
  /\ mailbox_pc' = "send"
  /\ calls' = calls + 1 /\ request' = r
  /\ seen' = <<>>
  /\ sequence' = [i \in DOMAIN sequence \union 0 .. Len(r.words) - 1 |->
                    IF i = 0 THEN Len(r.words)
                    ELSE IF i < Len(r.words) THEN r.words[i + 1]
                    ELSE sequence[i]]
  /\ UNCHANGED <<inbox, outbox, answering, ptr, result, others>>

(* The copy of the request; what an earlier call left behind it stays. *)
Copy(r) ==
  /\ mailbox_pc = "idle" /\ calls < MaxCalls
  /\ Len(r.words) <= Size
  /\ mailbox_pc' = "send"
  /\ calls' = calls + 1 /\ request' = r
  /\ seen' = <<>>
  /\ sequence' = [i \in 0 .. Size - 1 |->
                    IF i = 0 THEN Len(r.words)
                    ELSE IF i < Len(r.words) THEN r.words[i + 1]
                    ELSE sequence[i]]
  /\ UNCHANGED <<inbox, outbox, answering, ptr, result, others>>

(* Fault: the wait tests MAIL_EMPTY. *)
SendWhenEmpty ==
  /\ mailbox_pc = "send" /\ inbox = <<>>
  /\ mailbox_pc' = "receive"
  /\ outbox' = Append(outbox, MAILBOX_ID)
  /\ UNCHANGED <<sequence, inbox, answering, callVars, others>>

(* wait_for_mailbox_non_full, then the write of mailbox_send. *)
Send ==
  /\ mailbox_pc = "send" /\ Len(inbox) < Capacity
  /\ mailbox_pc' = "receive"
  /\ outbox' = Append(outbox, MAILBOX_ID)
  /\ UNCHANGED <<sequence, inbox, answering, callVars, others>>

(* One iteration of mailbox_receive: wait_for_mailbox_non_empty, read_mail *)
(* and `the dumb part'.                                                    *)
Receive ==
  /\ mailbox_pc = "receive" /\ inbox # <<>>
  /\ inbox' = Tail(inbox)
  /\ mailbox_pc' = IF Head(inbox) = MAILBOX_ID THEN "check" ELSE mailbox_pc
  /\ UNCHANGED <<sequence, outbox, answering, callVars, others>>

(* Fault: the response code is not looked at. *)
CheckNothing ==
  /\ mailbox_pc = "check" /\ mailbox_pc' = "walk" /\ ptr' = 2
  /\ UNCHANGED <<sequence, inbox, outbox, answering, request, seen, result,
                 calls, others>>

(* The mail received is the address of sequence, which is not 0, so that   *)
(* the response code alone decides.                                        *)
Check ==
  /\ mailbox_pc = "check"
  /\ IF sequence[1] = OK THEN mailbox_pc' = "walk" /\ ptr' = 2 /\ result' = result
                         ELSE mailbox_pc' = "idle" /\ ptr' = ptr /\ result' = FALSE
  /\ UNCHANGED <<sequence, inbox, outbox, answering, request, seen, calls,
                 others>>

Return(r) ==
  /\ mailbox_pc' = "idle" /\ result' = r
  /\ UNCHANGED ptr

(* ptr++; ptr += *ptr / 4 + 2 *)
NextTag == ptr + 1 + sequence[ptr + 1] \div 4 + 2

(* The callback gets the next tag. *)
Walk ==
  /\ mailbox_pc = "walk" /\ sequence[ptr] # 0
  /\ seen' = Append(seen, <<ptr, sequence[ptr], sequence[ptr + 3]>>)
  /\ IF sequence[ptr] \in Known THEN ptr' = NextTag
                                     /\ UNCHANGED <<mailbox_pc, result>>
                                ELSE Return(FALSE)
  /\ UNCHANGED <<sequence, inbox, outbox, answering, request, calls, others>>

WalkEnd ==
  /\ mailbox_pc = "walk" /\ sequence[ptr] = 0
  /\ Return(TRUE)
  /\ UNCHANGED <<sequence, inbox, outbox, answering, request, seen, calls,
                 others>>

(* The firmware: it takes a request and answers all of its tags or refuses *)
(* it, then sends the mail back once the core's queue has room.            *)
Answer ==
  /\ outbox # <<>> /\ ~answering
  /\ outbox' = Tail(outbox) /\ answering' = TRUE
  /\ \/ sequence' = [i \in 0 .. Size - 1 |->
                       IF i = 1 THEN OK
                       ELSE IF i - 3 \in request.tags THEN calls
                       ELSE sequence[i]]
     \/ sequence' = [sequence EXCEPT ![1] = ERROR]
  /\ UNCHANGED <<inbox, mailbox_pc, callVars, others>>

Reply ==
  /\ answering /\ Len(inbox) < Capacity
  /\ inbox' = Append(inbox, MAILBOX_ID) /\ answering' = FALSE
  /\ UNCHANGED <<sequence, outbox, mailbox_pc, callVars, others>>

OtherMail ==
  /\ others < MaxOthers /\ Len(inbox) < Capacity
  /\ inbox' = Append(inbox, FOREIGN) /\ others' = others + 1
  /\ UNCHANGED <<sequence, outbox, answering, mailbox_pc, callVars>>

CoreStep == Send \/ Receive \/ Check \/ Walk \/ WalkEnd
Firmware == Answer \/ Reply

MailboxNext ==
  \/ \E r \in Requests : TooLarge(r) \/ Copy(r)
  \/ CoreStep \/ Firmware \/ OtherMail

MailboxSafeSpec == MailboxInit /\ [][MailboxNext]_mailboxVars

(* The core polls, and the firmware answers what it is sent. *)
MailboxSpec ==
  MailboxSafeSpec /\ WF_mailboxVars(CoreStep) /\ WF_mailboxVars(Firmware)

-----------------------------------------------------------------------------
(* When mailbox_request returns true, its callback was given every tag of  *)
(* the request, once and in order, with the firmware's answer to this very *)
(* call: nothing a longer or an earlier request left in the shared buffer, *)
(* and nothing read before the answer was there.                           *)
CallbackSeesTheAnswer ==
  mailbox_pc = "idle" /\ result /\ calls > 0 =>
    /\ {s[1] : s \in {seen[i] : i \in 1 .. Len(seen)}} = request.tags
    /\ \A i \in 1 .. Len(seen) :
         /\ seen[i][2] = request.words[seen[i][1] + 1]
         /\ seen[i][3] = calls
         /\ \A j \in 1 .. i - 1 : seen[j][1] < seen[i][1]

(* The sender waits for room in a queue that only mails of other channels  *)
(* fill, which nobody takes out before it has sent.                        *)
SenderBlocked ==
  mailbox_pc = "send" /\ inbox = [i \in 1 .. Capacity |-> FOREIGN]

(* Every call returns, unless its sender is blocked: the firmware's own    *)
(* mails have filled the inbound queue since the last call read it.        *)
RequestReturns == mailbox_pc # "idle" ~> mailbox_pc = "idle" \/ []SenderBlocked
=============================================================================
