---------------------------- MODULE Conversations ----------------------------
(***************************************************************************)
(* The conversations of one agent with one user, and what the agent keeps  *)
(* of them: numbered messages, memory items extracted from the user's      *)
(* messages, the agent's permission to each item, and the administration   *)
(* that deletes, edits and regulates them.                                 *)
(*                                                                         *)
(* A request reads committed rows and its own, and writes at its commit.   *)
(* Neither the one writer of SQLite nor the foreign keys of PostgreSQL are *)
(* modelled: the one orders the commits further, the others refuse some of *)
(* them.  Permissions of other agents are left out, since an agent reads   *)
(* only the items of its own conversations.                                *)
(***************************************************************************)
EXTENDS Naturals

CONSTANTS
    Convs,        \* conversation rows that may be created
    Facts,        \* durable statements the model may find in the messages
    Items,        \* memory items that may be stored
    Slots,        \* requests in progress at once
    MaxMessages,  \* bound on the messages stored at once
    NoConv, NoItem, NoFact

ASSUME BoundAssumption ==
    /\ MaxMessages \in Nat
    /\ NoConv \notin Convs /\ NoItem \notin Items /\ NoFact \notin Facts

VARIABLES
    conv,        \* AgentConversation rows
    message,     \* AgentMessageRecord rows
    item,        \* AgentMemoryItem rows
    perm,        \* the agent's AgentMemoryPermission to each item
    job,         \* what the request in each slot is doing
    shared       \* history: conversations that two chats, or a chat and their
                 \* deletion, worked on at once

rows == <<conv, message, item, perm>>
vars == <<rows, job, shared>>

Messages == 1 .. MaxMessages
Rights   == {"write"}  \* can_read and can_delete are set alike

\* pending: flushed, and visible to its own session alone
Message == [state : {"none", "pending", "stored"}, conv : Convs \cup {NoConv},
            seq : Nat, role : {"user", "assistant"}]

\* a row is never deleted: removed is active = FALSE; edited: an administrator
\* has set its content
Item == [state : {"none", "active", "removed"}, conv : Convs \cup {NoConv},
         content : Facts \cup {NoFact}, edited : BOOLEAN]

Permission == [there : BOOLEAN, rights : SUBSET Rights]

NoMessage    == [state |-> "none", conv |-> NoConv, seq |-> 0, role |-> "user"]
NoPermission == [there |-> FALSE, rights |-> {}]

Chatting == {"open", "asked", "answered", "extract"}
Pc       == {"idle", "edit", "remove", "permit", "revoke"} \cup Chatting

\* conv, new: the conversation and whether the session creates it; pending: its
\* messages; facts: the items it will insert; item: of an administrator's
\* request; was: the permission loaded; gone: its row has been deleted since
Job == [pc : Pc, conv : Convs \cup {NoConv}, new : BOOLEAN, pending : SUBSET Messages,
        facts : SUBSET Facts, item : Items \cup {NoItem}, was : Permission,
        gone : BOOLEAN]

NoJob == [pc |-> "idle", conv |-> NoConv, new |-> FALSE, pending |-> {},
          facts |-> {}, item |-> NoItem, was |-> NoPermission, gone |-> FALSE]

TypeOK ==
    /\ conv \in [Convs -> {"none", "there", "deleted"}]
    /\ message \in [Messages -> Message]
    /\ item \in [Items -> Item]
    /\ perm \in [Items -> Permission]
    /\ job \in [Slots -> Job]
    /\ shared \subseteq Convs

Init ==
    /\ conv = [c \in Convs |-> "none"]
    /\ message = [m \in Messages |-> NoMessage]
    /\ item = [i \in Items |-> [state |-> "none", conv |-> NoConv,
                                content |-> NoFact, edited |-> FALSE]]
    /\ perm = [i \in Items |-> NoPermission]
    /\ job = [s \in Slots |-> NoJob]
    /\ shared = {}

-----------------------------------------------------------------------------
(* Helpers *)

Close(s) == job' = [job EXCEPT ![s] = NoJob]

There == {c \in Convs : conv[c] = "there"}

\* the messages of its conversation that a session sees
Visible(s) == {m \in Messages : /\ message[m].conv = job[s].conv
                                /\ message[m].state = "stored" \/ m \in job[s].pending}

Last(s) == IF Visible(s) = {} THEN 0
           ELSE message[CHOOSE m \in Visible(s) :
                          \A n \in Visible(s) : message[n].seq <= message[m].seq].seq

\* the rows once the session has committed what it flushed
StoreMessages(s) ==
    /\ message' = [m \in Messages |-> IF m \in job[s].pending
                                      THEN [message[m] EXCEPT !.state = "stored"]
                                      ELSE message[m]]
    /\ conv' = IF job[s].new THEN [conv EXCEPT ![job[s].conv] = "there"] ELSE conv

-----------------------------------------------------------------------------
(* A chat with the agent *)

\* get_or_create_conversation
OpenChat(s) ==
    /\ job[s].pc = "idle"
    /\ \E c \in Convs, new \in BOOLEAN :
         /\ IF new THEN /\ There = {}
                        /\ conv[c] = "none" /\ \A r \in Slots : job[r].conv # c
                   ELSE c \in There
         /\ job' = [job EXCEPT ![s] = [NoJob EXCEPT !.pc = "open", !.conv = c, !.new = new]]
         /\ shared' = IF \E r \in Slots : job[r].conv = c THEN shared \cup {c} ELSE shared
    /\ UNCHANGED rows

LastOfOthers(s) ==  \* variant: the number is taken from the stored messages alone
    LET M == Visible(s) \ job[s].pending IN
    IF M = {} THEN 1
    ELSE message[CHOOSE m \in M : \A n \in M : message[n].seq <= message[m].seq].seq + 1

\* append_message takes the number after the last one
NextNumber(s) == Last(s) + 1

\* the main agent stores the question and then its answer; a teacher's ordinary
\* chat stores the answer only
AppendMessage(s, role) ==
    /\ job[s].pc = "open" \/ (job[s].pc = "asked" /\ role = "assistant")
    /\ \E m \in Messages :
         /\ message[m].state = "none" /\ \A n \in 1 .. (m - 1) : message[n].state # "none"
         /\ message' = [message EXCEPT ![m] = [state |-> "pending", conv |-> job[s].conv,
                                               seq |-> NextNumber(s), role |-> role]]
         /\ job' = [job EXCEPT ![s].pc = IF role = "user" THEN "asked" ELSE "answered",
                               ![s].pending = @ \cup {m}]
    /\ UNCHANGED <<conv, item, perm, shared>>

\* the runtime commits the run of a tool, and with it the question
CallTool(s) ==
    /\ job[s].pc = "asked"
    /\ StoreMessages(s)
    /\ job' = [job EXCEPT ![s].pending = {}, ![s].new = FALSE]
    /\ UNCHANGED <<item, perm, shared>>

KnownWritable(s, f) ==  \* variant: an item the agent may not write is not found
    \E i \in Items : /\ item[i].state = "active" /\ item[i].conv = job[s].conv
                     /\ item[i].content = f /\ "write" \in perm[i].rights

\* upsert_memory_item finds an active item with this content: it is refreshed, or
\* passed over if the agent may not write it
Known(s, f) ==
    \E i \in Items : /\ item[i].state = "active" /\ item[i].conv = job[s].conv
                     /\ item[i].content = f

\* extract_structured_memory: the model finds facts in the user's messages, and
\* none in a conversation without one, with memory off or in a useless answer
Extract(s) ==
    /\ job[s].pc \in {"asked", "answered"}
    /\ \E found \in SUBSET Facts :
         /\ found # {} => \E m \in Visible(s) : message[m].role = "user"
         /\ job' = [job EXCEPT ![s].pc = "extract",
                               ![s].facts = {f \in found : ~Known(s, f)}]
    /\ UNCHANGED <<rows, shared>>

\* messages, items and the permissions of their creator are one commit
CommitChat(s) ==
    /\ job[s].pc = "extract"
    /\ StoreMessages(s)
    /\ \E new \in [job[s].facts -> {i \in Items : item[i].state = "none"}] :
         /\ \A f, g \in job[s].facts : f # g => new[f] # new[g]
         /\ item' = [i \in Items |->
               IF \E f \in job[s].facts : new[f] = i
               THEN [state |-> "active", conv |-> job[s].conv, edited |-> FALSE,
                     content |-> CHOOSE f \in job[s].facts : new[f] = i]
               ELSE item[i]]
         /\ perm' = [i \in Items |->
               IF \E f \in job[s].facts : new[f] = i
               THEN [there |-> TRUE, rights |-> Rights] ELSE perm[i]]
    /\ Close(s)
    /\ UNCHANGED shared

-----------------------------------------------------------------------------
(* Administration *)

ForgetMessages(c) == UNCHANGED item  \* variant: the memory items stay active

Forget(c) == item' = [i \in Items |-> IF item[i].state = "active" /\ item[i].conv = c
                                      THEN [item[i] EXCEPT !.state = "removed"] ELSE item[i]]

\* delete_conversation
DeleteConversation(c) ==
    /\ conv[c] = "there"
    /\ conv' = [conv EXCEPT ![c] = "deleted"]
    /\ message' = [m \in Messages |->
          IF message[m].state = "stored" /\ message[m].conv = c THEN NoMessage ELSE message[m]]
    /\ Forget(c)
    /\ shared' = IF \E s \in Slots : job[s].conv = c THEN shared \cup {c} ELSE shared
    /\ UNCHANGED <<perm, job>>

\* the item is active, and a permission to be revoked is there
LoadItem(s, i) ==
    /\ job[s].pc = "idle"
    /\ \E pc \in Pc \ Chatting :
         /\ pc # "idle"
         /\ IF pc = "revoke" THEN perm[i].there ELSE item[i].state = "active"
         /\ job' = [job EXCEPT ![s] =
               [NoJob EXCEPT !.pc = pc, !.item = i,
                !.was = IF pc \in {"permit", "revoke"} THEN perm[i] ELSE NoPermission]]
    /\ UNCHANGED <<rows, shared>>

EditedWhole(i, f) ==  \* variant: the row is written as it was loaded, active
    [item EXCEPT ![i].content = f, ![i].edited = TRUE, ![i].state = "active"]

\* edit_memory_item writes the content alone
Edited(i, f) == [item EXCEPT ![i].content = f, ![i].edited = TRUE]

CommitEdit(s) ==
    /\ job[s].pc = "edit"
    /\ \E f \in Facts : item' = Edited(job[s].item, f)
    /\ Close(s)
    /\ UNCHANGED <<conv, message, perm, shared>>

\* remove_memory_item
CommitRemoval(s) ==
    /\ job[s].pc = "remove"
    /\ item' = [item EXCEPT ![job[s].item].state = "removed"]
    /\ Close(s)
    /\ UNCHANGED <<conv, message, perm, shared>>

Insertable(s) ==  \* variant: a row deleted meanwhile is inserted again
    perm[job[s].item].there => job[s].was.there

\* the row to update is still there, or the row to insert is not
Writable(s) == ~job[s].gone /\ perm[job[s].item].there = job[s].was.there

\* set_memory_permission: the rights that differ from those loaded are written;
\* if the row is not writable any more, the database refuses
CommitPermission(s) ==
    LET i == job[s].item
        was == job[s].was
    IN  /\ job[s].pc = "permit"
        /\ Writable(s)
        /\ \E to \in SUBSET Rights :
             perm' = [perm EXCEPT ![i] = [there |-> TRUE,
                rights |-> {r \in Rights : IF (r \in to) # (r \in was.rights)
                                           THEN r \in to ELSE r \in perm[i].rights}]]
        /\ Close(s)
        /\ UNCHANGED <<conv, message, item, shared>>

\* revoke_memory_permission deletes the row that was loaded
CommitRevocation(s) ==
    LET i == job[s].item IN
    /\ job[s].pc = "revoke"
    /\ perm' = IF job[s].gone THEN perm ELSE [perm EXCEPT ![i] = NoPermission]
    /\ job' = [r \in Slots |->
          IF r = s THEN NoJob
          ELSE [job[r] EXCEPT !.gone = @ \/ (~job[s].gone /\ job[r].item = i
                                                          /\ job[r].was.there)]]
    /\ UNCHANGED <<conv, message, item, shared>>

\* the model, a tool or the database fails, or the process stops: rollback
End(s) ==
    /\ job[s].pc # "idle"
    /\ message' = [m \in Messages |-> IF m \in job[s].pending THEN NoMessage ELSE message[m]]
    /\ Close(s)
    /\ UNCHANGED <<conv, item, perm, shared>>

Next ==
    \/ \E s \in Slots :
         \/ OpenChat(s) \/ CallTool(s) \/ Extract(s) \/ CommitChat(s)
         \/ \E role \in {"user", "assistant"} : AppendMessage(s, role)
         \/ \E i \in Items : LoadItem(s, i)
         \/ CommitEdit(s) \/ CommitRemoval(s) \/ CommitPermission(s)
         \/ CommitRevocation(s) \/ End(s)
    \/ \E c \in Convs : DeleteConversation(c)

Spec == Init /\ [][Next]_vars

-----------------------------------------------------------------------------
(* Properties *)

\* The messages a chat reads and adds are numbered 1 .. n, although the numbers are
\* computed from what is stored, unless two chats of the conversation overlapped
\* or it was deleted during one (append_message).
MessagesAreNumbered ==
    \A c \in Convs \ shared :
      LET M == {m \in Messages : message[m].conv = c} IN
      \A m \in M : /\ \A n \in M : message[n].seq = message[m].seq => n = m
                   /\ message[m].seq > 1 => \E n \in M : message[n].seq = message[m].seq - 1

\* Nothing of a deleted conversation is left, no message and no active item, unless
\* a chat was working on it (delete_conversation).
DeletedIsForgotten ==
    \A c \in Convs : conv[c] = "deleted" /\ c \notin shared =>
      /\ \A m \in Messages : message[m].conv # c
      /\ \A i \in Items : item[i].conv = c => item[i].state = "removed"

\* A conversation keeps a fact once, also one whose item the agent may no longer
\* read or write, as long as no administrator wrote it and no two chats extracted
\* it at once (upsert_memory_item).
MemoryIsUnique ==
    \A i, j \in Items :
      /\ item[i].state = "active" /\ item[j].state = "active"
      /\ item[i].conv = item[j].conv /\ item[i].conv \notin shared
      /\ item[i].content = item[j].content
      /\ ~item[i].edited /\ ~item[j].edited
      => i = j

\* An item that was removed stays so, though a request that loaded it active
\* writes it later.
RemovalIsFinal ==
    [][\A i \in Items : item[i].state = "removed" => item'[i].state = "removed"]_vars

\* A permission that was revoked comes back only by a request that found none: one
\* that had loaded it fails, and writes no right (set_memory_permission).
RevocationHolds ==
    [][\A i \in Items : ~perm[i].there /\ perm'[i].there =>
         \/ item[i].state = "none"
         \/ \E s \in Slots : /\ job[s].pc = "permit" /\ job[s].item = i
                             /\ ~job[s].was.there]_vars

-----------------------------------------------------------------------------
(* The inductive invariant *)

\* what the request in slot s knows of its conversation and of its memory, and
\* the messages only it sees
JobIsSound(s) ==
    LET j == job[s] IN
    /\ j.pc \in Chatting <=> j.conv # NoConv
    /\ j.conv \in Convs \ shared => conv[j.conv] = IF j.new THEN "none" ELSE "there"
    /\ \A m \in j.pending : message[m].state = "pending" /\ message[m].conv = j.conv
    /\ j.conv \in Convs \ shared =>
         \A f \in j.facts, i \in Items :
            item[i].state = "active" /\ item[i].conv = j.conv /\ item[i].content = f
              => item[i].edited
    /\ j.pc = "remove" => j.item # NoItem /\ item[j.item].state # "none"

JobsAreSound == \A s \in Slots : JobIsSound(s)

\* pending messages belong to one request, and so does a conversation that is
\* not shared
HeldOnce ==
    \A s, r \in Slots : s # r =>
      /\ job[s].pending \cap job[r].pending = {}
      /\ job[s].conv \in Convs \ shared => job[r].conv # job[s].conv

RowsAreSound ==
    /\ \A m \in Messages :
         /\ message[m].state = "none" <=> message[m].conv = NoConv
         /\ message[m].state = "pending" => \E s \in Slots : m \in job[s].pending
    /\ \A i \in Items : item[i].state = "none" <=> item[i].conv = NoConv

\* a rollback leaves 1 .. n too: what is pending comes after what is stored
StoredAreNumbered ==
    \A m \in Messages :
      message[m].state = "stored" /\ message[m].conv \notin shared /\ message[m].seq > 1 =>
        \E n \in Messages : /\ message[n].state = "stored"
                            /\ message[n].conv = message[m].conv
                            /\ message[n].seq = message[m].seq - 1

\* Requests, rows and numbers agree: the invariant the theorems are proved by.
IInv ==
    /\ TypeOK /\ JobsAreSound /\ HeldOnce /\ RowsAreSound /\ StoredAreNumbered
    /\ MessagesAreNumbered /\ DeletedIsForgotten /\ MemoryIsUnique

=============================================================================
