----------------------------- MODULE Conversations -----------------------------
(***************************************************************************)
(* Conversations as the host platform sees them: HostRegistry.bind and     *)
(* HostControlService over the conversations and agent_runs tables.  The   *)
(* requests run in threads and on the event loop; each reads the store,    *)
(* decides, and writes in later calls, so that any other request may come  *)
(* between.  A client that gets no answer sends the request again.         *)
(***************************************************************************)
EXTENDS Naturals

CONSTANTS
  Requests,       \* requests of the host, each one answered once
  Users,          \* external users of the platform
  Slots,          \* conversations, in the order of their ids
  SendKeys,       \* idempotency keys of messages
  MaxSends,       \* runs that are ever inserted
  Unset

VARIABLES
  conversation,   \* the rows of conversations, with what attach_host left in the session
  sent,           \* agent_runs: per conversation and key, the run (the unique index)
  active,         \* the run of a conversation that has not ended
  runs,           \* the number of rows of agent_runs
  request         \* the requests and their answers

conversationsVars == <<conversation, sent, active, runs, request>>

ConversationRows == [owner : Users, deleted : BOOLEAN, host : Users \cup {Unset}]
Answer(at, user, slot, key, run) == [at |-> at, user |-> user, slot |-> slot, key |-> key, run |-> run]
Unanswered == Answer("new", Unset, Unset, Unset, 0)

ASSUME ConversationsAssumption ==
  MaxSends \in Nat /\ Unset \notin Users \cup Slots \cup SendKeys \cup ConversationRows

ConversationsTypeOK ==
  /\ conversation \in [Slots -> ConversationRows \cup {Unset}]
  /\ sent \in [Slots \X SendKeys -> 0..MaxSends]
  /\ active \in [Slots -> 0..MaxSends]
  /\ runs \in 0..MaxSends
  /\ request \in [Requests -> [at : {"new", "missing", "found", "bound", "sending", "sent", "refused"},
                               user : Users \cup {Unset}, slot : Slots \cup {Unset},
                               key : SendKeys \cup {Unset}, run : 0..MaxSends]]

ConversationsInit ==
  /\ conversation = [s \in Slots |-> Unset]
  /\ sent = [k \in Slots \X SendKeys |-> 0]
  /\ active = [s \in Slots |-> 0]
  /\ runs = 0
  /\ request = [r \in Requests |-> Unanswered]

Listed(s) == conversation[s] # Unset /\ ~conversation[s].deleted
RefuseRequest(r) == request' = [request EXCEPT ![r].at = "refused"]

-----------------------------------------------------------------------------
(* bind                                                                      *)

\* mutant: an id selects a conversation whoever asks
Selectable_ById(u, s) == Listed(s)

\* the ids of a bind select a conversation of the user, or nothing
Selectable(u, s) == Listed(s) /\ conversation[s].owner = u

\* by conversation_key, or without any: the one changed last, which any of them may be
BindByKey(r, u) ==
  LET found == {s \in Slots : Listed(s) /\ conversation[s].owner = u} IN
  /\ request[r].at = "new"
  /\ \/ /\ found = {}
        /\ request' = [request EXCEPT ![r] = Answer("missing", u, Unset, Unset, 0)]
     \/ \E s \in found :
          request' = [request EXCEPT ![r] = Answer("found", u, s, Unset, 0)]
  /\ UNCHANGED <<conversation, sent, active, runs>>

BindById(r, u, s) ==
  /\ request[r].at = "new"
  /\ request' = [request EXCEPT ![r] =
       IF Selectable(u, s) THEN Answer("found", u, s, Unset, 0) ELSE Answer("refused", u, Unset, Unset, 0)]
  /\ UNCHANGED <<conversation, sent, active, runs>>

\* create_conversation, for a session that is new
CreateConversation(r) ==
  /\ request[r].at = "missing"
  /\ \E s \in Slots :
       /\ conversation[s] = Unset
       /\ conversation' = [conversation EXCEPT ![s] =
            [owner |-> request[r].user, deleted |-> FALSE, host |-> Unset]]
       /\ request' = [request EXCEPT ![r] = Answer("found", request[r].user, s, Unset, 0)]
  /\ UNCHANGED <<sent, active, runs>>

\* attach_host and the token
AttachHost(r) ==
  /\ request[r].at = "found"
  /\ conversation' = [conversation EXCEPT ![request[r].slot].host = request[r].user]
  /\ request' = [request EXCEPT ![r].at = "bound"]
  /\ UNCHANGED <<sent, active, runs>>

SoftDelete(s) ==
  /\ Listed(s)
  /\ conversation' = [conversation EXCEPT ![s].deleted = TRUE]
  /\ UNCHANGED <<sent, active, runs, request>>

-----------------------------------------------------------------------------
(* send_message                                                              *)

\* find_agent_run_by_idempotency: a key that was used is answered with its run, whatever
\* became of it
SendMessage(r, s, k) ==
  /\ request[r].at = "new"
  /\ request' = [request EXCEPT ![r] =
       IF ~Listed(s) THEN Answer("refused", Unset, s, k, 0)
       ELSE Answer(IF sent[<<s, k>>] # 0 THEN "sent" ELSE "sending", Unset, s, k, sent[<<s, k>>])]
  /\ UNCHANGED <<conversation, sent, active, runs>>

\* mutant: without the unique index
Used_Never(s, k) == FALSE

\* idx_agent_runs_conversation_idempotency
Used(s, k) == sent[<<s, k>>] # 0

\* start_chat_run inserts the row: refused while a run of the session is active and, by
\* the index, when a request with the same key was faster
StartSent(r) ==
  LET s == request[r].slot
      k == request[r].key IN
  /\ request[r].at = "sending" /\ runs < MaxSends
  /\ IF active[s] # 0 \/ Used(s, k)
     THEN RefuseRequest(r) /\ UNCHANGED <<sent, active, runs>>
     ELSE /\ runs' = runs + 1
          /\ sent' = [sent EXCEPT ![<<s, k>>] = runs']
          /\ active' = [active EXCEPT ![s] = runs']
          /\ request' = [request EXCEPT ![r] = Answer("sent", Unset, s, k, runs')]
  /\ UNCHANGED conversation

\* it ends, also because it could not be saved before its start
RunEnds(s) ==
  /\ active[s] # 0
  /\ active' = [active EXCEPT ![s] = 0]
  /\ UNCHANGED <<conversation, sent, runs, request>>

ConversationsNext ==
  \/ \E r \in Requests, u \in Users : BindByKey(r, u) \/ \E s \in Slots : BindById(r, u, s)
  \/ \E r \in Requests : CreateConversation(r) \/ AttachHost(r) \/ StartSent(r)
  \/ \E r \in Requests, s \in Slots, k \in SendKeys : SendMessage(r, s, k)
  \/ \E s \in Slots : SoftDelete(s) \/ RunEnds(s)

ConversationsSpec == ConversationsInit /\ [][ConversationsNext]_conversationsVars

-----------------------------------------------------------------------------
(* Properties                                                                *)

\* A message that is sent again, at the same time or after its run has ended, is the
\* same run: no two answers for one key name different runs (Idempotency-Key).  And the
\* tools, prompts and credentials that a session carries for its user were bound by a
\* request of that user, whichever way the conversation was found.
RequestsKeepApart ==
  /\ \A r, q \in Requests :
       request[r].at = "sent" /\ request[q].at = "sent"
         /\ request[r].slot = request[q].slot /\ request[r].key = request[q].key
       => request[r].run = request[q].run
  /\ \A s \in Slots : conversation[s] # Unset => conversation[s].host \in {Unset, conversation[s].owner}
=============================================================================
