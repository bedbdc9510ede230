------------------------------ MODULE ChatStore ------------------------------
(***************************************************************************)
(* The chat of one project room, in Redis: message hashes with their time  *)
(* to live, the index of the room, reactions, presence and typing.  Each   *)
(* call to Redis is a step; none of them are in a transaction.             *)
(***************************************************************************)
EXTENDS Sessions

CONSTANTS
  FirstMessage, NoMessage,
  UnknownId        \* an id that no message ever has

Messages == {FirstMessage, UnknownId} \cup Requests
Hashes   == [whole : BOOLEAN, ends : BOOLEAN, reactions : SUBSET Users]

ASSUME ChatAssumption ==
  /\ FirstMessage # UnknownId
  /\ {FirstMessage, UnknownId} \cap Requests = {}
  /\ NoMessage \notin Hashes

VARIABLES
  message,     \* hashes, by id
  index,       \* ids in room:...:messages
  online,      \* the set of users online:...
  beating,     \* users whose heartbeat key is there
  typing,      \* users whose typing key is there
  draft,       \* what a chat handler read or was given
  (* history *)
  intended,    \* reactions if each change had been made at once
  torn,        \* messages with a change that something came between
  loose        \* messages that nothing will expire, and for what reason

chat == <<message, index, online, beating, typing, intended, torn, loose>>

HasMessage(m) == message[m] # NoMessage
NoDraft == [message |-> FirstMessage, adds |-> FALSE, read |-> {}]
Reactions(m) == IF HasMessage(m) THEN message[m].reactions ELSE {}

InitChat ==
  /\ message = [m \in Messages |-> IF m = FirstMessage
                  THEN [whole |-> TRUE, ends |-> TRUE, reactions |-> {}] ELSE NoMessage]
  /\ index = {FirstMessage}
  /\ online = {} /\ beating = {} /\ typing = {} /\ torn = {} /\ loose = {}
  /\ intended = [m \in Messages |-> {}]
  /\ draft = [r \in Requests |-> NoDraft]

-----------------------------------------------------------------------------
(* assertParticipant asks checkProjectAccess, whose answer may change from *)
(* one request to the next, and refuses or lets the handler on.  Requests  *)
(* that only read, and those for the counters of unread messages, which    *)
(* nobody increments, are done at once.                                    *)
Enter(r) ==
  /\ pc[r] = "route"
  /\ \E op \in {"hset", "read reactions", "sadd", "srem", "type", "done"} : Goto(r, op)
  /\ UNCHANGED <<session, gates, draft, chat>>

(* storeMessage: the hash, its time to live, the index.                    *)
StoreHash(r) ==
  /\ pc[r] = "hset"
  /\ message' = [message EXCEPT ![r] = [whole |-> TRUE, ends |-> FALSE, reactions |-> {}]]
  /\ Goto(r, "expire")
  /\ UNCHANGED <<session, gates, draft, index, online, beating, typing, intended, torn, loose>>

StoreExpire(r) ==
  /\ pc[r] = "expire"
  /\ message' = [message EXCEPT ![r].ends = TRUE]
  /\ Goto(r, "zadd")
  /\ UNCHANGED <<session, gates, draft, index, online, beating, typing, intended, torn, loose>>

StoreIndex(r) ==
  /\ pc[r] = "zadd"
  /\ index' = index \cup {r}
  /\ Answer(r)
  /\ UNCHANGED <<session, gates, draft, message, online, beating, typing, intended, torn, loose>>

(* addReaction and removeReaction.  The id that the request names is not   *)
(* looked for in the index: it may be of a message that expired, or none.  *)
ReadReactions(r) ==
  /\ pc[r] = "read reactions"
  /\ \E m \in index \cup {UnknownId}, adds \in BOOLEAN :
       draft' = [draft EXCEPT ![r] = [message |-> m, adds |-> adds, read |-> Reactions(m)]]
  /\ Goto(r, "write reactions")
  /\ UNCHANGED <<session, gates, chat>>

With(S, u, adds) == IF adds THEN S \cup {u} ELSE S \ {u}

(* The whole set is written back; of a message that is not there, a hash   *)
(* that nothing will expire is made.                                       *)
WriteSet(r, base) ==
  LET d == draft[r]
      u == session[r]
      new == With(base, u, d.adds)
  IN /\ pc[r] = "write reactions"
     /\ message' = [message EXCEPT ![d.message] =
          IF HasMessage(d.message) THEN [@ EXCEPT !.reactions = new]
          ELSE [whole |-> FALSE, ends |-> FALSE, reactions |-> new]]
     /\ intended' = [intended EXCEPT ![d.message] = With(@, u, d.adds)]
     /\ torn' = IF d.read # Reactions(d.message) THEN torn \cup {d.message} ELSE torn
     /\ loose' = IF HasMessage(d.message) THEN loose ELSE loose \cup {d.message}
     /\ Answer(r)
     /\ UNCHANGED <<session, gates, draft, index, online, beating, typing>>

(* Mutant: only the user's own reaction is written.                        *)
WriteReactionAlone(r) == WriteSet(r, {})

WriteReactions(r) == WriteSet(r, draft[r].read)

(* joinRoom and leaveRoom                                                  *)
Join(r) ==
  /\ pc[r] = "sadd"
  /\ online' = online \cup {session[r]}
  /\ Goto(r, "beat")
  /\ UNCHANGED <<session, gates, draft, message, index, beating, typing, intended, torn, loose>>

Beat(r) ==
  /\ pc[r] = "beat"
  /\ beating' = beating \cup {session[r]}
  /\ Answer(r)
  /\ UNCHANGED <<session, gates, draft, message, index, online, typing, intended, torn, loose>>

Leave(r) ==
  /\ pc[r] = "srem"
  /\ online' = online \ {session[r]}
  /\ Goto(r, "unbeat")
  /\ UNCHANGED <<session, gates, draft, message, index, beating, typing, intended, torn, loose>>

Unbeat(r) ==
  /\ pc[r] = "unbeat"
  /\ beating' = beating \ {session[r]}
  /\ Answer(r)
  /\ UNCHANGED <<session, gates, draft, message, index, online, typing, intended, torn, loose>>

Type(r) ==
  /\ pc[r] = "type"
  /\ typing' \in {typing \cup {session[r]}, typing \ {session[r]}}
  /\ Answer(r)
  /\ UNCHANGED <<session, gates, draft, message, index, online, beating, intended, torn, loose>>

(* A key's time is up.  The index keeps the message's id, and the set      *)
(* online the user.                                                        *)
KeyExpires ==
  /\ \/ /\ \E m \in Messages :
             /\ HasMessage(m) /\ message[m].ends
             /\ message' = [message EXCEPT ![m] = NoMessage]
             /\ intended' = [intended EXCEPT ![m] = {}]
        /\ UNCHANGED <<beating, typing>>
     \/ \E u \in beating : beating' = beating \ {u} /\ UNCHANGED <<message, intended, typing>>
     \/ \E u \in typing : typing' = typing \ {u} /\ UNCHANGED <<message, intended, beating>>
  /\ UNCHANGED <<pc, session, gates, draft, index, online, torn, loose>>

ChatStep(r) ==
  \/ Enter(r) \/ StoreHash(r) \/ StoreExpire(r) \/ StoreIndex(r)
  \/ ReadReactions(r) \/ WriteReactions(r)
  \/ Join(r) \/ Beat(r) \/ Leave(r) \/ Unbeat(r) \/ Type(r)

(* Handlers that end here leave their messages behind for good.            *)
ChatFails(R) ==
  /\ loose' = loose \cup {r \in R : pc[r] = "expire"}
  /\ UNCHANGED <<draft, message, index, online, beating, typing, intended, torn>>

-----------------------------------------------------------------------------
ChatTypeOK ==
  /\ message \in [Messages -> Hashes \cup {NoMessage}]
  /\ index \subseteq Messages
  /\ online \cup beating \cup typing \subseteq Users
  /\ \A m \in Messages : (HasMessage(m) /\ ~message[m].whole) => m \in index \cup {UnknownId}

(* A message keeps every reaction given and none taken back, and ends with *)
(* its time to live, unless two changes of it overlapped, one came when it *)
(* had expired or had never been, or a failure or a restart came before    *)
(* its time to live was set.                                               *)
MessagesNeedCause ==
  \A m \in Messages : HasMessage(m) =>
    /\ m \in torn \/ message[m].reactions = intended[m]
    /\ message[m].ends \/ m \in loose \/ (m \in Requests /\ pc[m] = "expire")
=============================================================================
