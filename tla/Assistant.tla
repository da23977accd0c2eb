----------------------------- MODULE Assistant ------------------------------
(***************************************************************************)
(* Questions to the assistant about a shard (handleAssistantLogic).  A     *)
(* request reads the files of the shard, looks in the cache for the reply  *)
(* to the same question about the same files, and asks OpenAI if there is  *)
(* none.  Both commands to Redis go through the breaker of CacheService.   *)
(*                                                                         *)
(* So does the one command of fetchAllRooms, which stores the rooms of the *)
(* user under a key that no handler reads: what is stored is left out, and *)
(* the request is one more that uses the breaker and waits for it.         *)
(*                                                                         *)
(* The key of the cache is a hash of files and question, which stands for  *)
(* the pair.  As in CommentCache a command takes effect in the step that   *)
(* issues it, and the request goes on when its reply has settled in the    *)
(* breaker; a refused command is issued all the same.                      *)
(***************************************************************************)
EXTENDS CircuitBreaker

CONSTANTS
    Contents,   \* files that the shard may have
    Queries,
    Nothing     \* no files; a miss; nothing asked

VARIABLES
    files,      \* the files of the shard in the database
    entry,      \* entry[k]: the reply cached under key k, or Nothing
    at,         \* at[o]: the command that the request o issued last
    read,       \* read[o], asked[o]: the files it has read and its question
    asked,
    reply,      \* reply[o]: what GET returned or OpenAI replied
    fate        \* fate[o]: Redis executes the command that o waits for

Keys == Contents \X Queries

\* parsed: OpenAI kept to the format that it was told to reply in.
Replies == [files : Contents, query : Queries, parsed : BOOLEAN]

request == <<at, read, asked, reply>>
breaker == <<state, failures, quiet, inflight, fate>>
assistantVars == <<files, entry, request, breaker>>

AssistantTypeOK ==
    /\ TypeOK
    /\ files \in Contents \cup {Nothing}
    /\ entry \in [Keys -> Replies \cup {Nothing}]
    /\ at \in [Ops -> {"idle", "read", "get", "set", "rooms"}]
    /\ read \in [Ops -> Contents \cup {Nothing}]
    /\ asked \in [Ops -> Queries \cup {Nothing}]
    /\ reply \in [Ops -> Replies \cup {Nothing}]
    /\ fate \in [Ops -> BOOLEAN]
    /\ \A o \in Ops :
          /\ at[o] \notin {"idle", "rooms"} => read[o] \in Contents /\ asked[o] \in Queries
          /\ o \in inflight => at[o] \in {"get", "set", "rooms"}

AssistantInit ==
    /\ Init
    /\ files = Nothing
    /\ entry = [k \in Keys |-> Nothing]
    /\ at = [o \in Ops |-> "idle"]
    /\ read = [o \in Ops |-> Nothing]
    /\ asked = [o \in Ops |-> Nothing]
    /\ reply = [o \in Ops |-> Nothing]
    /\ fate = [o \in Ops |-> TRUE]

\* Mutant of Key: an answer is the same whatever the files are.
KeyOfQuery(o) == <<CHOOSE c \in Contents : TRUE, asked[o]>>

Key(o) == <<read[o], asked[o]>>

\* Saved, propagated or deleted by other requests.
ChangeFiles ==
    /\ files' \in (Contents \cup {Nothing}) \ {files}
    /\ UNCHANGED <<entry, request, breaker>>

\* The time to live of an entry ends, or Redis loses it.
Expire(k) ==
    /\ entry[k] # Nothing
    /\ entry' = [entry EXCEPT ![k] = Nothing]
    /\ UNCHANGED <<files, request, breaker>>

Ask(o, q) ==
    /\ at[o] = "idle" /\ files # Nothing
    /\ at' = [at EXCEPT ![o] = "read"]
    /\ read' = [read EXCEPT ![o] = files]
    /\ asked' = [asked EXCEPT ![o] = q]
    /\ UNCHANGED <<files, entry, reply, breaker>>

\* getFiles returns [] both when there are no files and when the query failed.
AskInVain(o) ==
    /\ at[o] = "idle"
    /\ UNCHANGED assistantVars

Respond(o) ==
    /\ at' = [at EXCEPT ![o] = "idle"]
    /\ read' = [read EXCEPT ![o] = Nothing]
    /\ asked' = [asked EXCEPT ![o] = Nothing]
    /\ reply' = [reply EXCEPT ![o] = Nothing]

\* Mutant of Call: an open circuit makes the caller wait until it lets it through.
CallWhenAdmitted(o, done, answered) ==
    /\ Admit(o) /\ answered = done
    /\ fate' = [fate EXCEPT ![o] = done]

\* A call of CacheService.  done: Redis executes the command; answered: the
\* caller gets what Redis answered, not the fallback null.
Call(o, done, answered) ==
    \/ /\ Admit(o) /\ answered = done
       /\ fate' = [fate EXCEPT ![o] = done]
    \/ /\ Refuse(o) /\ ~answered
       /\ UNCHANGED fate

Settle(o) ==
    /\ IF fate[o] THEN Succeed(o) ELSE Fail(o)
    /\ fate' = [fate EXCEPT ![o] = TRUE]
    /\ UNCHANGED <<files, entry, request>>

Get(o, done) ==
    /\ at[o] = "read"
    /\ at' = [at EXCEPT ![o] = "get"]
    /\ \E answered \in BOOLEAN :
          /\ Call(o, done, answered)
          /\ reply' = [reply EXCEPT ![o] = IF answered THEN entry[Key(o)] ELSE Nothing]
    /\ UNCHANGED <<files, entry, read, asked>>

Hit(o) ==
    /\ at[o] = "get" /\ o \notin inflight
    /\ reply[o] # Nothing
    /\ Respond(o)
    /\ UNCHANGED <<files, entry, breaker>>

\* Miss and fetch.  A reply that cannot be parsed is an error message to the
\* client, and cached like the others.
Fetch(o, parsed, done) ==
    /\ at[o] = "get" /\ o \notin inflight
    /\ reply[o] = Nothing
    /\ at' = [at EXCEPT ![o] = "set"]
    /\ reply' = [reply EXCEPT ![o] =
          [files |-> read[o], query |-> asked[o], parsed |-> parsed]]
    /\ entry' = IF done THEN [entry EXCEPT ![Key(o)] = reply'[o]] ELSE entry
    /\ \E answered \in BOOLEAN : Call(o, done, answered)
    /\ UNCHANGED <<files, read, asked>>

\* "Could not fetch response from OpenAI", with status 200; not cached.
FetchFails(o) ==
    /\ at[o] = "get" /\ o \notin inflight
    /\ reply[o] = Nothing
    /\ Respond(o)
    /\ UNCHANGED <<files, entry, breaker>>

\* Mutant of Answer: saveAssistantResponse is not awaited.
AnswerEarly(o) ==
    /\ at[o] = "set"
    /\ Respond(o)
    /\ UNCHANGED <<files, entry, breaker>>

\* The reply is sent whether or not it could be cached.
Answer(o) ==
    /\ at[o] = "set" /\ o \notin inflight
    /\ Respond(o)
    /\ UNCHANGED <<files, entry, breaker>>

\* saveAllCollaborativeRooms.
StoreRooms(o, done) == \E answered \in BOOLEAN : Call(o, done, answered)

\* fetchAllRooms: the rooms have been read from the database and are stored.
ListRooms(o, done) ==
    /\ at[o] = "idle"
    /\ at' = [at EXCEPT ![o] = "rooms"]
    /\ StoreRooms(o, done)
    /\ UNCHANGED <<files, entry, read, asked, reply>>

\* getAllCollaborativeRooms returns null when its query failed: status 500.
ListInVain(o) ==
    /\ at[o] = "idle"
    /\ UNCHANGED assistantVars

\* They are sent whether or not they could be stored.
AnswerRooms(o) ==
    /\ at[o] = "rooms" /\ o \notin inflight
    /\ Respond(o)
    /\ UNCHANGED <<files, entry, breaker>>

Elapse ==
    /\ TimeoutPasses
    /\ UNCHANGED <<files, entry, request, fate>>

\* The process exits and starts again; files and entries are in other servers.
RestartServer ==
    /\ Restart
    /\ at' = [o \in Ops |-> "idle"]
    /\ read' = [o \in Ops |-> Nothing]
    /\ asked' = [o \in Ops |-> Nothing]
    /\ reply' = [o \in Ops |-> Nothing]
    /\ fate' = [o \in Ops |-> TRUE]
    /\ UNCHANGED <<files, entry>>

Proceed(o) ==
    \/ \E done \in BOOLEAN :
          Get(o, done) \/ \E parsed \in BOOLEAN : Fetch(o, parsed, done)
    \/ Settle(o) \/ Hit(o) \/ FetchFails(o) \/ Answer(o) \/ AnswerRooms(o)

AssistantNext ==
    \/ \E o \in Ops :
          \/ Proceed(o) \/ AskInVain(o) \/ ListInVain(o)
          \/ \E q \in Queries : Ask(o, q)
          \/ \E done \in BOOLEAN : ListRooms(o, done)
    \/ \E k \in Keys : Expire(k)
    \/ ChangeFiles \/ Elapse \/ RestartServer

AssistantSpec == AssistantInit /\ [][AssistantNext]_assistantVars

\* The clock runs, Redis and OpenAI answer or fail what they are asked, and people
\* go on asking whenever there are files.
AssistantUsage ==
    /\ WF_assistantVars(Elapse)
    /\ \A o \in Ops :
          /\ WF_assistantVars(Proceed(o))
          /\ SF_assistantVars(\E q \in Queries : Ask(o, q))

AssistantUsedSpec == AssistantSpec /\ AssistantUsage

(***************************************************************************)
(* What is answered was said of the files that the request has read and to *)
(* its question, though the files change between the requests that fill and*)
(* use an entry.                                                           *)
(***************************************************************************)
AnswerFits ==
    \A o \in Ops :
        reply[o] # Nothing => reply[o].files = read[o] /\ reply[o].query = asked[o]

(***************************************************************************)
(* Every request is answered (or gone with the process), even if Redis     *)
(* fails all the time and the circuit opens again and again.               *)
(***************************************************************************)
Answered == \A o \in Ops : at[o] # "idle" ~> at[o] = "idle"

(***************************************************************************)
(* If there are files to ask about again and again, the circuit closes and *)
(* stays closed once Redis has recovered.                                  *)
(***************************************************************************)
RecoversInUse == []<>(files # Nothing) => Recovers
=============================================================================
