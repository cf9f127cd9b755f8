------------------------------ MODULE NetQuery ------------------------------
(***************************************************************************)
(* The search for servers (net_query.c): a list of targets, each queried   *)
(* until it answers or has been tried often enough, at most one query      *)
(* every 50 ms.  The master server's answer and a broadcast add targets    *)
(* while the search goes on.                                               *)
(*                                                                         *)
(* NET_Query_Poll reads the clock twice and then the socket, three steps   *)
(* here.  Time is counted in units of the 50 ms and only as far as the     *)
(* code compares it.                                                       *)
(***************************************************************************)
EXTENDS Integers, Sequences, FiniteSets

CONSTANTS Servers,              \* addresses of servers
          Master, Broadcast,    \* the other two addresses (Broadcast is NULL)
          Listed,               \* the servers the master server knows
          QUERY_TIMEOUT,        \* QUERY_TIMEOUT_SECS
          QUERY_MAX_ATTEMPTS,
          MaxLate               \* bound: timeouts between the readings of the clock

ASSUME QueryAssumption ==
  /\ QUERY_TIMEOUT \in Nat /\ QUERY_MAX_ATTEMPTS \in Nat \ {0} /\ MaxLate \in Nat
  /\ Listed \subseteq Servers /\ IsFiniteSet(Listed)
  /\ Master # Broadcast /\ {Master, Broadcast} \cap Servers = {}

VARIABLES search,     \* what is searched for, constant in a run
          targets,    \* sequence of [addr, state, attempts, age]
          since,      \* time since last_query_time
          poll,       \* the next step of NET_Query_Poll, or "done"
          running,    \* query_loop_running
          answers,    \* senders of the answers in flight
          called,     \* calls of the callback for a server, up to 2 (history)
          late        \* timeouts so far between the readings of the clock

queryVars == <<search, targets, since, poll, running, answers, called, late>>

Searches == {"LAN", "master", "address", "first on LAN"}
TargetStates == {"QUEUED", "QUERIED", "RESPONDED", "NO_RESPONSE"}

Waiting(t) == t.state = "QUERIED"
Expired(t) == Waiting(t) /\ t.age > QUERY_TIMEOUT
-----------------------------------------------------------------------------
HasTarget(ts, addr) == \E i \in DOMAIN ts : ts[i].addr = addr

(* GetTargetForAddr with create.  The query_time of a new target is not    *)
(* set; nothing compares it before the target is queried.                  *)
NewTarget(ts, addr) ==
  IF HasTarget(ts, addr) THEN ts
  ELSE Append(ts, [addr |-> addr, state |-> "QUEUED", attempts |-> 0, age |-> 0])

SetState(ts, addr, new) ==
  [i \in DOMAIN ts |-> IF ts[i].addr = addr THEN [ts[i] EXCEPT !.state = new] ELSE ts[i]]

(* CheckTargetTimeouts.  The first definition gives a target up at exactly *)
(* the last attempt, which the extra query of SendOneQuery goes past.      *)
ExactlyLast(t) ==
  IF Expired(t) /\ t.attempts = QUERY_MAX_ATTEMPTS
  THEN [t EXCEPT !.state = "NO_RESPONSE"] ELSE t

GivenUp(t) ==
  IF Expired(t) /\ t.attempts >= QUERY_MAX_ATTEMPTS
  THEN [t EXCEPT !.state = "NO_RESPONSE"] ELSE t

CheckTargetTimeouts ==
  /\ poll = "check"
  /\ targets' = [i \in DOMAIN targets |-> GivenUp(targets[i])]
  /\ poll' = "send"
  /\ UNCHANGED <<search, since, running, answers, called, late>>

(* SendOneQuery.  Whoever gets the query may answer it, or does not exist. *)
Eligible == {i \in DOMAIN targets : targets[i].state = "QUEUED" \/ Expired(targets[i])}

Answering(addr) == IF addr = Broadcast THEN Servers ELSE {addr}

More(n) == IF n > QUERY_MAX_ATTEMPTS THEN n ELSE n + 1

SendOneQuery ==
  /\ poll = "send"
  /\ poll' = "receive"
  /\ IF since < 1 \/ Eligible = {} THEN UNCHANGED <<targets, since, answers>>
     ELSE LET i == CHOOSE j \in Eligible : \A k \in Eligible : j <= k
          IN /\ targets' = [targets EXCEPT ![i] = [addr |-> @.addr, state |-> "QUERIED",
                                                  attempts |-> More(@.attempts), age |-> 0]]
             /\ since' = 0
             /\ \E A \in SUBSET Answering(targets[i].addr) : answers' = answers \cup A
  /\ UNCHANGED <<search, running, called, late>>

(* NET_Query_ParseMasterResponse: the servers of the list, in some order.  *)
WithListed(ts) ==
  LET new == {s \in Listed : ~HasTarget(ts, s)}
  IN {ts \o [i \in DOMAIN order |-> [addr |-> order[i], state |-> "QUEUED",
                                      attempts |-> 0, age |-> 0]] :
        order \in {f \in [1..Cardinality(new) -> new] : \A s \in new : \E i \in DOMAIN f : f[i] = s}}

ParseMasterResponse ==
  /\ targets' \in {SetState(ts, Master, "RESPONDED") : ts \in WithListed(targets)}
  /\ UNCHANGED <<running, called>>

(* NET_Query_ParseResponse.  An answer to the broadcast comes from a       *)
(* server that is no target yet, and is taken while the broadcast waits.   *)
FirstAnswer(ts, addr) ==
  \E i \in DOMAIN ts : ts[i].addr = addr /\ ts[i].state # "RESPONDED"

StopsAtFirst == search \in {"address", "first on LAN"}

ParseResponse(addr) ==
  LET waiting == \E i \in DOMAIN targets : targets[i].addr = Broadcast /\ Waiting(targets[i])
      known   == IF waiting THEN NewTarget(targets, addr) ELSE targets
  IN IF FirstAnswer(known, addr)
     THEN /\ targets' = SetState(known, addr, "RESPONDED")
          /\ called' = [called EXCEPT ![addr] = IF @ < 2 THEN @ + 1 ELSE @]
          /\ running' = ~StopsAtFirst
     ELSE UNCHANGED <<targets, called, running>>

AllTargetsDone(ts) == \A i \in DOMAIN ts : ts[i].state \in {"RESPONDED", "NO_RESPONSE"}

(* The rest of NET_Query_Poll and the loop around it.                      *)
GetResponse ==
  /\ poll = "receive"
  /\ \/ UNCHANGED <<targets, called, running, answers>>
     \/ \E addr \in answers :
          /\ answers' \in {answers, answers \ {addr}}
          /\ IF addr = Master /\ HasTarget(targets, Master)
             THEN ParseMasterResponse ELSE addr \in Servers /\ ParseResponse(addr)
  /\ poll' = IF running' /\ ~AllTargetsDone(targets') THEN "check" ELSE "done"
  /\ UNCHANGED <<search, since, late>>

Poll == CheckTargetTimeouts \/ SendOneQuery \/ GetResponse

(* Time passes.  A timeout that comes right after CheckTargetTimeouts has  *)
(* read the clock is seen by SendOneQuery first, which queries once more   *)
(* than QUERY_MAX_ATTEMPTS.                                                *)
Older(t) == [t EXCEPT !.age = IF @ > QUERY_TIMEOUT THEN @ ELSE @ + 1]

Tick ==
  /\ poll # "done"
  /\ targets' = [i \in DOMAIN targets |-> IF Waiting(targets[i]) THEN Older(targets[i])
                                          ELSE targets[i]]
  /\ since' = 1
  /\ late' = IF poll = "send" /\ targets' # targets THEN late + 1 ELSE late
  /\ late' <= MaxLate
  /\ UNCHANGED <<search, poll, running, answers, called>>
-----------------------------------------------------------------------------
(* The first target; answers of an earlier search may be on their way.     *)
Sought == IF search = "master" THEN {Master}
          ELSE IF search = "address" THEN Servers
          ELSE {Broadcast}

QueryInit ==
  /\ search \in Searches
  /\ \E addr \in Sought : targets = NewTarget(<<>>, addr)
  /\ since = 1 /\ poll = "check" /\ running = TRUE
  /\ answers \in SUBSET Servers
  /\ called = [s \in Servers |-> 0] /\ late = 0

QueryNext == Poll \/ Tick

QuerySpec == QueryInit /\ [][QueryNext]_queryVars
-----------------------------------------------------------------------------
QueryTypeOK ==
  /\ search \in Searches
  /\ \A i \in DOMAIN targets :
       targets[i] \in [addr : Servers \cup {Master, Broadcast}, state : TargetStates,
                       attempts : 0..(QUERY_MAX_ATTEMPTS + 1), age : 0..(QUERY_TIMEOUT + 1)]
  /\ since \in 0..1 /\ poll \in {"check", "send", "receive", "done"}
  /\ running \in BOOLEAN /\ answers \subseteq Servers \cup {Master}
  /\ called \in [Servers -> 0..2] /\ late \in 0..MaxLate

(* A server is one target and is reported once, however often it answers,  *)
(* to a query, to its repetition, to a broadcast or to an earlier search,  *)
(* and whether the master server lists it or not; it counts as found       *)
(* exactly when it was reported.                                           *)
OneAnswerEach ==
  /\ \A i, j \in DOMAIN targets : targets[i].addr = targets[j].addr => i = j
  /\ \A s \in Servers :
       called[s] = IF \E i \in DOMAIN targets :
                        targets[i].addr = s /\ targets[i].state = "RESPONDED"
                   THEN 1 ELSE 0

(* The loop polls, and the clock goes on between two polls (I_Sleep):      *)
(* strongly fair, for the loop leaves "check" before the clock has to move.*)
QueryFairness == WF_queryVars(Poll) /\ SF_queryVars(Tick /\ poll = "check")

(* A search ends, though queries are sent one at a time, to the first      *)
(* target first, and those that wait longest may be at the end of the list *)
(* (SendOneQuery, QUERY_MAX_ATTEMPTS).                                     *)
QueryEnds == poll = "send" ~> poll = "done"
=============================================================================
