------------------------------ MODULE SecDispatch ------------------------------
(***************************************************************************)
(* Starting requests to the SEC.  Server processes share one row of the    *)
(* database (sec_dispatch_control) and start a request only under its      *)
(* lease.  Inside a process createSecDispatchCoordinator lets one request  *)
(* at a time contend for the lease; the others queue.  Calls to the        *)
(* database may be lost, served late, or served without their reply being  *)
(* heard; requests may be aborted anywhere and processes killed.           *)
(*                                                                         *)
(* Deadlines are kept as the time that is left until them: Tick lets one   *)
(* unit pass in the database and in all processes, whose clocks only       *)
(* measure durations (performance.now).                                    *)
(***************************************************************************)
EXTENDS Integers, Sequences, FiniteSets

CONSTANTS
    Requests, Processes, ProcessOf,
    Uuids,        \* reservation ids: bound on those in use at once
    NoOwner,
    Spacing,      \* LOCAL_INTERVAL_MS, and the 143 ms of the release procedure
    Lease,        \* the 5 seconds of a grant
    Margin,       \* START_LOCK_SAFETY_MS
    GateWait,     \* MAX_GATE_WAIT_MS
    Handoff,      \* the ten minutes after the gate is armed
    MaxQueue,     \* MAX_LOCAL_GATE_QUEUE
    Cooldowns,    \* lengths of the cooldowns the SEC asks for
    MaxWire       \* bound: calls under way at once; any further call is lost

Life == Lease - Margin

ASSUME DispatchAssumption ==
    /\ Requests # {} /\ ProcessOf \in [Requests -> Processes]
    /\ NoOwner \notin Requests \X Uuids
    /\ Spacing \in Nat \ {0} /\ Lease \in Nat /\ GateWait \in Nat /\ Handoff \in Nat
    /\ Margin \in Nat /\ Spacing <= Margin /\ Margin < Lease
    /\ MaxQueue \in Nat /\ MaxWire \in Nat /\ Cooldowns \subseteq Nat \ {0}

VARIABLES
    armed,        \* the row: activated_at is set
    handoff,      \* what is left until handoff_until
    owner, lease, \* whose lease, and what is left of it; a lapsed one is nobody's
    next,         \* what is left until next_dispatch_at
    cooldown,     \* what is left until cooldown_until
    wire,         \* calls to the database under way
    req,          \* the requests
    queued,       \* each process's queue
    dispatching,  \* one of its requests has the turn
    since,        \* history: time since the last start, as far as Spacing
    age           \* history: how long the cooldown has been in force, as far as Life

rowVars == <<armed, handoff, owner, lease, next, cooldown>>
localVars == <<req, queued, dispatching>>
history == <<since, age>>
vars == <<rowVars, wire, localVars, history>>

Least(a, b) == IF a < b THEN a ELSE b
Most(a, b) == IF a > b THEN a ELSE b

Owners == Requests \X Uuids

\* With the turn: reserving, holding the permit, giving it back.
TurnPlaces == {"turn", "asking", "pausing", "granted", "holding", "closing", "releasing"}
Places == TurnPlaces \cup {"idle", "queued", "away", "publishing"}

Request == [at: Places, owner: Owners \cup {NoOwner},
            timer: Nat,   \* left of the usable time, of the pause or of the hold
            left: Nat,    \* left of the reservation's deadline
            reply: {"none", "granted", "busy", "cooling", "released"},
            cool: {0} \cup Cooldowns]
Idle == [at |-> "idle", owner |-> NoOwner, timer |-> 0, left |-> 0,
         reply |-> "none", cool |-> 0]
Queued == [Idle EXCEPT !.at = "queued"]

Call == [op: {"acquire", "release"}, owner: Owners, cool: {0} \cup Cooldowns]
        \cup [op: {"publish"}, owner: {NoOwner}, cool: Cooldowns]

TypeOK ==
    /\ armed \in BOOLEAN /\ handoff \in Nat
    /\ owner \in Owners \cup {NoOwner} /\ lease \in Nat
    /\ owner = NoOwner <=> lease = 0
    /\ next \in Nat /\ cooldown \in Nat
    /\ wire \subseteq Call
    /\ req \in [Requests -> Request]
    /\ queued \in [Processes -> Seq(Requests)]
    /\ dispatching \in [Processes -> BOOLEAN]
    /\ since \in 0 .. Spacing /\ age \in 0 .. Life

Init ==
    /\ armed = FALSE /\ handoff = 0
    /\ owner = NoOwner /\ lease = 0
    /\ next = 0 /\ cooldown = 0
    /\ wire = {}
    /\ req = [r \in Requests |-> Idle]
    /\ queued = [p \in Processes |-> <<>>]
    /\ dispatching = [p \in Processes |-> FALSE]
    /\ since = Spacing /\ age = 0

-------------------------------------------------------------------------------
(* Calls, and the procedures of the gate.                                    *)

\* A call is under way, until it is served, or never arrives.
Send(m) ==
    \/ Cardinality(wire) < MaxWire /\ wire' = wire \cup {m}
    \/ UNCHANGED wire

\* The reply reaches the request that still waits for it, or nobody.
Answer(m, place, answer) ==
    \/ UNCHANGED req
    \/ \E r \in Requests :
         /\ req[r].at = place /\ req[r].owner = m.owner
         /\ req' = [req EXCEPT ![r].reply = answer]

\* edgar_acquire_sec_dispatch.
Open == armed /\ handoff = 0 /\ cooldown = 0
Free == lease = 0 /\ next = 0

ServeAcquire(m) ==
    /\ m.op = "acquire"
    /\ \/ /\ Open /\ Free
          /\ owner' = m.owner /\ lease' = Lease
          /\ Answer(m, "asking", "granted")
       \/ /\ Open /\ ~Free
          /\ Answer(m, "asking", "busy")
          /\ UNCHANGED <<owner, lease>>
       \/ /\ ~Open
          /\ Answer(m, "asking", "cooling")
          /\ UNCHANGED <<owner, lease>>
    /\ wire' = wire \ {m}
    /\ UNCHANGED <<armed, handoff, next, cooldown, queued, dispatching, history>>

\* Mutant: a cooldown replaces the one in force.
LaterCooldown(c) == c

\* greatest(cooldown_until, ...): a cooldown is only ever extended.
Extended(c) == Most(cooldown, c)

\* Mutant: the owner leaves, its lease stays.
HalfFreed(m) ==
    /\ owner' = NoOwner /\ lease' = lease
    /\ next' = Most(next, Spacing)
    /\ cooldown' = Extended(m.cool)

\* The lease ends and the spacing starts.
Freed(m) ==
    /\ owner' = NoOwner /\ lease' = 0
    /\ next' = Most(next, Spacing)
    /\ cooldown' = Extended(m.cool)

\* edgar_release_sec_dispatch: only for the owner of the living lease.
ServeRelease(m) ==
    /\ m.op = "release"
    /\ \/ /\ owner = m.owner
          /\ Freed(m)
          /\ Answer(m, "releasing", "released")
       \/ /\ owner # m.owner
          /\ UNCHANGED <<owner, lease, next, cooldown, req>>
    /\ wire' = wire \ {m}
    /\ UNCHANGED <<armed, handoff, queued, dispatching, history>>

\* edgar_publish_sec_cooldown: from anyone, at any time.
ServePublish(m) ==
    /\ m.op = "publish"
    /\ cooldown' = Extended(m.cool)
    /\ wire' = wire \ {m}
    /\ UNCHANGED <<armed, handoff, owner, lease, next, localVars, history>>

Serve == \E m \in wire : ServeAcquire(m) \/ ServeRelease(m) \/ ServePublish(m)

\* The owner of the database opens the gate; old processes get the handoff to end.
Arm ==
    /\ ~armed
    /\ armed' = TRUE /\ handoff' = Handoff
    /\ UNCHANGED <<owner, lease, next, cooldown, wire, localVars, history>>

-------------------------------------------------------------------------------
(* The turn of a process.                                                    *)

\* localTurn: refused when the queue is full; an idle process lets its first
\* request start at once (advanceQueue).
EnterQueue(r) ==
    LET p == ProcessOf[r]
        line == Append(queued[p], r)
    IN  /\ req[r].at = "idle"
        /\ Len(queued[p]) < MaxQueue
        /\ IF dispatching[p]
             THEN /\ queued' = [queued EXCEPT ![p] = line]
                  /\ req' = [req EXCEPT ![r] = Queued]
                  /\ UNCHANGED dispatching
             ELSE /\ queued' = [queued EXCEPT ![p] = Tail(line)]
                  /\ req' = [req EXCEPT ![r] = Queued, ![Head(line)].at = "turn"]
                  /\ dispatching' = [dispatching EXCEPT ![p] = TRUE]
        /\ UNCHANGED <<rowVars, wire, history>>

\* Aborted, or after MAX_LOCAL_GATE_WAIT_MS.
LeaveQueue(r) ==
    LET line == queued[ProcessOf[r]]
    IN  /\ req[r].at = "queued"
        /\ \E i \in DOMAIN line :
             /\ line[i] = r
             /\ queued' = [queued EXCEPT ![ProcessOf[r]] =
                              SubSeq(line, 1, i - 1) \o SubSeq(line, i + 1, Len(line))]
        /\ req' = [req EXCEPT ![r] = Idle]
        /\ UNCHANGED <<rowVars, wire, dispatching, history>>

\* Mutant: the turn is given back without waking the next in line.
EndTurnQuietly(r, after) ==
    /\ req' = [req EXCEPT ![r] = after]
    /\ dispatching' = [dispatching EXCEPT ![ProcessOf[r]] = FALSE]
    /\ UNCHANGED queued

\* releaseTurn: the request goes on without the turn, which passes to the next.
EndTurn(r, after) ==
    LET p == ProcessOf[r] IN
    \/ /\ queued[p] = <<>>
       /\ req' = [req EXCEPT ![r] = after]
       /\ dispatching' = [dispatching EXCEPT ![p] = FALSE]
       /\ UNCHANGED queued
    \/ /\ queued[p] # <<>>
       /\ req' = [req EXCEPT ![r] = after, ![Head(queued[p])].at = "turn"]
       /\ queued' = [queued EXCEPT ![p] = Tail(queued[p])]
       /\ UNCHANGED dispatching

-------------------------------------------------------------------------------
(* reserve: one fresh id, asked for until the deadline.                      *)

InUse(o) ==
    \/ o = owner
    \/ \E m \in wire : m.owner = o
    \/ \E r \in Requests : req[r].owner = o

\* A fresh id; the ids are interchangeable.
Unused(r) == {o \in Owners : o[1] = r /\ ~InUse(o)}
Fresh(r) == CHOOSE o \in Unused(r) : TRUE

Asking(r, o, left) == [req[r] EXCEPT !.at = "asking", !.owner = o, !.timer = Life,
                                     !.left = left, !.reply = "none"]
Acquire(o) == [op |-> "acquire", owner |-> o, cool |-> 0]
Release(o, c) == [op |-> "release", owner |-> o, cool |-> c]

\* The usable time is measured from before the call.
Ask(r) ==
    /\ \/ /\ req[r].at = "turn" /\ Unused(r) # {}
          /\ Send(Acquire(Fresh(r)))
          /\ req' = [req EXCEPT ![r] = Asking(r, Fresh(r), GateWait)]
       \/ /\ req[r].at = "pausing" /\ req[r].timer = 0 /\ req[r].left > 0
          /\ Send(Acquire(req[r].owner))
          /\ req' = [req EXCEPT ![r] = Asking(r, req[r].owner, req[r].left)]
    /\ UNCHANGED <<rowVars, queued, dispatching, history>>

\* Mutant: the usable time is measured from the reply.
TakeWholePermit(r) ==
    /\ req[r].at = "asking" /\ req[r].reply = "granted"
    /\ req' = [req EXCEPT ![r].at = "granted", ![r].reply = "none", ![r].left = 0,
                          ![r].timer = Life]
    /\ UNCHANGED <<rowVars, wire, queued, dispatching, history>>

\* The permit is heard in time.
TakePermit(r) ==
    /\ req[r].at = "asking" /\ req[r].reply = "granted" /\ req[r].timer > 0
    /\ req' = [req EXCEPT ![r].at = "granted", ![r].reply = "none", ![r].left = 0]
    /\ UNCHANGED <<rowVars, wire, queued, dispatching, history>>

\* The gate is busy: wait as long as it says, at most the spacing, if the
\* deadline leaves the time.
Pause(r) ==
    /\ req[r].at = "asking" /\ req[r].reply = "busy"
    /\ \E w \in 1 .. Spacing :
         \/ /\ w <= req[r].left
            /\ req' = [req EXCEPT ![r].at = "pausing", ![r].timer = w, ![r].reply = "none"]
            /\ UNCHANGED <<queued, dispatching>>
         \/ w > req[r].left /\ EndTurn(r, Idle)
    /\ UNCHANGED <<rowVars, wire, history>>

\* Aborted, a cooldown, or the deadline has passed between two calls: nothing
\* was granted.
GiveUp(r) ==
    /\ \/ req[r].at = "turn"
       \/ req[r].at = "pausing"
       \/ req[r].at = "asking" /\ req[r].reply = "cooling"
    /\ EndTurn(r, Idle)
    /\ UNCHANGED <<rowVars, wire, history>>

\* safeRelease without a cooldown, by the request's own id.
Close(r) ==
    /\ Send(Release(req[r].owner, 0))
    /\ req' = [req EXCEPT ![r] = [Idle EXCEPT !.at = "closing"]]

\* releaseUncertainReservation: the call failed, timed out or was aborted, its
\* reply came too late or makes no sense; the database may have granted it.
Uncertain(r) ==
    /\ req[r].at = "asking" /\ req[r].reply \in {"none", "granted"}
    /\ Close(r)
    /\ UNCHANGED <<rowVars, queued, dispatching, history>>

\* The permit is not used: aborted, expired, the task's allowance is spent
\* (takeSecRequestBudget), or fetch throws.
Discard(r) ==
    /\ req[r].at = "granted"
    /\ Close(r)
    /\ UNCHANGED <<rowVars, queued, dispatching, history>>

\* That release was answered, failed or took too long.
CloseEnds(r) ==
    /\ req[r].at = "closing"
    /\ EndTurn(r, Idle)
    /\ UNCHANGED <<rowVars, wire, history>>

-------------------------------------------------------------------------------
(* paced: start, hold, release, and the cooldowns that answers ask for.      *)

\* Mutant: the permit is checked when it is taken, not when it is used.
AnyPermit(r) == req[r].at = "granted"

\* The check and the start are one step: nothing is awaited in between.
Usable(r) == req[r].at = "granted" /\ req[r].timer > 0

Dispatch(r) ==
    /\ Usable(r)
    /\ req' = [req EXCEPT ![r].at = "holding", ![r].timer = Spacing]
    /\ since' = 0
    /\ UNCHANGED <<rowVars, wire, queued, dispatching, age>>

\* After the hold, with the cooldown of an answer that is already there.
HoldEnds(r) ==
    /\ req[r].at = "holding" /\ req[r].timer = 0
    /\ \E c \in {0} \cup Cooldowns :
         /\ Send(Release(req[r].owner, c))
         /\ req' = [req EXCEPT ![r].at = "releasing", ![r].cool = c]
    /\ UNCHANGED <<rowVars, queued, dispatching, history>>

\* Mutant: the release is awaited until it succeeds.
ReleaseHeard(r) ==
    /\ req[r].at = "releasing" /\ req[r].reply = "released"
    /\ EndTurn(r, [Idle EXCEPT !.at = "away"])
    /\ UNCHANGED <<rowVars, wire, history>>

\* A failed release is swallowed: the lease lapses by itself.  A cooldown that
\* was heard to be recorded is not published again.
ReleaseEnds(r) ==
    /\ req[r].at = "releasing"
    /\ EndTurn(r, IF req[r].cool > 0 /\ req[r].reply = "released" THEN Idle
                  ELSE [Idle EXCEPT !.at = "away", !.cool = req[r].cool])
    /\ UNCHANGED <<rowVars, wire, history>>

\* requestOnce: the answer, or the failure of the fetch; publishResponseCooldown.
Respond(r) ==
    /\ req[r].at = "away"
    /\ \E c \in {0} \cup Cooldowns :
         /\ req[r].cool > 0 => c = req[r].cool
         /\ \/ /\ c = 0
               /\ req' = [req EXCEPT ![r] = Idle]
               /\ UNCHANGED wire
            \/ /\ c > 0
               /\ Send([op |-> "publish", owner |-> NoOwner, cool |-> c])
               /\ req' = [req EXCEPT ![r] = [Idle EXCEPT !.at = "publishing"]]
    /\ UNCHANGED <<rowVars, queued, dispatching, history>>

\* Whether the cooldown was recorded is ignored.
PublishEnds(r) ==
    /\ req[r].at = "publishing"
    /\ req' = [req EXCEPT ![r] = Idle]
    /\ UNCHANGED <<rowVars, wire, queued, dispatching, history>>

-------------------------------------------------------------------------------
(* Time, crashes, and everything together.                                   *)

Down(n) == Most(n - 1, 0)

Tick ==
    /\ handoff' = Down(handoff)
    /\ lease' = Down(lease) /\ owner' = IF lease <= 1 THEN NoOwner ELSE owner
    /\ next' = Down(next) /\ cooldown' = Down(cooldown)
    /\ req' = [r \in Requests |-> [req[r] EXCEPT !.timer = Down(@), !.left = Down(@)]]
    /\ since' = Least(since + 1, Spacing)
    /\ age' = IF cooldown <= 1 THEN 0 ELSE Least(age + 1, Life)
    /\ UNCHANGED <<armed, wire, queued, dispatching>>

\* The platform ends a process; what it sent may still arrive.
Kill(p) ==
    /\ req' = [r \in Requests |-> IF ProcessOf[r] = p THEN Idle ELSE req[r]]
    /\ queued' = [queued EXCEPT ![p] = <<>>]
    /\ dispatching' = [dispatching EXCEPT ![p] = FALSE]
    /\ UNCHANGED <<rowVars, wire, history>>

\* What the code does next for a request that has begun.
Step(r) ==
    \/ Ask(r) \/ TakePermit(r) \/ Pause(r) \/ GiveUp(r) \/ Uncertain(r) \/ Discard(r)
    \/ CloseEnds(r) \/ Dispatch(r) \/ HoldEnds(r) \/ ReleaseEnds(r)
    \/ Respond(r) \/ PublishEnds(r)

Next ==
    \/ \E r \in Requests : EnterQueue(r) \/ LeaveQueue(r) \/ Step(r)
    \/ Serve \/ Arm \/ Tick
    \/ \E p \in Processes : Kill(p)

Spec == Init /\ [][Next]_vars

\* Timers fire and replies, failures or timeouts come for whatever is awaited;
\* nothing is assumed of the database, of the 8 seconds in the queue, or that a
\* process lives on.
Fairness == WF_vars(Tick) /\ \A r \in Requests : WF_vars(Step(r))
FairSpec == Spec /\ Fairness

-------------------------------------------------------------------------------
(* What the coordinator promises.                                            *)

Permitted(r) ==
    /\ \/ req[r].at = "granted"
       \/ req[r].at = "asking" /\ req[r].reply = "granted"
    /\ req[r].timer > 0

\* Whoever may still start a request has the living lease of the armed gate,
\* and it outlives the permit by the margin: so no two requests, of whatever
\* processes, may start at the same time, however late replies and timers are.
PermitBacked ==
    \A r \in Requests : Permitted(r) =>
        /\ armed /\ handoff = 0
        /\ owner = req[r].owner
        /\ lease >= req[r].timer + Margin

InTurn(p) == {r \in Requests : ProcessOf[r] = p /\ req[r].at \in TurnPlaces}
InQueue(p) == {r \in Requests : ProcessOf[r] = p /\ req[r].at = "queued"}

\* Every path out of the turn, with its failures, passes it on exactly once:
\* one request of a process has it or nobody waits, and the queue holds the
\* waiting requests, each once.
TurnPassedOn ==
    \A p \in Processes :
        /\ Cardinality(InTurn(p)) = IF dispatching[p] THEN 1 ELSE 0
        /\ ~dispatching[p] => queued[p] = <<>>
        /\ InQueue(p) = {queued[p][i] : i \in DOMAIN queued[p]}
        /\ Cardinality(InQueue(p)) = Len(queued[p])

Limiter == INSTANCE StartLimiter

\* Whatever is lost, late or killed, the processes together keep the spacing of
\* the starts, never shorten a cooldown, and start nothing while a cooldown has
\* been in force for the life of a permit.
KeepsLimit == Limiter!Spec

\* A request that has begun ends, even if nobody's timer in the queue fires.
EveryRequestEnds == \A r \in Requests : req[r].at # "idle" ~> req[r].at = "idle"
=============================================================================
