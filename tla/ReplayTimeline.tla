---------------------------- MODULE ReplayTimeline ----------------------------
(***************************************************************************)
(* replay_timeline.rs: reverse execution.  A timeline holds one current    *)
(* replay session, marks (known program states) ordered by running the     *)
(* session, and checkpoints (cloned sessions) at some marks.  Going        *)
(* backwards means restoring a checkpoint and running forwards again up to *)
(* a mark while watching for stops.                                        *)
(*                                                                         *)
(* A recording is a sequence of points, the states a session single-stepped *)
(* through it passes: thread t, frame time, ticks of the thread, k = 1     *)
(* while a trace step is under way, registers (ip, x); `w': executing into *)
(* the point writes the watched location; `sig': the frame that ends there *)
(* delivers a signal; `str': ip is at a string instruction.  A session is  *)
(* the point it is at and the breakpoints and watchpoints applied to it;   *)
(* what it does in one replay step is ReplaySession's subject and given    *)
(* here by Advance.  Every state has its own registers within its MarkKey, *)
(* so a mark is named by its point.                                        *)
(***************************************************************************)
EXTENDS Integers, Sequences, FiniteSets, SequencesExt, FiniteSetsExt

CONSTANTS Recordings, SkidSize, StopCountLimit, LowOverhead, ShortReverse,
          MaxOps, MaxInterrupts

VARIABLES rec, tl, op, client

vars == <<rec, tl, op, client>>

Pts == rec.points
N == Len(Pts)
Pt(p) == Pts[p]
Key(p) == <<Pt(p).time, Pt(p).ticks, Pt(p).k>>
Regs(p) == <<Pt(p).ip, Pt(p).x>>
Ips == {Pts[i].ip : i \in 1 .. N}
Keys == {Key(i) : i \in 1 .. N}

KeyLess(a, b) ==
    \/ a[1] < b[1]
    \/ a[1] = b[1] /\ a[2] < b[2]
    \/ a[1] = b[1] /\ a[2] = b[2] /\ a[3] < b[3]

NoBps == [ip \in Ips |-> 0]
Fresh(p) == [at |-> p, bps |-> NoBps, w |-> FALSE]
NoSession == [at |-> 0, bps |-> NoBps, w |-> FALSE]

-----------------------------------------------------------------------------
(* ReplaySession::replay_step as the timeline uses it: external here.      *)
Result(s, q, t) ==
    [s |-> [s EXCEPT !.at = q], t |-> t, bp |-> FALSE, w |-> FALSE, sig |-> FALSE,
     single |-> FALSE, appr |-> FALSE, ff |-> FALSE]

LastOfFrame(q) == q < N /\ Pt(q + 1).time # Pt(q).time

Traps(s, q) == s.bps[Pt(q).ip] > 0

StopsAt(s, q, r) ==
    [r EXCEPT !.s.at = q, !.bp = s.bps[Pt(q).ip] > 0]

Completes(s, q, cmd, r) ==
    [r EXCEPT !.s.at = q + 1, !.sig = Pt(q + 1).sig, !.w = s.w /\ Pt(q + 1).w,
              !.single = cmd # "cont" /\ Pt(q + 1).sig]

(* Where a watchpoint hit at q is reported: late inside string loops.      *)
Reported(q) ==
    Max({q} \cup {e \in q .. N : Pt(q).str /\ Pt(e).time = Pt(q).time
                                   /\ \A i \in q .. e - 1 : Pt(i).str /\ Pt(i).ip = Pt(q).ip})

FrameEnd(p) == CHOOSE e \in p .. N : (LastOfFrame(e) \/ e = N) /\ Pt(e).time = Pt(p).time

Arrives(s, p, last, q) == Traps(s, q) /\ (q < last \/ q > p)
Writes(s, p, q) == q > p /\ s.w /\ Pt(q).w

RunStops(s, p, last, target) ==
    {q \in p .. last : \/ Arrives(s, p, last, q)
                       \/ Writes(s, p, q)
                       \/ target > 0 /\ Pt(last).ticks > target /\ target - Pt(q).ticks <= SkidSize}

RunTo(s, p, last, q) ==
    IF Writes(s, p, q) THEN [Result(s, Reported(q), Pt(p).t) EXCEPT !.w = TRUE]
    ELSE IF Arrives(s, p, last, q) THEN StopsAt(s, q, Result(s, q, Pt(p).t))
    ELSE Result(s, q, Pt(p).t)

RunFrame(s, p, last, stops) ==
    IF stops = {} THEN Completes(s, last, "cont", Result(s, p, Pt(p).t))
    ELSE RunTo(s, p, last, Min(stops))

Runs(s, p, target) == RunFrame(s, p, FrameEnd(p), RunStops(s, p, FrameEnd(p), target))

(* How far fast-forwarding gets in a string instruction.                   *)
Repeats(q) == q < N /\ Pt(q).str /\ Pt(q + 1).ip = Pt(q).ip /\ ~LastOfFrame(q)
Quiet(s, q, states) == Regs(q) \notin states /\ ~(s.w /\ Pt(q).w)
FastForwarded(s, p, states) ==
    Max({p + 1} \cup {q \in p + 1 .. N - 1 :
                        \A i \in p + 1 .. q : Repeats(i) /\ (i > p + 1 => Quiet(s, i, states))})

Steps(s, p, cmd, states, r) ==
    IF LastOfFrame(p) THEN Completes(s, p, cmd, r)
    ELSE IF Traps(s, p) THEN [StopsAt(s, p, r) EXCEPT !.single = TRUE]
    ELSE IF cmd = "ff" /\ Repeats(p) /\ Repeats(p + 1) /\ Quiet(s, p + 1, states)
    THEN [r EXCEPT !.s.at = FastForwarded(s, p, states), !.single = TRUE,
                   !.ff = FastForwarded(s, p, states) > p + 1]
    ELSE [r EXCEPT !.s.at = p + 1, !.single = TRUE, !.w = s.w /\ Pt(p + 1).w]

TaskAt(t, q) == Pt(Max({i \in 1 .. q : Pt(i).t = t}))
TicksOf(t, q) == TaskAt(t, q).ticks

Approaching(r, target) ==
    [r EXCEPT !.appr = r.t # 0 /\ target > 0 /\ target - TicksOf(r.t, r.s.at) <= SkidSize]

Advance(s, cmd, target, states) ==
    Approaching(IF s.at = N THEN Result(s, s.at, 0)
                ELSE IF Pt(s.at).k = 0 THEN Result(s, s.at + 1, 0)
                ELSE IF cmd = "cont" THEN Runs(s, s.at, target)
                ELSE IF target > 0 /\ target - Pt(s.at).ticks <= SkidSize
                THEN Result(s, s.at, Pt(s.at).t)
                ELSE Steps(s, s.at, cmd, states, Result(s, s.at, Pt(s.at).t)),
                target)

breakpoint_hit(r) == r.bp

any_break(r) == r.w \/ r.sig \/ r.bp \/ r.single \/ r.appr

-----------------------------------------------------------------------------
(* Breakpoints, and a watchpoint on one data location; hardware            *)
(* breakpoints (watchpoints of type exec) are left out.                    *)
apply_breakpoints_internal(v) ==
    [v EXCEPT !.cur.bps = [ip \in Ips |-> @[ip] + IF ip \in v.breakpoints THEN 1 ELSE 0]]

apply_breakpoints_and_watchpoints(v) ==
    IF v.applied THEN v
    ELSE [apply_breakpoints_internal(v) EXCEPT !.applied = TRUE, !.cur.w = v.watch]

unapply_breakpoints_internal(v) ==
    [v EXCEPT !.cur.bps = [ip \in Ips |-> @[ip] - IF ip \in v.breakpoints THEN 1 ELSE 0]]

unapply_breakpoints_and_watchpoints(v) ==
    IF ~v.applied THEN v
    ELSE [unapply_breakpoints_internal(v) EXCEPT !.applied = FALSE, !.cur.w = FALSE]

(* A breakpoint whose condition does not hold at the point is no stop.     *)
evaluate_conditions(r) ==
    IF r.t # 0 /\ r.bp /\ r.s.at \in rec.conditionFalse THEN [r EXCEPT !.bp = FALSE] ELSE r

-----------------------------------------------------------------------------
(* Marks.                                                                  *)
current_mark(v) ==
    LET same == {i \in DOMAIN v.marks[Key(v.cur.at)] :
                     Regs(v.marks[Key(v.cur.at)][i]) = Regs(v.cur.at)}
    IN IF same = {} THEN 0 ELSE v.marks[Key(v.cur.at)][Min(same)]

at_mark(v, m) == current_mark(v) = m

MarkLess(v, m1, m2) ==
    \/ KeyLess(Key(m1), Key(m2))
    \/ /\ Key(m1) = Key(m2) /\ m1 # m2
       /\ LET s == v.marks[Key(m1)] IN
          Min({i \in DOMAIN s : s[i] = m1} \cup {Len(s) + 1})
            < Min({i \in DOMAIN s : s[i] = m2} \cup {Len(s) + 1})

(* mark(): single-steps a clone from p until a known state of the same key *)
(* is met, collecting the states on the way.                               *)
StepsToNext(q, r) == IF ~r.ff /\ ~r.sig THEN {q} ELSE {}

WalkOn(p, q, known, r, same, rest) ==
    IF Key(r.s.at) # Key(p) \/ r.s.at = q
    THEN [fresh |-> <<>>, index |-> Len(known) + 1, one |-> {}]
    ELSE IF same # {}
    THEN [fresh |-> <<>>, index |-> Min(same), one |-> StepsToNext(q, r)]
    ELSE [fresh |-> <<r.s.at>> \o rest.fresh, index |-> rest.index,
          one |-> StepsToNext(q, r) \cup rest.one]

MarkWalk(p, known) ==
    LET walk[q \in p .. N] ==
            LET on(r) == WalkOn(p, q, known, r, {i \in DOMAIN known : Regs(known[i]) = Regs(r.s.at)},
                                walk[r.s.at])
            IN on(Advance(Fresh(q), "ff", 0, {Regs(m) : m \in Range(known)}))
    IN walk[p]

Inserted(v, s, f) ==
    [v EXCEPT !.marks[Key(v.cur.at)] = SubSeq(s, 1, f.index - 1) \o <<v.cur.at>> \o f.fresh
                                          \o SubSeq(s, f.index, Len(s)),
              !.after = v.cur.at, !.one = @ \cup f.one]

mark_Appends(v) ==
    IF current_mark(v) # 0 THEN v
    ELSE [v EXCEPT !.marks[Key(v.cur.at)] = Append(@, v.cur.at), !.after = v.cur.at]

mark(v) ==
    LET s == v.marks[Key(v.cur.at)] IN
    IF current_mark(v) # 0 THEN v
    ELSE IF s = <<>> \/ v.after = s[Len(s)]
    THEN [v EXCEPT !.marks[Key(v.cur.at)] = Append(@, v.cur.at), !.after = v.cur.at]
    ELSE Inserted(unapply_breakpoints_and_watchpoints(v), s, MarkWalk(v.cur.at, s))

(* mark_after_singlestep: `from' is one step before the current point.     *)
Follows(s, from, next) == \E i \in 1 .. Len(s) - 1 : s[i] = from /\ s[i + 1] = next

SteppedOnto(v, from, r) ==
    IF ~r.ff /\ Key(v.cur.at) = Key(from) /\ ~r.sig
    THEN [v EXCEPT !.one = @ \cup {from},
                   !.failed = @ \/ ~Follows(v.marks[Key(from)], from, v.cur.at)]
    ELSE v

mark_after_singlestep(v, from, r) == SteppedOnto(mark(v), from, r)

find_singlestep_before(v, m) ==
    LET s == v.marks[Key(m)]
        i == Max({0} \cup {j \in DOMAIN s : s[j] = m})
    IN IF i < 2 THEN 0 ELSE IF s[i - 1] \in v.one THEN s[i - 1] ELSE 0

lazy_reverse_singlestep(v, from) ==
    LET m == find_singlestep_before(v, from) IN
    IF /\ v.quietFrom # 0 /\ v.quietTo # 0 /\ m # 0
       /\ ~MarkLess(v, m, v.quietFrom) /\ MarkLess(v, m, v.quietTo)
       /\ Pt(from).ip \notin v.breakpoints
    THEN m ELSE 0

-----------------------------------------------------------------------------
(* Checkpoints.                                                            *)
can_add_checkpoint(v) == v.cur.at \notin rec.cannotClone

WithClone(v) ==
    [v EXCEPT !.cp[v.cur.at] = v.cur, !.with[Key(v.cur.at)] = @ + 1, !.refs[v.cur.at] = @ + 1]

Referenced(v) ==
    IF v.cp[v.cur.at].at # 0 THEN [v EXCEPT !.refs[v.cur.at] = @ + 1]
    ELSE WithClone(unapply_breakpoints_and_watchpoints(v))

add_explicit_checkpoint(v) == Referenced(mark(v))

remove_mark_with_checkpoint(v, key) ==
    [v EXCEPT !.with[key] = @ - 1, !.failed = @ \/ v.with[key] = 0]

remove_explicit_checkpoint(v, m) ==
    IF v.refs[m] # 1 THEN [v EXCEPT !.refs[m] = @ - 1, !.failed = @ \/ v.refs[m] = 0]
    ELSE remove_mark_with_checkpoint([v EXCEPT !.refs[m] = 0, !.cp[m] = NoSession], Key(m))

(* The new short checkpoint is not remembered.                             *)
WithoutShort(v) ==
    IF v.short = 0 THEN v ELSE remove_explicit_checkpoint([v EXCEPT !.short = 0], v.short)

set_short_checkpoint(v) ==
    IF can_add_checkpoint(v) THEN WithoutShort(add_explicit_checkpoint(v)) ELSE mark(v)

estimate_progress(v) == v.cur.at

inter_checkpoint_interval(strategy) == IF strategy = "low" THEN LowOverhead ELSE ShortReverse

next_interval_length(len) == IF len >= LowOverhead THEN 2 * len ELSE len + ShortReverse

Forget(v, m) == [v EXCEPT !.rev = [q \in DOMAIN @ \ {m} |-> @[q]]]

discard(v, m) == Forget(remove_explicit_checkpoint(v, m), m)

(* discard_future_reverse_exec_checkpoints                                 *)
discard_future(v) ==
    LET late == {m \in DOMAIN v.rev : v.rev[m] > estimate_progress(v)}
    IN FoldSet(LAMBDA m, u : discard(u, m), v, late)

(* discard_past_reverse_exec_checkpoints: the marks to delete.  `left' are *)
(* the checkpoints, latest last; counting those in the interval consumes   *)
(* the first one outside of it as well.                                    *)
Interval(k, interval) ==
    LET l[i \in 0 .. k] == IF i = 0 THEN interval ELSE next_interval_length(l[i - 1]) IN l[k]

ExcessCheckpoints(left, progress, now, interval) ==
    LET within(k, j) == Cardinality({i \in 1 .. j : progress[left[i]] >= now - Interval(k, interval)})
        \* interval k, n checkpoints kept so far, the first j still to look at
        pick[k \in Nat, n \in Nat, j \in Nat] ==
            LET of(inn, over) ==
                    {left[i] : i \in (j - over + 1) .. j}
                      \cup IF j - inn - 1 <= 0 \/ k = Len(left) THEN {}
                           ELSE pick[k + 1, n + inn - over, j - inn - 1]
            IN of(within(k, j), Max({0, n + within(k, j) - k}))
    IN IF left = <<>> THEN {} ELSE pick[0, 0, Len(left)]

InOrder(v, ms) ==
    [i \in 1 .. Cardinality(ms) |->
        CHOOSE m \in ms : Cardinality({o \in ms : MarkLess(v, o, m)}) = i - 1]

discard_past(v, strategy) ==
    FoldSet(LAMBDA m, u : discard(u, m), v,
            ExcessCheckpoints(InOrder(v, DOMAIN v.rev), v.rev, estimate_progress(v),
                              inter_checkpoint_interval(strategy)))

Latest(v, ms) == {m \in ms : \A o \in ms : o = m \/ MarkLess(v, o, m)}

CloseToOne(v, strategy) ==
    \E m \in Latest(v, DOMAIN v.rev) :
        v.rev[m] >= estimate_progress(v) - inter_checkpoint_interval(strategy)

AsReverseExec(v) ==
    [v EXCEPT !.rev = [q \in DOMAIN @ \cup {v.cur.at} |->
                          IF q = v.cur.at THEN estimate_progress(v) ELSE @[q]]]

Spaced(v, strategy) ==
    IF CloseToOne(v, strategy) \/ ~can_add_checkpoint(v) THEN v
    ELSE AsReverseExec(add_explicit_checkpoint(discard_past(v, strategy)))

maybe_add_reverse_exec_checkpoint(v, strategy) == Spaced(discard_future(v), strategy)

-----------------------------------------------------------------------------
(* Seeking.                                                                *)
Restored(v, m) == [v EXCEPT !.cur = v.cp[m], !.applied = FALSE, !.after = m]

Restarted(v) == [v EXCEPT !.cur = Fresh(1), !.applied = FALSE, !.after = 0]

(* The first mark with a checkpoint among those of the latest key in back. *)
CheckpointOf(v, back) ==
    LET it == CHOOSE k \in back : \A o \in back : o = k \/ KeyLess(o, k)
        ms == {i \in DOMAIN v.marks[it] : v.cp[v.marks[it][i]].at # 0}
    IN IF ms = {} THEN [v EXCEPT !.failed = TRUE] ELSE Restored(v, v.marks[it][Min(ms)])

SeekAmong(v, back, key) ==
    IF back = {} THEN IF KeyLess(Key(v.cur.at), key) THEN v ELSE Restarted(v)
    ELSE IF (\A k \in back : KeyLess(k, Key(v.cur.at))) /\ KeyLess(Key(v.cur.at), key) THEN v
    ELSE CheckpointOf(v, back)

seek_to_before_key_AtKey(v, key) ==
    SeekAmong(v, {k \in Keys : v.with[k] > 0 /\ (KeyLess(k, key) \/ k = key)}, key)

seek_to_before_key(v, key) ==
    SeekAmong(v, {k \in Keys : v.with[k] > 0 /\ KeyLess(k, key)}, key)

(* The marks with checkpoints at or before m in the vector of its key.     *)
CheckpointsUpTo(v, s, m) ==
    {i \in 1 .. Max({0} \cup {j \in DOMAIN s : s[j] = m}) : v.cp[s[i]].at # 0}

SeekWithin(v, s, m, have) ==
    IF Key(v.cur.at) = Key(m) /\ ~MarkLess(v, m, v.cur.at) THEN v
    ELSE IF have # {} THEN Restored(v, s[Max(have)])
    ELSE seek_to_before_key(v, Key(m))

SeekBack(v, m) ==
    SeekWithin(v, v.marks[Key(m)], m, CheckpointsUpTo(v, v.marks[Key(m)], m))

seek_up_to_mark(v, m) == SeekBack(IF Key(v.cur.at) = Key(m) THEN mark(v) ELSE v, m)

(* seek_to_proto_mark: forwards to the registers of `before'.              *)
TowardsProto(q, before) ==
    Advance(IF Pt(q).time = Pt(before).time /\ Pt(q).ip # Pt(before).ip
            THEN [Fresh(q) EXCEPT !.bps[Pt(before).ip] = 1] ELSE Fresh(q),
            IF Pt(q).time = Pt(before).time /\ Pt(q).ip = Pt(before).ip /\ Pt(q).k = 1
            THEN "ff" ELSE "cont", 0, {Regs(before)})

ProtoReached(q, before) ==
    LET go[i \in 1 .. N] ==
            LET on(next) == IF next <= i THEN i ELSE go[next]
            IN IF i = before THEN i ELSE on(TowardsProto(i, before).s.at)
    IN go[q]

AtProto(v, q, before) == [v EXCEPT !.cur.at = q, !.failed = @ \/ q # before]

FromBefore(v, before) == AtProto(v, ProtoReached(v.cur.at, before), before)

seek_to_proto_mark(v, before) ==
    FromBefore(unapply_breakpoints_and_watchpoints(seek_to_before_key(v, Key(before))), before)

(* fix_watchpoint_coalescing_quirk: back to `before', then singlestep once *)
(* the ticks of the hit are close.                                         *)
MayBeString(q) == Pt(q).str \/ (q > 1 /\ Pt(q - 1).str)

HitAgain(cur, t, ticks) ==
    LET go[c \in [n : Nat, q : 1 .. N, near : BOOLEAN]] ==
            LET on(r) == IF c.n = 0 \/ TicksOf(t, r.s.at) > ticks THEN [ok |-> FALSE, r |-> r]
                         ELSE IF c.near /\ r.w THEN [ok |-> TRUE, r |-> r]
                         ELSE go[[n |-> c.n - 1, q |-> r.s.at, near |-> c.near \/ r.appr]]
            IN on(Advance([cur EXCEPT !.at = c.q], IF c.near THEN "ff" ELSE "cont",
                          IF c.near THEN 0 ELSE Max({0, ticks - 1}), {}))
    IN go[[n |-> 2 * N, q |-> cur.at, near |-> FALSE]]

Rerun(v, f) == [v |-> [v EXCEPT !.cur = f.r.s, !.failed = @ \/ ~f.ok], r |-> f.r, fixed |-> TRUE]

RunAgain(v, r) == Rerun(v, HitAgain(v.cur, r.t, TicksOf(r.t, r.s.at)))

fix_watchpoint_coalescing_quirk(v, r, before) ==
    IF r.w /\ MayBeString(r.s.at)
    THEN RunAgain(apply_breakpoints_and_watchpoints(seek_to_proto_mark(v, before)), r)
    ELSE [v |-> v, r |-> r, fixed |-> FALSE]

(* A step of the strategy: `steps' singlesteps are left; fixing the quirk  *)
(* asks for more of them (update_strategy_and_fix_watchpoint_quirk).       *)
Cmd(steps) == IF steps > 0 THEN "ff" ELSE "cont"
Less1(steps) == IF steps > 0 THEN steps - 1 ELSE 0

Strategy(f, steps) == [v |-> f.v, r |-> f.r, steps |-> IF f.fixed THEN 7 ELSE steps]

Quirk(v, r, before, steps) ==
    IF steps > 0 THEN [v |-> [v EXCEPT !.cur = r.s], r |-> r, steps |-> Less1(steps)]
    ELSE Strategy(fix_watchpoint_coalescing_quirk([v EXCEPT !.cur = r.s], r, before), 0)

(* replay_step_to_mark and its step when the ticks of the mark are reached.*)
OffMark(v, ip, r) ==
    [r EXCEPT !.s.bps[ip] = @ - 1, !.bp = @ /\ Pt(r.s.at).ip \in v.breakpoints]

ToMarkAddress(v, ip, steps) ==
    OffMark(v, ip, Advance([v.cur EXCEPT !.bps[ip] = @ + 1], Cmd(steps), 0, {}))

Stepped(v, r, steps) == [v |-> [v EXCEPT !.cur = r.s], r |-> r, steps |-> steps]

(* What is left to do, and the step that does it.                          *)
Onto(v, m, before, steps) ==
    [v |-> v, before |-> before, steps |-> steps,
     r |-> IF Pt(v.cur.at).ip # Pt(m).ip THEN ToMarkAddress(v, Pt(m).ip, steps)
           ELSE [Advance(v.cur, "ff", 0, {Regs(m)}) EXCEPT !.single = FALSE],
     fix |-> Pt(v.cur.at).ip # Pt(m).ip]

(* Below the ticks of the mark: the step that stops one tick short of it.  *)
Short(v, m, steps, r) ==
    IF ~r.appr \/ any_break([r EXCEPT !.appr = FALSE])
    THEN [v |-> v, before |-> v.cur.at, steps |-> steps, r |-> [r EXCEPT !.appr = FALSE], fix |-> TRUE]
    ELSE Onto([v EXCEPT !.cur = r.s], m, v.cur.at, Less1(steps))

StepToMark(v, m, steps) ==
    IF Pt(v.cur.at).time < Pt(m).time
    THEN [v |-> v, before |-> v.cur.at, steps |-> steps, r |-> Advance(v.cur, Cmd(steps), 0, {}),
          fix |-> TRUE]
    ELSE IF Pt(v.cur.at).ticks < Pt(m).ticks /\ Pt(m).ticks - 1 > 0
    THEN Short(v, m, steps, Advance(v.cur, Cmd(steps), Pt(m).ticks - 1, {}))
    ELSE Onto(v, m, v.cur.at, steps)

Fixed(c) == IF c.fix THEN Quirk(c.v, c.r, c.before, c.steps) ELSE Stepped(c.v, c.r, c.steps)

replay_step_to_mark(v, m, steps) ==
    IF KeyLess(Key(m), Key(v.cur.at))
    THEN [v |-> [v EXCEPT !.failed = TRUE], r |-> Result(v.cur, v.cur.at, 0), steps |-> steps]
    ELSE Fixed(StepToMark(v, m, steps))

Reapplied(v, r) == [v |-> v, r |-> [r EXCEPT !.s = v.cur]]

OneStep(v, r) == Reapplied(apply_breakpoints_internal([v EXCEPT !.cur = r.s]), r)

WithoutBreakpoints(v) == OneStep(v, Advance(v.cur, "step", 0, {}))

singlestep_with_breakpoints_disabled(v) ==
    WithoutBreakpoints(unapply_breakpoints_internal(apply_breakpoints_and_watchpoints(v)))

is_start_of_reverse_execution_barrier_event(v) ==
    Pt(v.cur.at).time = rec.barrier /\ Pt(v.cur.at).k = 0

(* run_forward_to_intermediate_point: [v, ok].                             *)
FirstAt(time) == Min({q \in 1 .. N : Pt(q).time = time})

TicksAtEventStart(m) == TicksOf(Pt(m).t, FirstAt(Pt(m).time))

TowardsTicks(p, target) ==
    LET go[q \in 1 .. N] ==
            LET on(r) == IF r.appr \/ r.s.at = q \/ TicksOf(Pt(p).t, r.s.at) >= target
                         THEN r.s.at ELSE go[r.s.at]
            IN on(Advance(Fresh(q), "cont", target, {}))
    IN go[p]

TicksLimit(p, end) ==
    IF Pt(end).time = Pt(p).time THEN Min({Pt(FrameEnd(p)).ticks, Pt(end).ticks})
    ELSE Pt(FrameEnd(p)).ticks

MidTicks(p, limit) == Min({limit, (Pt(p).ticks + limit) \div 2})

MidTime(p, end) == (Pt(p).time + Pt(end).time) \div 2

To(v, q, ok) == [v |-> [v EXCEPT !.cur.at = q], ok |-> ok]

ByStep(v, end, force, q) ==
    IF force /\ q # v.cur.at /\ q # end THEN To(v, q, TRUE) ELSE To(v, v.cur.at, FALSE)

ByTicks(v, end, force, q) ==
    IF q # v.cur.at THEN To(v, q, TRUE)
    ELSE ByStep(v, end, force, Advance(v.cur, "ff", 0, {Regs(end)}).s.at)

Halfway(p, limit) == IF MidTicks(p, limit) # limit THEN TowardsTicks(p, MidTicks(p, limit)) ELSE p

Intermediate(v, end, force) ==
    IF Pt(v.cur.at).time < MidTime(v.cur.at, end) /\ MidTime(v.cur.at, end) < Pt(end).time
    THEN To(v, FirstAt(MidTime(v.cur.at, end)), TRUE)
    ELSE IF Pt(v.cur.at).time < Pt(end).time /\ TicksAtEventStart(end) < Pt(end).ticks
    THEN To(v, FirstAt(Pt(end).time), TRUE)
    ELSE ByTicks(v, end, force, Halfway(v.cur.at, TicksLimit(v.cur.at, end)))

run_forward_to_intermediate_point(v, end, force) ==
    Intermediate(unapply_breakpoints_and_watchpoints(v), end, force)

-----------------------------------------------------------------------------
(* Operations of the timeline, one replay step or seek at a time.  `op'    *)
(* holds the local variables of reverse_continue, reverse_singlestep2 and  *)
(* seek_to_mark.                                                           *)
NoFinal == [kind |-> "none", t |-> 0]

Idle == [pc |-> "idle", end |-> 0, start |-> 0, dest |-> 0, first |-> FALSE, restart |-> <<>>,
         atbp |-> FALSE, ran |-> FALSE, steps |-> 0, stops |-> 0, made |-> FALSE,
         stop |-> <<0, 0>>,
         lastw |-> FALSE, fin |-> NoFinal, ticks |-> 0, filter |-> {}, goal |-> 0, ret |-> "idle",
         tuid |-> 0, target |-> 0, barrier |-> FALSE, cmd |-> "cont", appr |-> FALSE,
         other |-> FALSE, ckey |-> <<0, 0, 0>>, cand |-> 0, cfin |-> NoFinal, cother |-> FALSE,
         from |-> 0, saved |-> NoFinal,
         asked |-> [op |-> "none", at |-> 0, bps |-> {}, watch |-> FALSE]]

(* What an operation reports when it returns; reverse_continue keeps its   *)
(* own result over that of the reverse step it ends with.                  *)
Goto(v, o) == [v |-> v, o |-> o]

Return(v, fin) ==
    Goto(v, [Idle EXCEPT !.fin = IF op.saved = NoFinal THEN fin ELSE op.saved, !.asked = op.asked])

(* One step of an operation, given the timeline and locals it ends with.   *)
Becomes(step) == \E s \in {step} : tl' = s.v /\ op' = s.o

Does(step) == Becomes(step) /\ UNCHANGED <<rec, client>>

Kind(r) == IF r.w THEN "watch" ELSE IF r.sig THEN "signal"
           ELSE IF breakpoint_hit(r) THEN "breakpoint" ELSE "step"

(* seek_to_mark                                                            *)
seek_to_mark_begin(v, m, o) ==
    Goto(seek_up_to_mark(v, m), [o EXCEPT !.pc = "seek", !.goal = m])

seek_to_mark ==
    /\ op.pc = "seek"
    /\ Does(IF at_mark(tl, op.goal)
            THEN LET v == [tl EXCEPT !.after = op.goal] IN
                 IF op.ret = "return" THEN Return(v, op.fin) ELSE Goto(v, [op EXCEPT !.pc = op.ret])
            ELSE Goto(replay_step_to_mark(unapply_breakpoints_and_watchpoints(tl), op.goal, 0).v, op))

-----------------------------------------------------------------------------
(* reverse_continue                                                        *)
ReverseContinue(v, o) ==
    [o EXCEPT !.pc = "rc_outer", !.end = v.cur.at, !.dest = 0, !.restart = <<>>, !.lastw = FALSE,
              !.fin = NoFinal]

(* Find a place to run forward from.                                       *)
reverse_continue_back ==
    /\ op.pc = "rc_outer"
    /\ Does(LET v == mark(tl)
                u == mark(seek_to_before_key(v, Key(op.end)))
            IN IF MarkLess(v, v.cur.at, op.end)
               THEN Goto(v, [op EXCEPT !.pc = "rc_begin", !.start = v.cur.at, !.first = FALSE])
               ELSE IF op.restart # <<>>
               THEN seek_to_mark_begin(v, Last(op.restart),
                        [op EXCEPT !.start = Last(op.restart), !.restart = Front(@), !.first = TRUE,
                                   !.ret = "rc_begin"])
               ELSE IF MarkLess(u, u.cur.at, op.end)
               THEN Goto(u, [op EXCEPT !.pc = "rc_begin", !.start = u.cur.at, !.first = TRUE])
               ELSE Return(u, [kind |-> "exited", t |-> 0]))

reverse_continue_begin ==
    /\ op.pc = "rc_begin"
    /\ Does(Goto(maybe_add_reverse_exec_checkpoint(tl, "short"),
                 [op EXCEPT !.pc = "rc_inner", !.atbp = FALSE, !.steps = 0, !.stops = 0, !.made = FALSE,
                            !.stop = <<0, 0>>, !.ran = FALSE]))

(* The replay step of the inner loop and what it stopped for.              *)
WithSteps(d, steps) == [v |-> d.v, r |-> d.r, steps |-> steps]

StepTowardsEnd(v) ==
    IF op.atbp THEN WithSteps(singlestep_with_breakpoints_disabled(v), op.steps)
    ELSE replay_step_to_mark(v, op.end, op.steps)

OfFilter(r) == IF any_break(r) /\ r.t \notin op.filter THEN Result(r.s, r.s.at, 0) ELSE r

Filtered(r) == OfFilter(evaluate_conditions(r))

NewBreak(r) == op.first /\ op.dest # op.start /\ any_break(r)

ShortCheckpoint(v, r) == IF NewBreak(r) THEN set_short_checkpoint(v) ELSE v

(* avoidable_stop and the progress made since the last one.                *)
Avoidable(r) == r.bp \/ r.w

StopState(r) ==
    IF Avoidable(r) THEN <<TaskAt(r.t, r.s.at).ip, TicksOf(r.t, r.s.at)>> ELSE op.stop

AfterStep(st, r) ==
    [op EXCEPT !.steps = st.steps, !.atbp = breakpoint_hit(st.r), !.stop = StopState(st.r),
               !.made = IF Avoidable(st.r) THEN op.stop # StopState(st.r) ELSE @,
               !.first = @ /\ ~NewBreak(r)]

(* Data watchpoints, signals and the barrier count even at `end', a        *)
(* breakpoint only before it.                                              *)
Found(o, p, kind, t, lastw) ==
    [o EXCEPT !.dest = p, !.fin = [kind |-> kind, t |-> t], !.lastw = lastw,
              !.ticks = IF lastw THEN TicksOf(t, p) ELSE @]

EventFound(o, p, r) == IF r.w \/ r.sig THEN Found(o, p, Kind(r), r.t, TRUE) ELSE o

BarrierFound(v, o, p) ==
    IF is_start_of_reverse_execution_barrier_event(v) THEN Found(o, p, "barrier", Pt(p).t, FALSE)
    ELSE o

BreakpointFound_AtEnd(v, o, p, r) ==
    IF breakpoint_hit(r) THEN Found(o, p, "breakpoint", r.t, FALSE) ELSE o

BreakpointFound(v, o, p, r) ==
    IF breakpoint_hit(r) /\ ~at_mark(v, op.end) THEN Found(o, p, "breakpoint", r.t, FALSE) ELSE o

StopFound(v, o, p, r) == BreakpointFound(v, BarrierFound(v, EventFound(o, p, r), p), p, r)

(* The stop is marked when it is a possible destination.                   *)
Noted(v, o, o1) ==
    [v |-> IF o1 = o /\ o1.dest # v.cur.at THEN v ELSE mark(v), o |-> o1]

NoteStop(v, o, r) == Noted(v, o, StopFound(v, o, v.cur.at, r))

(* Too many stops: start again from halfway to `end', remembering where    *)
(* this run started and where it got to.                                   *)
Restarting(o, at) ==
    [o EXCEPT !.restart = @ \o (IF o.dest # 0 THEN <<o.start, at>> ELSE <<at>>), !.dest = 0,
              !.pc = "rc_outer"]

NextStep(o, avoidable) == [o EXCEPT !.stops = IF avoidable THEN @ + 1 ELSE @, !.ran = TRUE]

AfterStop(v, o, avoidable) ==
    IF ~avoidable \/ o.stops < StopCountLimit THEN Goto(v, NextStep(o, avoidable))
    ELSE LET then(f) == Goto(IF f.ok THEN [f.v EXCEPT !.failed = @ \/ at_mark(f.v, o.end)] ELSE f.v,
                             IF f.ok THEN Restarting(o, v.cur.at) ELSE NextStep(o, avoidable))
         IN then(run_forward_to_intermediate_point(mark(v), o.end, ~o.made))

StopHandled_KeepsEnd(n, avoidable) ==
    IF at_mark(n.v, op.end)
    THEN Goto(n.v, [n.o EXCEPT !.pc = IF n.o.dest = 0 THEN "rc_outer" ELSE "rc_finish"])
    ELSE AfterStop(n.v, n.o, avoidable)

StopHandled(n, avoidable) ==
    IF at_mark(n.v, op.end)
    THEN Goto(n.v, [n.o EXCEPT !.end = op.start,
                               !.pc = IF n.o.dest = 0 THEN "rc_outer" ELSE "rc_finish"])
    ELSE AfterStop(n.v, n.o, avoidable)

StopSeen(st, r) ==
    StopHandled(NoteStop(ShortCheckpoint(maybe_add_reverse_exec_checkpoint(st.v, "short"), r),
                         AfterStep(st, r), r),
                Avoidable(st.r))

ContinueTowardsEnd(st) == StopSeen(st, Filtered(st.r))

reverse_continue_step ==
    /\ op.pc = "rc_inner"
    /\ Does(ContinueTowardsEnd(StepTowardsEnd(apply_breakpoints_and_watchpoints(tl))))

(* interrupt_check() during the inner loop.                                *)
reverse_continue_interrupted ==
    /\ op.pc = "rc_inner" /\ op.ran /\ client.ints > 0
    /\ client' = [client EXCEPT !.ints = @ - 1]
    /\ tl' = seek_up_to_mark(tl, op.end)
    /\ op' = [op EXCEPT !.pc = "seek", !.goal = op.end, !.ret = "return",
                        !.fin = [kind |-> "interrupted", t |-> 0]]
    /\ UNCHANGED rec

ReverseStep(v, o, origin, tuid, ticks, filter) ==
    [o EXCEPT !.pc = "rs_back", !.end = origin, !.ckey = Key(origin), !.tuid = tuid,
              !.filter = filter, !.target = Max({0, ticks - 1}), !.barrier = FALSE,
              !.start = origin]

reverse_continue_finish ==
    /\ op.pc = "rc_finish"
    /\ Does(IF op.lastw
            THEN Goto(tl, ReverseStep(tl, [op EXCEPT !.saved = IF @ = NoFinal THEN op.fin ELSE @],
                                      op.dest, op.fin.t, op.ticks, {op.fin.t}))
            ELSE seek_to_mark_begin(tl, op.dest, [op EXCEPT !.ret = "return"]))

-----------------------------------------------------------------------------
(* reverse_singlestep2: go back to before the ticks of `end'.              *)
reverse_singlestep_back ==
    /\ op.pc = "rs_back"
    /\ Does(IF op.ckey[1] # Pt(op.end).time \/ op.ckey[2] # Pt(op.end).ticks
            THEN Goto(mark(tl), [op EXCEPT !.pc = "rs_run", !.start = tl.cur.at, !.cmd = "cont",
                                           !.appr = FALSE, !.other = FALSE])
            ELSE LET v == maybe_add_reverse_exec_checkpoint(seek_to_before_key(tl, op.ckey), "short")
                 IN IF Key(v.cur.at) = op.ckey THEN Return(v, [kind |-> "exited", t |-> 0])
                    ELSE Goto(v, [op EXCEPT !.ckey = Key(v.cur.at)]))

(* Run forward until the stepping thread is close to the ticks.            *)
reverse_singlestep_run ==
    /\ op.pc = "rs_run" /\ ~at_mark(tl, op.end)
    /\ Does(LET p    == tl.cur.at
                mine == Pt(p).t \in op.filter /\ Pt(p).t = op.tuid
                v    == IF Pt(p).t \in op.filter /\ ~mine /\ ~op.other
                        THEN apply_breakpoints_and_watchpoints(tl)
                        ELSE unapply_breakpoints_and_watchpoints(tl)
                r    == IF mine THEN Advance(v.cur, op.cmd, IF op.cmd = "cont" THEN op.target ELSE 0, {})
                        ELSE Advance(v.cur, "cont", 0, {})
                u    == [v EXCEPT !.cur = r.s]
            IN IF mine /\ Pt(p).ticks >= op.target
               THEN Goto(tl, [op EXCEPT !.appr = TRUE, !.pc = "rs_decide"])
               ELSE Goto(maybe_add_reverse_exec_checkpoint(u, "short"),
                         [op EXCEPT !.cmd = IF mine /\ r.appr THEN "ff" ELSE @,
                                    !.other = @ \/ (Pt(p).t \in op.filter /\ ~mine /\ any_break(r)),
                                    !.barrier = @ \/ is_start_of_reverse_execution_barrier_event(u)]))

reverse_singlestep_at_end ==
    /\ op.pc = "rs_run" /\ at_mark(tl, op.end)
    /\ Does(Goto(tl, [op EXCEPT !.pc = "rs_decide"]))

reverse_singlestep_decide ==
    /\ op.pc = "rs_decide"
    /\ Does(LET v == set_short_checkpoint(tl)
                b == is_start_of_reverse_execution_barrier_event(v)
            IN IF op.appr \/ op.barrier
               THEN Goto([v EXCEPT !.quietFrom = 0],
                         [op EXCEPT !.pc = "rs_step", !.from = tl.cur.at, !.cother = FALSE,
                                    !.other = FALSE,
                                    !.cand = IF b THEN tl.cur.at ELSE 0,
                                    !.cfin = IF b THEN [kind |-> "barrier", t |-> Pt(tl.cur.at).t]
                                             ELSE NoFinal])
               ELSE IF op.other THEN Goto(mark(tl), ReverseContinue(tl, op))
               ELSE Goto(tl, [op EXCEPT !.pc = "rs_back", !.end = op.start, !.ckey = Key(op.start)]))

(* update_observable_break_status                                          *)
Observed(v, r) ==
    [v |-> IF v.quietFrom = 0 \/ r.w THEN [v EXCEPT !.quietFrom = v.cur.at] ELSE v,
     r |-> r, broke |-> any_break(r)]

update_observable_break_status(v, r) == Observed(mark([v EXCEPT !.cur = r.s]), r)

Observing(v, cmd, states) == update_observable_break_status(v, Advance(v.cur, cmd, 0, states))

(* A breakpoint is stepped over; the stop at it is not forgotten.          *)
OverBreakpoint(s, states) ==
    IF breakpoint_hit(s.r)
    THEN [Observing(unapply_breakpoints_and_watchpoints(s.v), "ff", states) EXCEPT !.broke = TRUE]
    ELSE s

(* The end of an iteration: the barrier, and whether `end' is reached.     *)
EndOfStep(v, o) ==
    LET b == is_start_of_reverse_execution_barrier_event(v)
        u == IF b THEN mark(v) ELSE v
        q == IF b THEN [o EXCEPT !.cand = v.cur.at,
                                 !.cfin = [kind |-> "barrier", t |-> Pt(v.cur.at).t],
                                 !.cother = FALSE, !.other = FALSE]
             ELSE o
    IN IF ~MarkLess(v, v.cur.at, op.end) THEN Goto(u, [q EXCEPT !.pc = "rs_done"])
       ELSE Goto(maybe_add_reverse_exec_checkpoint(u, "short"), q)

(* A singlestep of the stepping thread that was completed.                 *)
Candidate(v, r) ==
    IF MarkLess(v, op.end, v.cur.at) THEN Goto(v, [op EXCEPT !.pc = "rs_done"])
    ELSE EndOfStep(v, [op EXCEPT !.cand = op.from, !.cfin = [kind |-> Kind(r), t |-> r.t],
                                 !.cother = op.other, !.other = FALSE, !.from = v.cur.at])

StepDone(s, from) ==
    IF s.r.single THEN Candidate(mark_after_singlestep(s.v, from, s.r), s.r)
    ELSE EndOfStep(s.v, op)

reverse_singlestep_step ==
    /\ op.pc = "rs_step" /\ Pt(tl.cur.at).t \in op.filter /\ Pt(tl.cur.at).t = op.tuid
    /\ Does(StepDone(OverBreakpoint(Observing(mark(apply_breakpoints_and_watchpoints(tl)), "ff",
                                              {Regs(op.end)}),
                                    {Regs(op.end)}),
                     tl.cur.at))

(* Another thread the debugger cares about, or one it does not.            *)
OtherDone(s) == EndOfStep(s.v, [op EXCEPT !.other = @ \/ s.broke])

Unobserved(v) == [v EXCEPT !.cur = Advance(v.cur, "cont", 0, {}).s, !.quietFrom = 0]

reverse_singlestep_other ==
    /\ op.pc = "rs_step" /\ Pt(tl.cur.at).t # op.tuid
    /\ Does(IF Pt(tl.cur.at).t \in op.filter
            THEN OtherDone(OverBreakpoint(Observing(apply_breakpoints_and_watchpoints(tl), "cont", {}),
                                          {}))
            ELSE EndOfStep(mark(Unobserved(unapply_breakpoints_and_watchpoints(tl))), op))

reverse_singlestep_done ==
    /\ op.pc = "rs_done"
    /\ Does(LET v == [tl EXCEPT !.quietTo = IF tl.quietFrom # 0 THEN op.end ELSE 0] IN
            IF op.other \/ op.cother THEN Goto(mark(v), ReverseContinue(v, op))
            ELSE IF op.cand # 0
            THEN seek_to_mark_begin(v, op.cand, [op EXCEPT !.ret = "return", !.fin = op.cfin])
            ELSE Goto(v, [op EXCEPT !.pc = "rs_back", !.end = op.start, !.ckey = Key(op.start),
                                    !.barrier = FALSE]))

-----------------------------------------------------------------------------
(* The debugger: external, except for the calls it makes.                  *)
Asks == op.pc = "idle" /\ client.ops < MaxOps

Asked(what) == [op |-> what, at |-> tl.cur.at, bps |-> tl.breakpoints,
                watch |-> tl.watch]

Did == client' = [client EXCEPT !.ops = @ + 1]

(* replay_step_forward                                                     *)
Stopped(v, r, cmd) ==
    Goto(v, [Idle EXCEPT !.asked = Asked(cmd), !.fin = [kind |-> Kind(r), t |-> r.t]])

PastFalseCondition(d, cmd) == Stopped(d.v, d.r, cmd)

Reports(v, r, cmd) ==
    IF breakpoint_hit(r) /\ ~any_break(evaluate_conditions(r))
    THEN PastFalseCondition(singlestep_with_breakpoints_disabled(v), cmd)
    ELSE Stopped(v, evaluate_conditions(r), cmd)

HiddenStep(f, cmd) ==
    Reports(maybe_add_reverse_exec_checkpoint(f.v, "low"),
            IF cmd = "cont" THEN [f.r EXCEPT !.single = FALSE] ELSE f.r, cmd)

Forward(v, r, before, cmd) ==
    HiddenStep(IF cmd = "cont" THEN fix_watchpoint_coalescing_quirk(v, r, before)
               ELSE [v |-> v, r |-> r, fixed |-> FALSE], cmd)

StepForward(v, r, cmd) == Forward([v EXCEPT !.cur = r.s], r, v.cur.at, cmd)

StepFrom(v, cmd) == StepForward(v, Advance(v.cur, cmd, 0, {}), cmd)

replay_step_forward(cmd) ==
    /\ Asks /\ tl.cur.at < N /\ Did /\ UNCHANGED rec
    /\ Becomes(StepFrom(apply_breakpoints_and_watchpoints(tl), cmd))

CallReverseContinue ==
    /\ Asks /\ Did /\ UNCHANGED rec
    /\ Becomes(Goto(mark(tl), ReverseContinue(tl, [Idle EXCEPT !.asked = Asked("reverse_continue"),
                                                               !.filter = rec.filter])))

CallReverseSinglestep ==
    /\ Asks /\ Did /\ UNCHANGED rec /\ Pt(tl.cur.at).t \in rec.filter
    /\ Becomes(Goto(mark(tl),
           ReverseStep(tl, [Idle EXCEPT !.asked = Asked("reverse_singlestep")], tl.cur.at,
                       Pt(tl.cur.at).t, Pt(tl.cur.at).ticks, rec.filter)))

CallAddCheckpoint ==
    /\ Asks /\ can_add_checkpoint(tl) /\ tl.cur.at \notin client.held
    /\ Becomes(Goto(add_explicit_checkpoint(tl), Idle))
    /\ client' = [client EXCEPT !.ops = @ + 1, !.held = @ \cup {tl.cur.at}]
    /\ UNCHANGED rec

CallRemoveCheckpoint ==
    /\ Asks
    /\ \E m \in client.held :
         /\ tl' = remove_explicit_checkpoint(tl, m)
         /\ client' = [client EXCEPT !.ops = @ + 1, !.held = @ \ {m}]
    /\ op' = Idle
    /\ UNCHANGED rec

CallSeek ==
    /\ Asks /\ Did
    /\ \E m \in client.held :
         /\ tl' = seek_up_to_mark(tl, m)
         /\ op' = [Idle EXCEPT !.pc = "seek", !.goal = m, !.ret = "return",
                               !.asked = [Asked("seek") EXCEPT !.at = m]]
    /\ UNCHANGED rec

(* add_breakpoint and remove_breakpoint                                    *)
add_breakpoint(ip) ==
    /\ Asks /\ Did /\ ip \notin tl.breakpoints
    /\ tl' = [apply_breakpoints_and_watchpoints(tl) EXCEPT !.breakpoints = @ \cup {ip},
                                                           !.cur.bps[ip] = @ + 1]
    /\ op' = Idle
    /\ UNCHANGED rec

remove_breakpoint(ip) ==
    /\ Asks /\ Did /\ ip \in tl.breakpoints
    /\ tl' = [tl EXCEPT !.breakpoints = @ \ {ip}, !.cur.bps[ip] = IF tl.applied THEN @ - 1 ELSE @]
    /\ op' = Idle
    /\ UNCHANGED rec

(* add_watchpoint and remove_watchpoint for the watched location.          *)
add_watchpoint ==
    /\ Asks /\ Did /\ ~tl.watch
    /\ tl' = [apply_breakpoints_and_watchpoints(tl) EXCEPT !.watch = TRUE, !.cur.w = TRUE,
                                                           !.quietFrom = 0, !.quietTo = 0]
    /\ op' = Idle
    /\ UNCHANGED rec

remove_watchpoint ==
    /\ Asks /\ Did /\ tl.watch
    /\ tl' = [tl EXCEPT !.watch = FALSE, !.cur.w = IF tl.applied THEN FALSE ELSE @]
    /\ op' = Idle
    /\ UNCHANGED rec

NewTimeline ==
    [cur |-> Fresh(1), applied |-> FALSE, after |-> 0, marks |-> [k \in Keys |-> <<>>],
     cp |-> [p \in 1 .. N |-> NoSession], refs |-> [p \in 1 .. N |-> 0],
     with |-> [k \in Keys |-> 0], one |-> {}, rev |-> [p \in {} |-> 0], short |-> 0,
     quietFrom |-> 0, quietTo |-> 0, breakpoints |-> {}, watch |-> FALSE,
     failed |-> FALSE]

Init ==
    /\ rec \in Recordings
    /\ tl = NewTimeline
    /\ op = Idle
    /\ client = [ops |-> 0, ints |-> MaxInterrupts, held |-> {}]

Timeline ==
    \/ seek_to_mark
    \/ reverse_continue_back \/ reverse_continue_begin \/ reverse_continue_step
    \/ reverse_continue_interrupted \/ reverse_continue_finish
    \/ reverse_singlestep_back \/ reverse_singlestep_run \/ reverse_singlestep_at_end
    \/ reverse_singlestep_decide \/ reverse_singlestep_step \/ reverse_singlestep_other
    \/ reverse_singlestep_done

Debugger ==
    \/ \E cmd \in {"cont", "step"} : replay_step_forward(cmd)
    \/ CallReverseContinue \/ CallReverseSinglestep
    \/ CallAddCheckpoint \/ CallRemoveCheckpoint \/ CallSeek
    \/ \E ip \in rec.breakable : add_breakpoint(ip)
    \/ \E ip \in rec.breakable : remove_breakpoint(ip)
    \/ add_watchpoint \/ remove_watchpoint

Next == Timeline \/ Debugger

(* rd runs an operation to its end before it listens to the debugger: weak *)
(* fairness of Timeline, which is enabled exactly while an operation runs. *)
Fairness == []<>(op.pc = "idle") \/ []<><<op.pc # "idle">>_vars

Spec == Init /\ [][Next]_vars /\ Fairness

-----------------------------------------------------------------------------
(* Properties.  They are stated over the recording, not over what the      *)
(* timeline has found out about it.                                        *)

(* Marks, checkpoints and sessions name points of the recording, and no    *)
(* assertion of the timeline fails.                                        *)
TypeOK ==
    /\ tl.cur.at \in 1 .. N
    /\ \A k \in Keys : Range(tl.marks[k]) \subseteq {p \in 1 .. N : Key(p) = k}
    /\ \A p \in 1 .. N : tl.cp[p].at \in {0, p} /\ tl.refs[p] \in Nat
    /\ \A k \in Keys : tl.with[k] \in Nat
    /\ tl.after \in 0 .. N /\ tl.short \in 0 .. N
    /\ tl.one \subseteq 1 .. N
    /\ ~tl.failed

(* The marks of a key are kept in the order the program passes them,       *)
(* although they are discovered in any order, and a mark whose             *)
(* singlestep_to_next_mark_no_signal is set is one instruction before the  *)
(* next.                                                                   *)
MarksInOrder ==
    \A k \in Keys : LET s == tl.marks[k] IN
        \A i \in 1 .. Len(s) - 1 : /\ s[i] < s[i + 1]
                                   /\ s[i] \in tl.one => s[i + 1] = s[i] + 1

(* A checkpoint stands at its mark with no breakpoint or watchpoint set,   *)
(* exactly the referenced marks have one, and marks_with_checkpoints       *)
(* counts them.                                                            *)
CheckpointsAtMarks ==
    /\ \A p \in 1 .. N :
         /\ tl.cp[p] \in {NoSession, Fresh(p)}
         /\ tl.refs[p] > 0 <=> tl.cp[p].at # 0
         /\ tl.cp[p].at # 0 => p \in Range(tl.marks[Key(p)])
    /\ \A k \in Keys : tl.with[k] = Cardinality({p \in 1 .. N : Key(p) = k /\ tl.cp[p].at # 0})

(* current_at_or_after_mark really is at or before the current point, and  *)
(* what the debugger set is what the current session has while applied.    *)
CurrentKnown ==
    /\ tl.after <= tl.cur.at
    /\ tl.cur.bps = [ip \in Ips |-> IF tl.applied /\ ip \in tl.breakpoints THEN 1 ELSE 0]
    /\ tl.cur.w = (tl.applied /\ tl.watch)

(* Where a single step of thread t ends.                                   *)
StepEnds(t) ==
    {q \in 2 .. N : Pt(q - 1).t = t /\ Pt(q - 1).k = 1
                      /\ LET r == Advance(Fresh(q - 1), "step", 0, {}) IN r.single /\ r.s.at = q}

Between(land, origin, t) == Cardinality({q \in StepEnds(t) : land < q /\ q <= origin})

(* The stops an operation with these breakpoints has to honour: where a    *)
(* breakpoint is reached, or a step that touches the watched location or   *)
(* delivers a signal ends.                                                 *)
BreakpointAt(a, q) ==
    /\ Pt(q).ip \in a.bps /\ Pt(q).k = 1 /\ Pt(q).t \in rec.filter /\ q \notin rec.conditionFalse
    /\ ~(LastOfFrame(q) /\ Pt(q - 1).k = 0)

EventAt(a, q) ==
    q > 1 /\ Pt(q - 1).k = 1 /\ Pt(q - 1).t \in rec.filter /\ (Pt(q).sig \/ (a.watch /\ Pt(q).w))

BarrierAt(q) == Pt(q).time = rec.barrier /\ Pt(q).k = 0

Returned(what) == op.pc = "idle" /\ op.asked.op = what

(* reverse_continue ends at the latest stop before its origin: on a        *)
(* breakpoint, at the barrier, or one step of its thread before a          *)
(* watchpoint hit or signal; at the beginning when there is none.  A       *)
(* breakpoint at the very end of a frame may be passed: a run that starts  *)
(* there completes the event without executing its address.                *)
ReverseContinueLandsOnLastStop ==
    Returned("reverse_continue") /\ op.fin.kind # "interrupted" =>
        LET a      == op.asked
            land   == tl.cur.at
            hits   == {q \in 1 .. a.at - 1 : BreakpointAt(a, q)}
            bps    == {q \in hits : ~LastOfFrame(q)}
            events == {q \in 1 .. a.at : EventAt(a, q)}
            bars   == {q \in 2 .. a.at : BarrierAt(q)}
            latest == Max({1} \cup bps \cup events \cup bars)
        IN \/ land \in hits /\ land >= latest
           \/ IF latest \in bps \cup bars THEN land = latest
              ELSE IF latest \in events THEN Between(land, latest, Pt(latest - 1).t) = 1
              ELSE op.fin.kind = "exited" /\ land = 1

(* reverse_singlestep undoes exactly one step of the thread, less only     *)
(* where the barrier or a stop of another thread comes first.              *)
ReverseStepUndoesOne ==
    Returned("reverse_singlestep") /\ op.fin.kind # "interrupted" =>
        LET a    == op.asked
            land == tl.cur.at
            t    == Pt(a.at).t
            n    == Between(land, a.at, t)
        IN \/ n = 1
           \/ /\ n = 0
              /\ \/ BarrierAt(land)
                 \/ BreakpointAt(a, land) /\ Pt(land).t # t
                 \/ \E q \in land + 1 .. a.at : EventAt(a, q) /\ Pt(q - 1).t # t
                 \/ op.fin.kind = "exited"

(* lazy_reverse_singlestep answers only with the previous instruction, and *)
(* only where the step it leaves out would have reported nothing, provided *)
(* no breakpoint can have been stepped over there.  rd asks between        *)
(* operations only.                                                        *)
LazyAgrees ==
    op.pc = "idle" => \A from \in UNION {Range(tl.marks[k]) : k \in Keys} :
        LET m == lazy_reverse_singlestep(tl, from) IN
        m # 0 => m = from - 1 /\ (Pt(m).ip \notin rec.breakable => ~(tl.watch /\ Pt(from).w))

(* Every operation comes to an end.                                        *)
OperationsEnd == (op.pc # "idle") ~> (op.pc = "idle")

==============================================================================
