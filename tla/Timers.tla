-------------------------------- MODULE Timers ------------------------------
(***************************************************************************)
(* Timers (phoenix/core/core.cpp) over their four backends                 *)
(* (phoenix/{windows,gtk,qt,cocoa}/timer.cpp), with the event loop that    *)
(* serves them.  A source is what a toolkit keeps for a timer that runs: a *)
(* Windows timer, a GLib timeout, a QTimer that is active, an NSTimer that *)
(* is scheduled.  On Windows a source that is due posts a message, which   *)
(* outlives the source.  A callback may do anything a program may, but     *)
(* serve other timers or destroy its own.                                  *)
(***************************************************************************)
EXTENDS Toolkit, FiniteSets

CONSTANTS
    Clocks,     \* the addresses at which timers are constructed
    NoClock,    \* "no timer"
    MaxSources, \* the most sources at a time; they are numbered, freed numbers are reused
    MaxCalls    \* the most calls of the program, after which it leaves the timers alone

ASSUME TimerAssumption ==
    /\ NoClock \notin Clocks
    /\ MaxSources \in Nat /\ MaxCalls \in Nat

\* No toolkit runs out of sources: there is one for each timer.
ASSUME SourcesAssumption == IsFiniteSet(Clocks) /\ Cardinality(Clocks) <= MaxSources

Intervals == 0..1
Ids == 1..MaxSources
NoSource == [of |-> NoClock, pace |-> 0]
Idle == [timer |-> NoClock, id |-> 0]

VARIABLES
    living,     \* the timers constructed and not destroyed
    enabled,    \* state.enabled of each
    interval,   \* state.interval of each
    listed,     \* Windows: the static list of timers, which nothing leaves
    source,     \* the source of each number: whose it is, and its interval
    posted,     \* Windows: the numbers in messages not yet dispatched
    running,    \* the timer whose callback is running, and the source it came from
    prudent,    \* history: the program has kept to the rules of this module
    calls       \* the calls made so far

timerVars == <<toolkit, living, enabled, interval, listed, source, posted, running, prudent, calls>>
clockVars == <<living, enabled, interval, listed>>

TimerInit ==
    /\ toolkit \in Toolkits
    /\ living = {} /\ listed = <<>>
    /\ enabled = [t \in Clocks |-> FALSE] /\ interval = [t \in Clocks |-> 0]
    /\ source = [i \in Ids |-> NoSource] /\ posted = {}
    /\ running = Idle /\ prudent = TRUE /\ calls = 0

-----------------------------------------------------------------------------
Of(t) == {i \in Ids : source[i].of = t}
Stopped(t) == [i \in Ids |-> IF source[i].of = t THEN NoSource ELSE source[i]]

\* The sources, and a new one for t with the least number that is free.
Started(from, t, n) ==
    LET free == {i \in Ids : from[i] = NoSource}
    IN  IF free = {} THEN from
        ELSE [from EXCEPT ![CHOOSE i \in free : \A j \in free : i <= j] = [of |-> t, pace |-> n]]

\* A call of the program, by the rules if r.
Call(r) ==
    /\ calls < MaxCalls /\ calls' = calls + 1
    /\ prudent' = (prudent /\ r)
    /\ UNCHANGED <<toolkit, posted, running>>

\* Timer::Timer and pTimer::constructor
NewTimer(t) ==
    /\ t \notin living
    /\ living' = living \union {t}
    /\ enabled' = [enabled EXCEPT ![t] = FALSE] /\ interval' = [interval EXCEPT ![t] = 0]
    /\ listed' = IF toolkit = "windows" THEN Append(listed, t) ELSE listed
    /\ Call(TRUE)
    /\ UNCHANGED source

\* Mutant of Restarted: the source is not stopped first.
RestartedAlso(t, b, n) == IF b THEN Started(source, t, n) ELSE Stopped(t)

\* setEnabled on Windows and Qt, update on Cocoa: the source there is is
\* stopped, and if t is enabled a new one started.
Restarted(t, b, n) == IF b THEN Started(Stopped(t), t, n) ELSE Stopped(t)

\* pTimer::setEnabled on GTK: one more source; nothing stops the others.
Added(t, b, n) == IF b THEN Started(source, t, n) ELSE source

\* setEnabled.  The rule for GTK: a timer is enabled only once its last source
\* has had its turn, so never while it is enabled.
SetTimerEnabled(t, b) ==
    /\ t \in living
    /\ enabled' = [enabled EXCEPT ![t] = b]
    /\ source' = IF toolkit = "gtk" THEN Added(t, b, interval[t]) ELSE Restarted(t, b, interval[t])
    /\ Call(toolkit = "gtk" /\ b => Of(t) = {})
    /\ UNCHANGED <<living, interval, listed>>

\* setInterval: the source is restarted, but on GTK, where the next one has the
\* new interval.
SetTimerInterval(t, n) ==
    /\ t \in living
    /\ interval' = [interval EXCEPT ![t] = n]
    /\ source' = IF toolkit = "gtk" THEN source ELSE Restarted(t, enabled[t], n)
    /\ Call(TRUE)
    /\ UNCHANGED <<living, enabled, listed>>

\* ~Timer: Qt and Cocoa stop the source, Windows and GTK do not.  The rules: on
\* Windows a timer lives as long as the program, on GTK until it has no source.
DestroyTimer(t) ==
    /\ t \in living /\ t # running.timer
    /\ living' = living \ {t}
    /\ source' = IF toolkit \in {"qt", "cocoa"} THEN Stopped(t) ELSE source
    /\ Call(CASE toolkit = "windows" -> FALSE [] toolkit = "gtk" -> Of(t) = {} [] OTHER -> TRUE)
    /\ UNCHANGED <<enabled, interval, listed>>

\* A source of Windows is due: one message for each, and SetTimer's number in it.
Due(i) ==
    /\ toolkit = "windows" /\ source[i] # NoSource /\ i \notin posted
    /\ posted' = posted \union {i}
    /\ UNCHANGED <<toolkit, clockVars, source, running, prudent, calls>>

\* Mutant of Dispatch: the walk ends at the first timer, found or not.
DispatchFirst(i) ==
    /\ toolkit = "windows" /\ i \in posted /\ running = Idle
    /\ listed[1] \in living
    /\ running' = IF i \in Of(listed[1]) THEN [timer |-> listed[1], id |-> i] ELSE Idle
    /\ posted' = posted \ {i}
    /\ UNCHANGED <<toolkit, clockVars, source, prudent, calls>>

\* Timer_timeoutProc: the first timer of the list that has the number; a walk
\* over a destroyed timer is undefined, and the model does not go past it.
Dispatch(i) ==
    /\ toolkit = "windows" /\ i \in posted /\ running = Idle
    /\ LET hit == {n \in DOMAIN listed : i \in Of(listed[n])}
           upto == IF hit = {} THEN DOMAIN listed
                   ELSE {n \in DOMAIN listed : \A h \in hit : n <= h}
       IN  /\ \A n \in upto : listed[n] \in living
           /\ running' = IF hit = {} THEN Idle ELSE [timer |-> source[i].of, id |-> i]
    /\ posted' = posted \ {i}
    /\ UNCHANGED <<toolkit, clockVars, source, prudent, calls>>

\* Mutant of Trigger: the timer may have been disabled.
TriggerAnyway(i) ==
    /\ toolkit = "gtk" /\ running = Idle
    /\ source[i].of \in living
    /\ running' = [timer |-> source[i].of, id |-> i]
    /\ UNCHANGED <<toolkit, clockVars, source, posted, prudent, calls>>

\* Timer_trigger on GTK up to the callback: the source of a timer that has been
\* disabled in the meantime is dropped.
Trigger(i) ==
    /\ toolkit = "gtk" /\ running = Idle
    /\ source[i].of \in living
    /\ IF enabled[source[i].of]
       THEN running' = [timer |-> source[i].of, id |-> i] /\ UNCHANGED source
       ELSE source' = [source EXCEPT ![i] = NoSource] /\ UNCHANGED running
    /\ UNCHANGED <<toolkit, clockVars, posted, prudent, calls>>

\* run: on Cocoa, onActivate on Qt
Run(i) ==
    /\ toolkit \in {"qt", "cocoa"} /\ running = Idle
    /\ source[i] # NoSource
    /\ running' = [timer |-> source[i].of, id |-> i]
    /\ UNCHANGED <<toolkit, clockVars, source, posted, prudent, calls>>

Serve(i) == Dispatch(i) \/ Trigger(i) \/ Run(i)

\* The callback returns.  On GTK the source ends, and if the timer is enabled
\* now another takes its place.
Return ==
    /\ running # Idle /\ running' = Idle
    /\ LET t == running.timer
       IN  source' = IF toolkit # "gtk" THEN source
                     ELSE [source EXCEPT ![running.id] = IF enabled[t] THEN [of |-> t, pace |-> interval[t]]
                                                         ELSE NoSource]
    /\ UNCHANGED <<toolkit, clockVars, posted, prudent, calls>>

TimerNext ==
    \/ \E t \in Clocks : NewTimer(t) \/ DestroyTimer(t)
    \/ \E t \in Clocks, b \in BOOLEAN : SetTimerEnabled(t, b)
    \/ \E t \in Clocks, n \in Intervals : SetTimerInterval(t, n)
    \/ \E i \in Ids : Due(i) \/ Serve(i)
    \/ Return

\* The toolkits' loops serve every source that is due again and again, also when
\* other callbacks come in between; and callbacks return.
TimerFairness ==
    /\ \A i \in Ids : WF_timerVars(Due(i)) /\ SF_timerVars(Serve(i))
    /\ WF_timerVars(Return)

TimerSpec == TimerInit /\ [][TimerNext]_timerVars /\ TimerFairness

-----------------------------------------------------------------------------
\* Every variable has its type.
TimerTypeOK ==
    /\ toolkit \in Toolkits /\ living \subseteq Clocks
    /\ enabled \in [Clocks -> BOOLEAN] /\ interval \in [Clocks -> Intervals]
    /\ listed \in Seq(Clocks)
    /\ source \in [Ids -> [of : Clocks \union {NoClock}, pace : Intervals]]
    /\ posted \subseteq Ids
    /\ running = Idle \/ running \in [timer : Clocks, id : Ids]
    /\ prudent \in BOOLEAN /\ calls \in 0..MaxCalls

\* A prudent program's timer has one source while it is enabled, so it does not
\* tick twice as often, whatever its callbacks enable, disable or restart; and
\* no source outlives its timer.  But on GTK it has none once disabled, and
\* the source there is runs at the interval that is set.
OneSource ==
    prudent =>
        /\ \A t \in living :
              /\ enabled[t] => Cardinality(Of(t)) = 1
              /\ toolkit # "gtk" => IF enabled[t] THEN \A i \in Of(t) : source[i].pace = interval[t]
                                    ELSE Of(t) = {}
        /\ \A t \in Clocks \ living : Of(t) = {}

\* A callback starts only for a timer that exists and is enabled at that moment,
\* for prudent programs: also when its source was due, or its message posted,
\* before it was disabled.
NoLateTick ==
    [][prudent /\ running = Idle /\ running' # Idle =>
         running'.timer \in living /\ enabled[running'.timer]]_timerVars

\* A prudent program's timer that stays enabled ticks again and again.
KeepsTicking ==
    \A t \in Clocks :
        <>[](prudent /\ t \in living /\ enabled[t]) => []<>(running.timer = t)
=============================================================================
