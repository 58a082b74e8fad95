----------------------------- MODULE NcclProbe -----------------------------
(***************************************************************************)
(* nccl_hook.py: probes on the entry and the return of NCCL's collectives. *)
(* They are attached symbol by symbol, the entry before the return, while  *)
(* the job is running; if that fails half-way the symbol is skipped and    *)
(* its entry probe stays.  The entry probe stores the time and the         *)
(* function of a thread's call, and the return probe makes a line of what  *)
(* it finds for the thread.                                                *)
(*                                                                         *)
(* A thread is in one call at a time (a hooked function calls no other),   *)
(* and a return is only probed if the probe was there when the call began, *)
(* which is how return probes work.  The counter of calls is the clock.    *)
(***************************************************************************)
EXTENDS Integers, Sequences

CONSTANTS Callers,      \* threads of the traced processes
          Symbols,      \* FUNC_SPECS, a sequence
          MaxCalls      \* bound: calls of collectives

ASSUME NcclProbeAssumption == Symbols \in Seq(STRING) /\ MaxCalls \in Nat

VARIABLES attached,     \* symbols -> {}, {"entry"}, {"entry", "return"}
          next,         \* the symbol attach_hooks is at
          call,         \* what each thread is in: [f, ts, probed], or NoCall
          start_ts, func_map,
          calls,        \* bound: calls so far
          line          \* the last line of a return: [f, since, own]

ncclVars == <<attached, next, call, start_ts, func_map, calls, line>>

Hooked == {Symbols[k] : k \in 1 .. Len(Symbols)}

NoCall == [f |-> "none", ts |-> 0, probed |-> FALSE]

\* No entry of a hash map, and a line that is none.
Nothing == "none"

NcclInit ==
    /\ attached = [f \in Hooked |-> {}] /\ next = 1
    /\ call = [t \in Callers |-> NoCall]
    /\ start_ts = [t \in Callers |-> 0]
    /\ func_map = [t \in Callers |-> Nothing]
    /\ calls = 0 /\ line = [f |-> Nothing, since |-> 0, own |-> NoCall]
-----------------------------------------------------------------------------
\* attach_hooks.

AttachEntry ==
    /\ next <= Len(Symbols) /\ attached[Symbols[next]] = {}
    /\ attached' = [attached EXCEPT ![Symbols[next]] = {"entry"}]
    /\ UNCHANGED <<next, call, start_ts, func_map, calls, line>>

AttachReturn ==
    /\ next <= Len(Symbols) /\ attached[Symbols[next]] = {"entry"}
    /\ attached' = [attached EXCEPT ![Symbols[next]] = @ \cup {"return"}]
    /\ next' = next + 1
    /\ UNCHANGED <<call, start_ts, func_map, calls, line>>

SkipSymbol ==
    /\ next <= Len(Symbols)
    /\ next' = next + 1
    /\ UNCHANGED <<attached, call, start_ts, func_map, calls, line>>
-----------------------------------------------------------------------------
\* trace_entry and trace_return.  A time of 0 stands for no entry.

\* Faulty: the entry of a call that was never seen to return is kept.
StoredUnlessThere(map, t, value, none) ==
    [map EXCEPT ![t] = IF @ = none THEN value ELSE @]

Stored(map, t, value, none) == [map EXCEPT ![t] = value]

Enter(t) ==
    /\ call[t] = NoCall /\ calls < MaxCalls
    /\ calls' = calls + 1
    /\ \E f \in Hooked :
         /\ call' = [call EXCEPT ![t] = [f |-> f, ts |-> calls + 1,
                                         probed |-> "return" \in attached[f]]]
         /\ IF "entry" \in attached[f]
            THEN /\ start_ts' = Stored(start_ts, t, calls + 1, 0)
                 /\ func_map' = Stored(func_map, t, f, Nothing)
            ELSE UNCHANGED <<start_ts, func_map>>
    /\ UNCHANGED <<attached, next, line>>

Return(t) ==
    /\ call[t] # NoCall
    /\ call' = [call EXCEPT ![t] = NoCall]
    /\ IF call[t].probed /\ start_ts[t] # 0 /\ func_map[t] # Nothing
       THEN /\ line' = [f |-> func_map[t], since |-> start_ts[t],
                        own |-> call[t]]
            /\ start_ts' = [start_ts EXCEPT ![t] = 0]
            /\ func_map' = [func_map EXCEPT ![t] = Nothing]
       ELSE UNCHANGED <<line, start_ts, func_map>>
    /\ UNCHANGED <<attached, next, calls>>

NcclNext ==
    \/ AttachEntry \/ AttachReturn \/ SkipSymbol
    \/ \E t \in Callers : Enter(t) \/ Return(t)
-----------------------------------------------------------------------------
\* The line of a return names the function and the duration of its own call,
\* although calls were under way while the probes were attached, and a symbol
\* may have an entry probe and no return probe (trace_return, attach_hooks).
OwnCall ==
    line.f # Nothing => line.f = line.own.f /\ line.since = line.own.ts
=============================================================================
