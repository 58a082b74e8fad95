--------------------------- MODULE ProbesProofs ---------------------------
(***************************************************************************)
(* Proofs about the probes, for any number of threads, symbols, queue      *)
(* pairs and calls, and maps of any size: a line of nccl_hook.py is about  *)
(* the call whose return made it, an event of rdma_hook.py about its own   *)
(* work request.                                                           *)
(***************************************************************************)
EXTENDS Probes, FiniteSetTheorems, TLAPS

\* A symbol has its return probe only if it has its entry probe: attach_hooks
\* attaches the entry first and leaves it when the return fails.
EntryFirst ==
    /\ next \in Nat \ {0}
    /\ attached \in [Hooked -> SUBSET {"entry", "return"}]
    /\ \A f \in Hooked : "return" \in attached[f] => "entry" \in attached[f]

Names == Hooked \cup {"none"}

\* While a thread is in a call whose return will be probed, what the maps hold
\* for the thread was stored by the entry of that call.  Of other calls nothing
\* is known: their entry may be that of an earlier call, or none.
StoredByOwn ==
    /\ call \in [Callers -> [f : Names, ts : Nat, probed : BOOLEAN]]
    /\ calls \in Nat
    /\ DOMAIN start_ts = Callers /\ DOMAIN func_map = Callers
    /\ \A t \in Callers : call[t].probed =>
          start_ts[t] = call[t].ts /\ func_map[t] = call[t].f

ProbesInv == EntryFirst /\ StoredByOwn /\ OwnCall
-----------------------------------------------------------------------------
LEMMA InitProbes == Init => ProbesInv
<1> SUFFICES ASSUME Init PROVE ProbesInv
  OBVIOUS
<1>1. EntryFirst
  BY DEF Init, NcclInit, EntryFirst
<1>2. StoredByOwn
  BY DEF Init, NcclInit, StoredByOwn, NoCall, Names
<1>3. OwnCall
  BY DEF Init, NcclInit, OwnCall, Nothing
<1> QED BY <1>1, <1>2, <1>3 DEF ProbesInv

LEMMA AttachStep ==
    ASSUME ProbesInv, AttachEntry \/ AttachReturn \/ SkipSymbol
    PROVE  ProbesInv'
<1> DEFINE f == Symbols[next]
<1>1. next \in Nat \ {0} /\ next <= Len(Symbols) /\ next + 1 \in Nat \ {0}
  BY DEF ProbesInv, EntryFirst, AttachEntry, AttachReturn, SkipSymbol
<1>2. f \in Hooked
  BY <1>1, NcclProbeAssumption DEF Hooked
<1> HIDE DEF f
<1>3. EntryFirst'
  <2>1. CASE AttachEntry
    <3>1. /\ attached' = [attached EXCEPT ![f] = {"entry"}] /\ next' = next
      BY <2>1 DEF AttachEntry, f
    <3> QED BY <1>2, <3>1 DEF ProbesInv, EntryFirst
  <2>2. CASE AttachReturn
    <3>1. /\ attached' = [attached EXCEPT ![f] = @ \cup {"return"}]
          /\ attached[f] = {"entry"} /\ next' = next + 1
      BY <2>2 DEF AttachReturn, f
    <3> QED BY <1>1, <1>2, <3>1 DEF ProbesInv, EntryFirst
  <2>3. CASE SkipSymbol
    <3>1. attached' = attached /\ next' = next + 1
      BY <2>3 DEF SkipSymbol
    <3> QED BY <1>1, <3>1 DEF ProbesInv, EntryFirst
  <2> QED BY <2>1, <2>2, <2>3
<1>4. UNCHANGED <<call, start_ts, func_map, calls, line>>
  BY DEF AttachEntry, AttachReturn, SkipSymbol
<1> QED BY <1>3, <1>4 DEF ProbesInv, StoredByOwn, OwnCall

\* An entry that is probed replaces what the thread has in the maps.
LEMMA EnterStep ==
    ASSUME ProbesInv, NEW t \in Callers, Enter(t)
    PROVE  ProbesInv'
<1>1. PICK f \in Hooked :
        /\ call' = [call EXCEPT ![t] = [f |-> f, ts |-> calls + 1,
                                        probed |-> "return" \in attached[f]]]
        /\ IF "entry" \in attached[f]
           THEN /\ start_ts' = Stored(start_ts, t, calls + 1, 0)
                /\ func_map' = Stored(func_map, t, f, Nothing)
           ELSE UNCHANGED <<start_ts, func_map>>
  BY DEF Enter
<1>2. UNCHANGED <<attached, next, line>> /\ calls' = calls + 1
  BY DEF Enter
<1> DEFINE new == [f |-> f, ts |-> calls + 1,
                   probed |-> "return" \in attached[f]]
<1>3. new \in [f : Names, ts : Nat, probed : BOOLEAN] /\ calls + 1 \in Nat
  BY DEF ProbesInv, StoredByOwn, Names
<1>4. /\ new.f = f /\ new.ts = calls + 1
      /\ new.probed => "entry" \in attached[f]
  BY DEF ProbesInv, EntryFirst
<1> HIDE DEF new
<1>5. call' = [call EXCEPT ![t] = new]
  BY <1>1 DEF new
<1>6. StoredByOwn'
  <2>1. CASE "entry" \in attached[f]
    <3>1. /\ start_ts' = [start_ts EXCEPT ![t] = calls + 1]
          /\ func_map' = [func_map EXCEPT ![t] = f]
      BY <1>1, <2>1 DEF Stored
    <3> QED BY <1>2, <1>3, <1>4, <1>5, <3>1 DEF ProbesInv, StoredByOwn
  <2>2. CASE "entry" \notin attached[f]
    <3>1. start_ts' = start_ts /\ func_map' = func_map
      BY <1>1, <2>2
    <3>2. ~new.probed
      BY <1>4, <2>2
    <3> QED BY <1>2, <1>3, <1>5, <3>1, <3>2 DEF ProbesInv, StoredByOwn
  <2> QED BY <2>1, <2>2
<1>7. EntryFirst' /\ OwnCall'
  BY <1>2 DEF ProbesInv, EntryFirst, OwnCall
<1> QED BY <1>6, <1>7 DEF ProbesInv

\* A return that is probed takes them out, and its line is about its own call.
LEMMA ReturnStep ==
    ASSUME ProbesInv, NEW t \in Callers, Return(t)
    PROVE  ProbesInv'
<1>1. /\ UNCHANGED <<attached, next, calls>>
      /\ call' = [call EXCEPT ![t] = NoCall]
  BY DEF Return
<1>2. NoCall \in [f : Names, ts : Nat, probed : BOOLEAN] /\ ~NoCall.probed
  BY DEF NoCall, Names
<1> HIDE DEF NoCall
<1>3. EntryFirst'
  BY <1>1 DEF ProbesInv, EntryFirst
<1> DEFINE made == call[t].probed /\ start_ts[t] # 0 /\ func_map[t] # Nothing
<1>4. CASE made
  <2>1. /\ line' = [f |-> func_map[t], since |-> start_ts[t], own |-> call[t]]
        /\ start_ts' = [start_ts EXCEPT ![t] = 0]
        /\ func_map' = [func_map EXCEPT ![t] = Nothing]
    BY <1>4 DEF Return
  <2>2. StoredByOwn'
    BY <1>1, <1>2, <2>1 DEF ProbesInv, StoredByOwn
  <2>3. start_ts[t] = call[t].ts /\ func_map[t] = call[t].f
    BY <1>4 DEF ProbesInv, StoredByOwn
  <2>4. OwnCall'
    BY <2>1, <2>3 DEF OwnCall
  <2> QED BY <1>3, <2>2, <2>4 DEF ProbesInv
<1>5. CASE ~made
  <2>1. UNCHANGED <<line, start_ts, func_map>>
    BY <1>5 DEF Return
  <2>2. StoredByOwn'
    BY <1>1, <1>2, <2>1 DEF ProbesInv, StoredByOwn
  <2> QED BY <1>3, <2>1, <2>2 DEF ProbesInv, OwnCall
<1> QED BY <1>4, <1>5

\* The line of a return names the function and the time of its own call, while
\* probes are attached one by one and some are not (trace_entry, trace_return
\* and attach_hooks of nccl_hook.py).
THEOREM LinesAreOwn == Spec => []OwnCall
<1>1. ProbesInv /\ [Next]_<<rdmaVars, ncclVars, tool>> => ProbesInv'
  <2> SUFFICES ASSUME ProbesInv, [Next]_<<rdmaVars, ncclVars, tool>>
               PROVE  ProbesInv'
    OBVIOUS
  <2>1. CASE NcclNext
    BY <2>1, AttachStep, EnterStep, ReturnStep DEF NcclNext
  <2>2. CASE UNCHANGED ncclVars
    BY <2>2 DEF ncclVars, ProbesInv, EntryFirst, StoredByOwn, OwnCall
  <2> QED BY <2>1, <2>2 DEF Next
<1>2. ProbesInv => OwnCall
  BY DEF ProbesInv
<1> QED BY InitProbes, <1>1, <1>2, PTL DEF Spec

-----------------------------------------------------------------------------
(***************************************************************************)
(* rdma_hook.py.  While a request with a completion is in use nobody posts *)
(* another one with its id, so that what the maps hold under its key, if   *)
(* anything, was stored by its own probe: an entry that was left behind is *)
(* replaced, even in a full map.                                           *)
(***************************************************************************)
PostAts == {"ts", "seq", "imm"}
PollAts == {"cqTs", "cqSeq", "cqImm", "submit"}

Request == [side : {"send", "recv"}, qp : Qps, id : WrIds, imm : BOOLEAN,
            signaled : BOOLEAN, ts : Nat, seq : Int]

\* The requests of the probes that are at one of these places, and those whose
\* probes have stored all there is to store.
In(ats) == {probe[t].wr : t \in {t \in Threads : probe[t].at \in ats}}
Done == posted \cup cq \cup Polled

\* The probe of a thread has what its place needs.
Shape(p) ==
    /\ p.at \in {"idle", "add", "last"} \cup PostAts \cup PollAts
    /\ p.at \in {"add", "last"} => p = [at |-> p.at, seq |-> p.seq] /\ p.seq \in Int
    /\ p.at \in PostAts => p = [at |-> p.at, wr |-> p.wr] /\ p.wr \in Request
    /\ p.at = "imm" => p.wr.side = "send"
    /\ p.at \in PollAts =>
          /\ p = [at |-> p.at, wcs |-> p.wcs,
                  e |-> [ts |-> p.e.ts, seq |-> p.e.seq, imm |-> p.e.imm]]
          /\ p.wcs \in Seq(Request) /\ p.wcs # << >>

Shapes ==
    /\ DOMAIN probe = Threads
    /\ probe = [t \in Threads |-> probe[t]]
    /\ \A t \in Threads : Shape(probe[t])
    /\ posts \in Nat /\ last_seq \in Int /\ seq_counter \in Nat
    /\ posted \in SUBSET Request /\ cq \in SUBSET Request
    /\ IsFiniteSet(posted) /\ IsFiniteSet(cq)
    /\ \A wr \in cq \cup Polled : wr.signaled = TRUE

\* Who posts a request has its key alone.
Exclusive ==
    \A u \in In(PostAts), w \in Done \cup In(PostAts) :
       w.signaled /\ Key(w) = Key(u) => w = u

\* What is found under the key of a request is its own.
TsRight == \A w \in Done \cup In({"seq", "imm"}) :
              w.signaled /\ Key(w) \in DOMAIN wr_ts => wr_ts[Key(w)] = w.ts
SeqRight == \A w \in Done \cup In({"imm"}) :
              w.signaled /\ Key(w) \in DOMAIN wr_seq => wr_seq[Key(w)] = w.seq
ImmRight == /\ \A w \in Done : w.signaled /\ Key(w) \in DOMAIN is_imm
                                  => is_imm[Key(w)] = w.imm
            /\ \A k \in DOMAIN is_imm : k[1] = "send"

\* So is what the event has taken.
EventRight(p) ==
    /\ p.at \in {"cqSeq", "cqImm", "submit"} => p.e.ts \in {Head(p.wcs).ts, Unknown}
    /\ p.at \in {"cqImm", "submit"} => p.e.seq \in {Head(p.wcs).seq, Unknown}
    /\ p.at = "submit" => (p.e.imm => Head(p.wcs).imm)

-----------------------------------------------------------------------------
\* What Updated and Deleted leave in a map.
LEMMA UpdatedMap ==
    ASSUME NEW map, NEW key, NEW value
    PROVE  LET m == Updated(map, key, value) IN
           /\ DOMAIN m \subseteq DOMAIN map \cup {key}
           /\ key \in DOMAIN m => m[key] = value
           /\ \A k \in DOMAIN m : k # key => m[k] = map[k]
<1> DEFINE m == Updated(map, key, value)
           new == WithEntry(map, key, value)
<1>1. /\ DOMAIN new = DOMAIN map \cup {key} /\ new[key] = value
      /\ \A k \in DOMAIN map : k # key => new[k] = map[k]
  BY DEF WithEntry
<1> HIDE DEF new
<1>2. m = new \/ (key \notin DOMAIN map /\ m = map)
  BY DEF Updated, new
<1> QED BY <1>1, <1>2

LEMMA DeletedMap ==
    ASSUME NEW map, NEW key
    PROVE  LET m == Deleted(map, key) IN
           /\ DOMAIN m = DOMAIN map \ {key}
           /\ \A k \in DOMAIN m : m[k] = map[k]
BY DEF Deleted, Restrict

\* A completion among those of a thread's probe is one of Polled.
LEMMA PolledElement ==
    ASSUME NEW t \in Threads, probe[t].at \in PollAts, NEW w \in ToSet(probe[t].wcs)
    PROVE  w \in Polled
BY DEF Polled, PollAts

LEMMA HeadTail ==
    ASSUME NEW q \in Seq(Request), q # << >>
    PROVE  /\ Head(q) \in ToSet(q) /\ Head(q) \in Request
           /\ Tail(q) \in Seq(Request) /\ ToSet(Tail(q)) \subseteq ToSet(q)
<1>1. /\ Len(q) \in Nat /\ Len(q) >= 1 /\ Head(q) = q[1] /\ DOMAIN q = 1 .. Len(q)
      /\ Tail(q) \in Seq(Request) /\ Len(Tail(q)) = Len(q) - 1
      /\ DOMAIN Tail(q) = 1 .. Len(Tail(q))
      /\ \A i \in 1 .. Len(q) : q[i] \in Request
  OBVIOUS
<1>2. \A i \in 1 .. Len(Tail(q)) : Tail(q)[i] = q[i + 1] /\ i + 1 \in DOMAIN q
  BY <1>1
<1> QED BY <1>1, <1>2 DEF ToSet

\* A step of one thread adds at most its own requests to each set.
LEMMA DoesSets ==
    ASSUME Shapes, NEW t \in Threads, NEW STATE p, Does(t, p)
    PROVE  /\ \A ats : In(ats)' \subseteq In(ats) \cup (IF p.at \in ats THEN {p.wr} ELSE {})
           /\ Polled' \subseteq Polled \cup (IF p.at \in PollAts THEN ToSet(p.wcs) ELSE {})
           /\ DOMAIN probe' = Threads /\ probe' = [u \in Threads |-> probe'[u]]
           /\ probe'[t] = p /\ \A u \in Threads \ {t} : probe'[u] = probe[u]
<1>1. /\ DOMAIN probe' = Threads /\ probe' = [u \in Threads |-> probe'[u]]
      /\ probe'[t] = p /\ \A u \in Threads \ {t} : probe'[u] = probe[u]
  BY DEF Shapes, Does
<1>2. ASSUME NEW ats
      PROVE  In(ats)' \subseteq In(ats) \cup (IF p.at \in ats THEN {p.wr} ELSE {})
  <2>1. SUFFICES ASSUME NEW u \in Threads, probe'[u].at \in ats
                 PROVE  probe'[u].wr \in In(ats) \cup (IF p.at \in ats THEN {p.wr} ELSE {})
    BY DEF In
  <2>2. CASE u = t
    BY <1>1, <2>1, <2>2
  <2>3. CASE u # t
    BY <1>1, <2>1, <2>3 DEF In
  <2> QED BY <2>2, <2>3
<1>3. Polled' \subseteq Polled \cup (IF p.at \in PollAts THEN ToSet(p.wcs) ELSE {})
  <2>1. SUFFICES ASSUME NEW u \in Threads, probe'[u].at \in PollAts,
                        NEW w \in ToSet(probe'[u].wcs)
                 PROVE  w \in Polled \cup (IF p.at \in PollAts THEN ToSet(p.wcs) ELSE {})
    BY DEF Polled, PollAts
  <2>2. CASE u = t
    BY <1>1, <2>1, <2>2
  <2>3. CASE u # t
    BY <1>1, <2>1, <2>3, PolledElement
  <2> QED BY <2>2, <2>3
<1> QED BY <1>1, <1>2, <1>3

SubMap(m, map) == DOMAIN m \subseteq DOMAIN map /\ \A k \in DOMAIN m : m[k] = map[k]

Rights == Exclusive /\ TsRight /\ SeqRight /\ ImmRight

\* A step that adds no request to any set, and to no map, keeps what is known.
LEMMA RightsKept ==
    ASSUME Rights, Done' \subseteq Done, In(PostAts)' \subseteq In(PostAts),
           In({"seq", "imm"})' \subseteq In({"seq", "imm"}), In({"imm"})' \subseteq In({"imm"}),
           SubMap(wr_ts', wr_ts), SubMap(wr_seq', wr_seq), SubMap(is_imm', is_imm)
    PROVE  Rights'
<1>1. Exclusive'
  BY DEF Rights, Exclusive
<1>2. TsRight'
  BY DEF Rights, TsRight, SubMap
<1>3. SeqRight'
  BY DEF Rights, SeqRight, SubMap
<1>4. ImmRight'
  BY DEF Rights, ImmRight, SubMap
<1> QED BY <1>1, <1>2, <1>3, <1>4 DEF Rights

\* A step of one thread that leaves the requests of the others alone.
LEMMA ShapesKept ==
    ASSUME Shapes, NEW t \in Threads, NEW STATE p, Does(t, p), Shape(p),
           p.at \in PollAts => \A wr \in ToSet(p.wcs) : wr.signaled = TRUE,
           posts' \in Nat, last_seq' \in Int, seq_counter' \in Nat,
           posted' \in SUBSET Request, IsFiniteSet(posted'),
           cq' \subseteq cq
    PROVE  Shapes'
<1>1. /\ Polled' \subseteq Polled \cup (IF p.at \in PollAts THEN ToSet(p.wcs) ELSE {})
      /\ DOMAIN probe' = Threads /\ probe' = [u \in Threads |-> probe'[u]]
      /\ probe'[t] = p /\ \A u \in Threads \ {t} : probe'[u] = probe[u]
  BY DoesSets
<1>2. \A u \in Threads : Shape(probe'[u])
  BY <1>1 DEF Shapes
<1>3. \A wr \in cq' \cup Polled' : wr.signaled = TRUE
  BY <1>1 DEF Shapes
<1>4. IsFiniteSet(cq') /\ cq' \in SUBSET Request
  BY FS_Subset DEF Shapes
<1> QED BY <1>1, <1>2, <1>3, <1>4 DEF Shapes

LEMMA EventsKept ==
    ASSUME Shapes, NEW t \in Threads, NEW STATE p, Does(t, p), EventRight(p),
           \A u \in Threads : EventRight(probe[u])
    PROVE  \A u \in Threads : EventRight(probe'[u])
<1>1. probe'[t] = p /\ \A u \in Threads \ {t} : probe'[u] = probe[u]
  BY DoesSets
<1> QED BY <1>1

RdmaInvParts == Shapes /\ Rights /\ \A t \in Threads : EventRight(probe[t])

LEMMA PostEntryStep ==
    ASSUME RdmaInvParts, NEW t \in Threads, PostEntry(t)
    PROVE  RdmaInvParts'
<1> USE DEF RdmaInvParts
<1>1. PICK side \in {"send", "recv"}, qp \in Qps, id \in WrIds,
           imm \in BOOLEAN, signaled \in BOOLEAN :
         /\ ~InUse(<<side, qp, id>>)
         /\ \A wr \in Posting : wr.side # side \/ wr.qp # qp
         /\ Does(t, [at |-> "ts",
                     wr |-> [side |-> side, qp |-> qp, id |-> id, imm |-> imm,
                             signaled |-> signaled, ts |-> posts,
                             seq |-> last_seq]])
  BY DEF PostEntry
<1> DEFINE wr == [side |-> side, qp |-> qp, id |-> id, imm |-> imm,
                  signaled |-> signaled, ts |-> posts, seq |-> last_seq]
           p == [at |-> "ts", wr |-> wr]
<1>2. wr \in Request /\ wr.side = side /\ wr.qp = qp /\ Key(wr) = <<side, qp, id>>
  BY DEF Request, Key, Shapes
<1>3. p.at = "ts" /\ p.wr = wr /\ p = [at |-> p.at, wr |-> p.wr] /\ Does(t, p)
  BY <1>1
<1> HIDE DEF wr, p
<1>4. /\ posts \in Nat /\ posts' = posts + 1
      /\ UNCHANGED <<wr_ts, wr_seq, is_imm, seq_counter, last_seq, posted, cq>>
  BY DEF PostEntry, Shapes
<1>5. Shape(p)
  BY <1>2, <1>3 DEF Shape, PostAts, PollAts
<1>6. Shapes'
  <2>1. /\ posts' \in Nat /\ last_seq' \in Int /\ seq_counter' \in Nat
        /\ posted' \in SUBSET Request /\ IsFiniteSet(posted') /\ cq' \subseteq cq
    BY <1>4 DEF Shapes
  <2>2. p.at \notin PollAts
    BY <1>3 DEF PollAts
  <2> QED BY <1>3, <1>5, <2>1, <2>2, ShapesKept
<1>7. EventRight(p)
  BY <1>3 DEF EventRight
<1>8. \A u \in Threads : EventRight(probe'[u])
  BY <1>3, <1>7, EventsKept
<1>9. /\ In(PostAts)' \subseteq In(PostAts) \cup {wr}
      /\ In({"seq", "imm"})' \subseteq In({"seq", "imm"})
      /\ In({"imm"})' \subseteq In({"imm"})
      /\ Polled' \subseteq Polled
  BY <1>3, DoesSets DEF PollAts
<1>10. Done' \subseteq Done
  BY <1>4, <1>9 DEF Done
<1>11. Exclusive'
  <2>1. SUFFICES ASSUME NEW u \in In(PostAts)', NEW w \in (Done \cup In(PostAts))',
                        w.signaled, Key(w) = Key(u)
                 PROVE  w = u
    BY DEF Exclusive
  <2>2. w \in Done \cup In(PostAts) \cup {wr} /\ u \in In(PostAts) \cup {wr}
    BY <1>9, <1>10
  <2>3. ASSUME NEW x \in In(PostAts) PROVE Key(x) # Key(wr)
    <3>1. x.side # side \/ x.qp # qp
      BY <1>1 DEF In, Posting, PostAts
    <3> QED BY <1>2, <3>1 DEF Key
  <2>4. ASSUME NEW x \in Done \cup In(PostAts), x.signaled PROVE Key(x) # Key(wr)
    BY <1>1, <1>2, <2>4 DEF InUse, Done, In, Posting, PostAts
  <2> QED BY <2>1, <2>2, <2>3, <2>4 DEF Rights, Exclusive
<1>12. TsRight' /\ SeqRight' /\ ImmRight'
  BY <1>4, <1>9, <1>10 DEF Rights, TsRight, SeqRight, ImmRight
<1> QED BY <1>6, <1>8, <1>11, <1>12 DEF Rights

LEMMA StoreTsStep ==
    ASSUME RdmaInvParts, NEW t \in Threads, StoreTs(t)
    PROVE  RdmaInvParts'
<1> USE DEF RdmaInvParts
<1> DEFINE wr == probe[t].wr
           p == [probe[t] EXCEPT !.at = "seq"]
<1>1. probe[t].at = "ts" /\ wr_ts' = Updated(wr_ts, Key(wr), wr.ts) /\ Does(t, p)
      /\ UNCHANGED <<wr_seq, is_imm, seq_counter, last_seq, posted, cq, posts>>
  BY DEF StoreTs
<1>2. probe[t] = [at |-> probe[t].at, wr |-> wr] /\ wr \in Request
  BY <1>1 DEF Shapes, Shape, PostAts
<1>3. p.at = "seq" /\ p.wr = wr /\ p = [at |-> p.at, wr |-> p.wr]
  BY <1>2
<1>4. wr \in In(PostAts)
  BY <1>1 DEF In, PostAts
<1> HIDE DEF wr, p
<1>5. Shape(p) /\ EventRight(p)
  BY <1>2, <1>3 DEF Shape, EventRight, PostAts, PollAts
<1>6. Shapes'
  BY <1>1, <1>3, <1>5, ShapesKept DEF Shapes, PollAts
<1>7. \A u \in Threads : EventRight(probe'[u])
  BY <1>1, <1>5, EventsKept
<1>8. /\ In(PostAts)' \subseteq In(PostAts)
      /\ In({"seq", "imm"})' \subseteq In({"seq", "imm"}) \cup {wr}
      /\ In({"imm"})' \subseteq In({"imm"})
      /\ Polled' \subseteq Polled
  <2>1. /\ In(PostAts)' \subseteq In(PostAts) \cup {wr}
        /\ In({"seq", "imm"})' \subseteq In({"seq", "imm"}) \cup {wr}
        /\ In({"imm"})' \subseteq In({"imm"})
        /\ Polled' \subseteq Polled
    BY <1>1, <1>3, DoesSets DEF PollAts
  <2> QED BY <1>4, <2>1
<1>9. Done' \subseteq Done
  BY <1>1, <1>8 DEF Done
<1>10. Exclusive'
  BY <1>8, <1>9 DEF Rights, Exclusive
<1>11. TsRight'
  <2>1. SUFFICES ASSUME NEW w \in (Done \cup In({"seq", "imm"}))', w.signaled,
                        Key(w) \in DOMAIN wr_ts'
                 PROVE  wr_ts'[Key(w)] = w.ts
    BY DEF TsRight
  <2>2. w \in Done \cup In({"seq", "imm"}) \cup {wr}
    BY <1>8, <1>9
  <2>3. /\ DOMAIN wr_ts' \subseteq DOMAIN wr_ts \cup {Key(wr)}
        /\ Key(wr) \in DOMAIN wr_ts' => wr_ts'[Key(wr)] = wr.ts
        /\ \A k \in DOMAIN wr_ts' : k # Key(wr) => wr_ts'[k] = wr_ts[k]
    BY <1>1, UpdatedMap
  <2>4. CASE Key(w) = Key(wr)
    <3>1. In({"seq", "imm"}) \subseteq In(PostAts)
      BY DEF In, PostAts
    <3>2. w = wr
      BY <1>4, <2>1, <2>2, <2>4, <3>1 DEF Rights, Exclusive
    <3> QED BY <2>1, <2>3, <3>2
  <2>5. CASE Key(w) # Key(wr)
    <3>1. Key(w) \in DOMAIN wr_ts /\ wr_ts'[Key(w)] = wr_ts[Key(w)]
      BY <2>1, <2>3, <2>5
    <3> QED BY <2>1, <2>2, <2>5, <3>1 DEF Rights, TsRight
  <2> QED BY <2>4, <2>5
<1>12. SeqRight' /\ ImmRight'
  BY <1>1, <1>8, <1>9 DEF Rights, SeqRight, ImmRight
<1> QED BY <1>6, <1>7, <1>10, <1>11, <1>12 DEF Rights

\* A request is posted when its probe has stored all there is to store of it.
LEMMA StoreSeqStep ==
    ASSUME RdmaInvParts, NEW t \in Threads, StoreSeq(t)
    PROVE  RdmaInvParts'
<1> USE DEF RdmaInvParts
<1> DEFINE wr == probe[t].wr
           p == IF wr.side = "send" THEN [probe[t] EXCEPT !.at = "imm"] ELSE Idle
<1>1. /\ probe[t].at = "seq" /\ wr_seq' = Updated(wr_seq, Key(wr), wr.seq) /\ Does(t, p)
      /\ posted' = IF wr.side = "send" THEN posted ELSE posted \cup {wr}
      /\ UNCHANGED <<wr_ts, is_imm, seq_counter, last_seq, cq, posts>>
  BY DEF StoreSeq
<1>2. probe[t] = [at |-> probe[t].at, wr |-> wr] /\ wr \in Request
  BY <1>1 DEF Shapes, Shape, PostAts
<1>3. /\ p.at \in {"imm", "idle"}
      /\ p.at = "imm" => p.wr = wr /\ wr.side = "send" /\ p = [at |-> p.at, wr |-> p.wr]
  BY <1>2 DEF Idle
<1>4. wr \in In(PostAts) /\ wr \in In({"seq", "imm"})
  BY <1>1 DEF In, PostAts
<1> HIDE DEF wr, p
<1>5. Shape(p) /\ EventRight(p)
  BY <1>2, <1>3 DEF Shape, EventRight, PostAts, PollAts
<1>6. Shapes'
  <2>1. /\ posts' \in Nat /\ last_seq' \in Int /\ seq_counter' \in Nat /\ cq' \subseteq cq
        /\ posted' \in SUBSET Request
    BY <1>1, <1>2 DEF Shapes
  <2>2. IsFiniteSet(posted')
    BY <1>1, FS_AddElement DEF Shapes
  <2>3. p.at \notin PollAts
    BY <1>3 DEF PollAts
  <2> QED BY <1>1, <1>5, <2>1, <2>2, <2>3, ShapesKept
<1>7. \A u \in Threads : EventRight(probe'[u])
  BY <1>1, <1>5, EventsKept
<1>8. /\ In(PostAts)' \subseteq In(PostAts)
      /\ In({"seq", "imm"})' \subseteq In({"seq", "imm"})
      /\ In({"imm"})' \subseteq In({"imm"}) \cup {wr}
      /\ Polled' \subseteq Polled
  <2>1. /\ In(PostAts)' \subseteq In(PostAts) \cup {wr}
        /\ In({"seq", "imm"})' \subseteq In({"seq", "imm"}) \cup {wr}
        /\ In({"imm"})' \subseteq In({"imm"}) \cup {wr}
        /\ Polled' \subseteq Polled
    BY <1>1, <1>3, DoesSets DEF PollAts, PostAts
  <2> QED BY <1>4, <2>1
<1>9. Done' \subseteq Done \cup {wr}
  BY <1>1, <1>8 DEF Done
<1>10. Exclusive'
  BY <1>4, <1>8, <1>9 DEF Rights, Exclusive
<1>11. SeqRight'
  <2>1. SUFFICES ASSUME NEW w \in (Done \cup In({"imm"}))', w.signaled,
                        Key(w) \in DOMAIN wr_seq'
                 PROVE  wr_seq'[Key(w)] = w.seq
    BY DEF SeqRight
  <2>2. w \in Done \cup In({"imm"}) \cup {wr}
    BY <1>8, <1>9
  <2>3. /\ DOMAIN wr_seq' \subseteq DOMAIN wr_seq \cup {Key(wr)}
        /\ Key(wr) \in DOMAIN wr_seq' => wr_seq'[Key(wr)] = wr.seq
        /\ \A k \in DOMAIN wr_seq' : k # Key(wr) => wr_seq'[k] = wr_seq[k]
    BY <1>1, UpdatedMap
  <2>4. CASE Key(w) = Key(wr)
    <3>1. In({"imm"}) \subseteq In(PostAts)
      BY DEF In, PostAts
    <3>2. w = wr
      BY <1>4, <2>1, <2>2, <2>4, <3>1 DEF Rights, Exclusive
    <3> QED BY <2>1, <2>3, <3>2
  <2>5. CASE Key(w) # Key(wr)
    <3>1. Key(w) \in DOMAIN wr_seq /\ wr_seq'[Key(w)] = wr_seq[Key(w)]
      BY <2>1, <2>3, <2>5
    <3> QED BY <2>1, <2>2, <2>5, <3>1 DEF Rights, SeqRight
  <2> QED BY <2>4, <2>5
<1>12. TsRight'
  BY <1>1, <1>4, <1>8, <1>9 DEF Rights, TsRight
<1>13. ImmRight'
  <2>1. CASE wr.side = "send"
    <3>1. Done' \subseteq Done
      BY <1>1, <1>8, <2>1 DEF Done
    <3> QED BY <1>1, <3>1 DEF Rights, ImmRight
  <2>2. CASE wr.side # "send"
    <3>1. Key(wr)[1] # "send"
      BY <2>2 DEF Key
    <3>2. Key(wr) \notin DOMAIN is_imm
      BY <3>1 DEF Rights, ImmRight
    <3> QED BY <1>1, <1>9, <3>2 DEF Rights, ImmRight
  <2> QED BY <2>1, <2>2
<1> QED BY <1>6, <1>7, <1>10, <1>11, <1>12, <1>13 DEF Rights

LEMMA StoreImmStep ==
    ASSUME RdmaInvParts, NEW t \in Threads, StoreImm(t)
    PROVE  RdmaInvParts'
<1> USE DEF RdmaInvParts
<1> DEFINE wr == probe[t].wr
           p == Idle
<1>1. /\ probe[t].at = "imm" /\ is_imm' = Updated(is_imm, Key(wr), wr.imm) /\ Does(t, p)
      /\ posted' = posted \cup {wr}
      /\ UNCHANGED <<wr_ts, wr_seq, seq_counter, last_seq, cq, posts>>
  BY DEF StoreImm
<1>2. wr \in Request /\ wr.side = "send"
  BY <1>1 DEF Shapes, Shape, PostAts
<1>3. p.at = "idle"
  BY DEF Idle
<1>4. wr \in In(PostAts) /\ wr \in In({"seq", "imm"}) /\ wr \in In({"imm"})
  BY <1>1 DEF In, PostAts
<1> HIDE DEF wr, p
<1>5. Shape(p) /\ EventRight(p)
  BY <1>3 DEF Shape, EventRight, PostAts, PollAts
<1>6. Shapes'
  <2>1. /\ posts' \in Nat /\ last_seq' \in Int /\ seq_counter' \in Nat /\ cq' \subseteq cq
        /\ posted' \in SUBSET Request
    BY <1>1, <1>2 DEF Shapes
  <2>2. IsFiniteSet(posted')
    BY <1>1, FS_AddElement DEF Shapes
  <2>3. p.at \notin PollAts
    BY <1>3 DEF PollAts
  <2> QED BY <1>1, <1>5, <2>1, <2>2, <2>3, ShapesKept
<1>7. \A u \in Threads : EventRight(probe'[u])
  BY <1>1, <1>5, EventsKept
<1>8. /\ In(PostAts)' \subseteq In(PostAts)
      /\ In({"seq", "imm"})' \subseteq In({"seq", "imm"})
      /\ In({"imm"})' \subseteq In({"imm"})
      /\ Polled' \subseteq Polled
  BY <1>1, <1>3, DoesSets DEF PollAts, PostAts
<1>9. Done' \subseteq Done \cup {wr}
  BY <1>1, <1>8 DEF Done
<1>10. Exclusive'
  BY <1>4, <1>8, <1>9 DEF Rights, Exclusive
<1>11. ImmRight'
  <2>1. /\ DOMAIN is_imm' \subseteq DOMAIN is_imm \cup {Key(wr)}
        /\ Key(wr) \in DOMAIN is_imm' => is_imm'[Key(wr)] = wr.imm
        /\ \A k \in DOMAIN is_imm' : k # Key(wr) => is_imm'[k] = is_imm[k]
    BY <1>1, UpdatedMap
  <2>2. Key(wr)[1] = "send"
    BY <1>2 DEF Key
  <2>3. \A k \in DOMAIN is_imm' : k[1] = "send"
    BY <2>1, <2>2 DEF Rights, ImmRight
  <2>4. ASSUME NEW w \in Done', w.signaled, Key(w) \in DOMAIN is_imm'
        PROVE  is_imm'[Key(w)] = w.imm
    <3>1. CASE Key(w) = Key(wr)
      <4>1. w = wr
        BY <1>4, <1>9, <2>4, <3>1 DEF Rights, Exclusive
      <4> QED BY <2>1, <2>4, <4>1
    <3>2. CASE Key(w) # Key(wr)
      <4>1. Key(w) \in DOMAIN is_imm /\ is_imm'[Key(w)] = is_imm[Key(w)]
        BY <2>1, <2>4, <3>2
      <4> QED BY <1>9, <2>4, <3>2, <4>1 DEF Rights, ImmRight
    <3> QED BY <3>1, <3>2
  <2> QED BY <2>3, <2>4 DEF ImmRight
<1>12. TsRight'
  BY <1>1, <1>4, <1>8, <1>9 DEF Rights, TsRight
<1>13. SeqRight'
  BY <1>1, <1>4, <1>8, <1>9 DEF Rights, SeqRight
<1> QED BY <1>6, <1>7, <1>10, <1>11, <1>12, <1>13 DEF Rights

\* What a poll returns are completions of the queue.
LEMMA PolledAreQueued ==
    ASSUME NEW S, IsFiniteSet(S), S \subseteq Request, NEW wcs \in SetToAllKPermutations(S),
           NEW n \in Nat, n <= Len(wcs)
    PROVE  /\ ToSet(wcs) \subseteq S
           /\ SubSeq(wcs, 1, n) \in Seq(Request) /\ ToSet(SubSeq(wcs, 1, n)) \subseteq S
<1>1. PICK s \in SUBSET S : wcs \in SetToSeqs(s)
  BY DEF SetToAllKPermutations
<1>2. Cardinality(s) \in Nat
  BY FS_Subset, FS_CardinalityType
<1>3. wcs \in [1 .. Cardinality(s) -> s]
  BY <1>1 DEF SetToSeqs
<1>4. wcs \in Seq(S) /\ wcs \in Seq(Request) /\ DOMAIN wcs = 1 .. Cardinality(s)
      /\ Len(wcs) = Cardinality(s)
  BY <1>2, <1>3
<1>5. ToSet(wcs) \subseteq S
  BY <1>3 DEF ToSet
<1> DEFINE q == SubSeq(wcs, 1, n)
<1>6. /\ q \in Seq(Request) /\ DOMAIN q = 1 .. n /\ \A i \in 1 .. n : q[i] = wcs[i]
  BY <1>2, <1>4
<1> HIDE DEF q
<1>7. \A i \in 1 .. n : i \in DOMAIN wcs
  BY <1>2, <1>4
<1>8. ToSet(q) \subseteq ToSet(wcs)
  BY <1>6, <1>7 DEF ToSet
<1> QED BY <1>5, <1>6, <1>8 DEF q

\* The next completion of a poll, or none.
LEMMA ReportingShape ==
    ASSUME NEW q \in Seq(Request)
    PROVE  LET p == Reporting(q) IN
           /\ Shape(p) /\ EventRight(p) /\ p.at \notin PostAts
           /\ p.at \in PollAts => p.wcs = q
<1> DEFINE p == Reporting(q)
<1>1. CASE q = << >>
  <2>1. p.at = "idle"
    BY <1>1 DEF Reporting, Idle
  <2> HIDE DEF p
  <2>2. /\ Shape(p) /\ EventRight(p) /\ p.at \notin PostAts
        /\ p.at \in PollAts => p.wcs = q
    BY <2>1 DEF Shape, EventRight, PostAts, PollAts
  <2> QED BY <2>2 DEF p
<1>2. CASE q # << >>
  <2>1. p = [at |-> "cqTs", wcs |-> q, e |-> [ts |-> Unknown, seq |-> Unknown, imm |-> FALSE]]
    BY <1>2 DEF Reporting, Event
  <2>2. p.at = "cqTs" /\ p.wcs = q /\ p.e.ts = Unknown /\ p.e.seq = Unknown /\ p.e.imm = FALSE
    BY <2>1
  <2> HIDE DEF p
  <2>3. p = [at |-> p.at, wcs |-> p.wcs, e |-> [ts |-> p.e.ts, seq |-> p.e.seq, imm |-> p.e.imm]]
    BY <2>1, <2>2
  <2>4. /\ Shape(p) /\ EventRight(p) /\ p.at \notin PostAts
        /\ p.at \in PollAts => p.wcs = q
    BY <1>2, <2>2, <2>3 DEF Shape, EventRight, PostAts, PollAts
  <2> QED BY <2>4 DEF p
<1> QED BY <1>1, <1>2

\* A step of a probe that posts nothing and takes completions from the queue, or
\* is at some of those of its poll, or at none.
LEMMA PollSide ==
    ASSUME RdmaInvParts, NEW t \in Threads, NEW STATE p, Does(t, p),
           Shape(p), EventRight(p), p.at \notin PostAts,
           p.at \in PollAts => ToSet(p.wcs) \subseteq cq \cup Polled,
           cq' \subseteq cq, posted' = posted, posts' = posts,
           last_seq' \in Int, seq_counter' \in Nat,
           SubMap(wr_ts', wr_ts), SubMap(wr_seq', wr_seq), SubMap(is_imm', is_imm)
    PROVE  RdmaInvParts'
<1> USE DEF RdmaInvParts
<1>1. Shapes'
  <2>1. posts' \in Nat /\ posted' \in SUBSET Request /\ IsFiniteSet(posted')
    BY DEF Shapes
  <2>2. p.at \in PollAts => \A wr \in ToSet(p.wcs) : wr.signaled = TRUE
    BY DEF Shapes
  <2> QED BY <2>1, <2>2, ShapesKept
<1>2. \A u \in Threads : EventRight(probe'[u])
  BY EventsKept
<1>3. /\ In(PostAts)' \subseteq In(PostAts)
      /\ In({"seq", "imm"})' \subseteq In({"seq", "imm"})
      /\ In({"imm"})' \subseteq In({"imm"})
      /\ Polled' \subseteq Polled \cup cq
  BY DoesSets DEF PostAts
<1>4. Done' \subseteq Done
  BY <1>3 DEF Done
<1>5. Rights'
  BY <1>3, <1>4, RightsKept
<1> QED BY <1>1, <1>2, <1>5

LEMMA PollReturnsStep ==
    ASSUME RdmaInvParts, NEW t \in Threads, PollReturns(t)
    PROVE  RdmaInvParts'
<1>1. PICK wcs \in SetToAllKPermutations(cq) :
         /\ cq' = cq \ ToSet(wcs)
         /\ Does(t, Reporting(SubSeq(wcs, 1, IF Len(wcs) < Unrolled
                                             THEN Len(wcs) ELSE Unrolled)))
  BY DEF PollReturns
<1> DEFINE n == IF Len(wcs) < Unrolled THEN Len(wcs) ELSE Unrolled
           q == SubSeq(wcs, 1, n)
           p == Reporting(q)
<1>2. IsFiniteSet(cq) /\ cq \subseteq Request
  BY DEF RdmaInvParts, Shapes
<1>3. Len(wcs) \in Nat
  <2>1. PICK s \in SUBSET cq : wcs \in SetToSeqs(s)
    BY DEF SetToAllKPermutations
  <2>2. Cardinality(s) \in Nat
    BY <1>2, FS_Subset, FS_CardinalityType
  <2>3. wcs \in [1 .. Cardinality(s) -> s]
    BY <2>1 DEF SetToSeqs
  <2>4. wcs \in Seq(s)
    BY <2>2, <2>3
  <2> QED BY <2>4
<1>4. n \in Nat /\ n <= Len(wcs)
  BY <1>3, RdmaProbeAssumption
<1>5. Does(t, p)
  BY <1>1
<1> HIDE DEF n
<1>6. q \in Seq(Request) /\ ToSet(q) \subseteq cq
  BY <1>2, <1>4, PolledAreQueued
<1>7. /\ Shape(p) /\ EventRight(p) /\ p.at \notin PostAts
      /\ p.at \in PollAts => p.wcs = q
  BY <1>6, ReportingShape
<1> HIDE DEF p, q
<1>8. /\ cq' \subseteq cq /\ posted' = posted /\ posts' = posts
      /\ last_seq' \in Int /\ seq_counter' \in Nat
      /\ SubMap(wr_ts', wr_ts) /\ SubMap(wr_seq', wr_seq) /\ SubMap(is_imm', is_imm)
  BY <1>1 DEF PollReturns, SubMap, RdmaInvParts, Shapes
<1> QED BY <1>5, <1>6, <1>7, <1>8, PollSide

\* What the three steps of a completion find, and that its probe stays with it.
LEMMA PollHead ==
    ASSUME RdmaInvParts, NEW t \in Threads, probe[t].at \in PollAts
    PROVE  LET h == Head(probe[t].wcs) IN
           /\ h \in Done /\ h.signaled
           /\ ToSet(probe[t].wcs) \subseteq Polled
           /\ probe[t].wcs \in Seq(Request) /\ probe[t].wcs # << >>
           /\ probe[t] = [at |-> probe[t].at, wcs |-> probe[t].wcs,
                          e |-> [ts |-> probe[t].e.ts, seq |-> probe[t].e.seq,
                                 imm |-> probe[t].e.imm]]
           /\ EventRight(probe[t])
           /\ Lookup(wr_ts, Key(h), Unknown) \in {h.ts, Unknown}
           /\ Lookup(wr_seq, Key(h), Unknown) \in {h.seq, Unknown}
           /\ Lookup(is_imm, Key(h), FALSE) => h.imm
<1> DEFINE h == Head(probe[t].wcs)
<1>1. Shape(probe[t]) /\ EventRight(probe[t])
  BY DEF RdmaInvParts, Shapes
<1>2. /\ probe[t].wcs \in Seq(Request) /\ probe[t].wcs # << >>
      /\ probe[t] = [at |-> probe[t].at, wcs |-> probe[t].wcs,
                     e |-> [ts |-> probe[t].e.ts, seq |-> probe[t].e.seq,
                            imm |-> probe[t].e.imm]]
  BY <1>1 DEF Shape
<1>3. ToSet(probe[t].wcs) \subseteq Polled
  BY PolledElement
<1>4. h \in Polled
  BY <1>2, <1>3, HeadTail
<1>5. h \in Done /\ h.signaled
  BY <1>4 DEF Done, RdmaInvParts, Shapes
<1> HIDE DEF h
<1>6. Lookup(wr_ts, Key(h), Unknown) \in {h.ts, Unknown}
  BY <1>5 DEF Lookup, RdmaInvParts, Rights, TsRight
<1>7. Lookup(wr_seq, Key(h), Unknown) \in {h.seq, Unknown}
  BY <1>5 DEF Lookup, RdmaInvParts, Rights, SeqRight
<1>8. Lookup(is_imm, Key(h), FALSE) => h.imm
  BY <1>5 DEF Lookup, RdmaInvParts, Rights, ImmRight
<1> QED BY <1>1, <1>2, <1>3, <1>5, <1>6, <1>7, <1>8 DEF h

\* The assignments to the place and to one part of the event.
Whole(r) == r = [at |-> r.at, wcs |-> r.wcs,
                 e |-> [ts |-> r.e.ts, seq |-> r.e.seq, imm |-> r.e.imm]]
TookTs(r, x, v) == [r EXCEPT !.at = x, !.e.ts = v]
TookSeq(r, x, v) == [r EXCEPT !.at = x, !.e.seq = v]
TookImm(r, x, v) == [r EXCEPT !.at = x, !.e.imm = v]

LEMMA TakenEvent ==
    ASSUME NEW r, NEW x, NEW v, Whole(r)
    PROVE  /\ TookTs(r, x, v) =
                 [at |-> x, wcs |-> r.wcs, e |-> [ts |-> v, seq |-> r.e.seq, imm |-> r.e.imm]]
           /\ TookSeq(r, x, v) =
                 [at |-> x, wcs |-> r.wcs, e |-> [ts |-> r.e.ts, seq |-> v, imm |-> r.e.imm]]
           /\ TookImm(r, x, v) =
                 [at |-> x, wcs |-> r.wcs, e |-> [ts |-> r.e.ts, seq |-> r.e.seq, imm |-> v]]
<1> DEFINE w == r.wcs
           a == r.e.ts
           b == r.e.seq
           c == r.e.imm
<1>1. r = [at |-> r.at, wcs |-> w, e |-> [ts |-> a, seq |-> b, imm |-> c]]
  BY DEF Whole
<1> HIDE DEF w, a, b, c
<1>2. [r EXCEPT !.at = x] = [at |-> x, wcs |-> w, e |-> [ts |-> a, seq |-> b, imm |-> c]]
  BY <1>1
<1>3. [r EXCEPT !.at = x, !.e.ts = v] = [at |-> x, wcs |-> w, e |-> [ts |-> v, seq |-> b, imm |-> c]]
  <2>1. [r EXCEPT !.at = x, !.e.ts = v] = [[r EXCEPT !.at = x] EXCEPT !.e.ts = v]
    OBVIOUS
  <2>2. [[at |-> x, wcs |-> w, e |-> [ts |-> a, seq |-> b, imm |-> c]] EXCEPT !.e.ts = v] = [at |-> x, wcs |-> w, e |-> [ts |-> v, seq |-> b, imm |-> c]]
    OBVIOUS
  <2> QED BY <1>2, <2>1, <2>2
<1>4. [r EXCEPT !.at = x, !.e.seq = v] = [at |-> x, wcs |-> w, e |-> [ts |-> a, seq |-> v, imm |-> c]]
  <2>1. [r EXCEPT !.at = x, !.e.seq = v] = [[r EXCEPT !.at = x] EXCEPT !.e.seq = v]
    OBVIOUS
  <2>2. [[at |-> x, wcs |-> w, e |-> [ts |-> a, seq |-> b, imm |-> c]] EXCEPT !.e.seq = v] = [at |-> x, wcs |-> w, e |-> [ts |-> a, seq |-> v, imm |-> c]]
    OBVIOUS
  <2> QED BY <1>2, <2>1, <2>2
<1>5. [r EXCEPT !.at = x, !.e.imm = v] = [at |-> x, wcs |-> w, e |-> [ts |-> a, seq |-> b, imm |-> v]]
  <2>1. [r EXCEPT !.at = x, !.e.imm = v] = [[r EXCEPT !.at = x] EXCEPT !.e.imm = v]
    OBVIOUS
  <2>2. [[at |-> x, wcs |-> w, e |-> [ts |-> a, seq |-> b, imm |-> c]] EXCEPT !.e.imm = v] = [at |-> x, wcs |-> w, e |-> [ts |-> a, seq |-> b, imm |-> v]]
    OBVIOUS
  <2> QED BY <1>2, <2>1, <2>2
<1> QED BY <1>3, <1>4, <1>5 DEF w, a, b, c, TookTs, TookSeq, TookImm

\* Each of the three takes the entry of the request at the head.
LEMMA TakeTsStep ==
    ASSUME RdmaInvParts, NEW t \in Threads, TakeTs(t)
    PROVE  RdmaInvParts'
<1> DEFINE key == Key(Head(probe[t].wcs))
           v == Lookup(wr_ts, key, Unknown)
           p == [probe[t] EXCEPT !.at = "cqSeq", !.e.ts = v]
<1>1. /\ probe[t].at = "cqTs" /\ Does(t, p) /\ wr_ts' = Deleted(wr_ts, key)
      /\ UNCHANGED <<wr_seq, is_imm, seq_counter, last_seq, posted, cq, posts>>
  BY DEF TakeTs
<1>2. probe[t].at \in PollAts
  BY <1>1 DEF PollAts
<1>3. /\ ToSet(probe[t].wcs) \subseteq Polled
      /\ probe[t].wcs \in Seq(Request) /\ probe[t].wcs # << >>
      /\ probe[t] = [at |-> probe[t].at, wcs |-> probe[t].wcs,
                     e |-> [ts |-> probe[t].e.ts, seq |-> probe[t].e.seq,
                            imm |-> probe[t].e.imm]]
      /\ EventRight(probe[t])
      /\ Lookup(wr_ts, key, Unknown) \in {Head(probe[t].wcs).ts, Unknown}
  BY <1>2, PollHead
<1> HIDE DEF v
<1>4. /\ p.at = "cqSeq" /\ p.wcs = probe[t].wcs /\ p.e.ts = v
      /\ p.e.seq = probe[t].e.seq
      /\ p.e.imm = probe[t].e.imm
      /\ p = [at |-> p.at, wcs |-> p.wcs,
               e |-> [ts |-> p.e.ts, seq |-> p.e.seq, imm |-> p.e.imm]]
  <2>1. Whole(probe[t])
    BY <1>3 DEF Whole
  <2>2. TookTs(probe[t], "cqSeq", v) =
           [at |-> "cqSeq", wcs |-> probe[t].wcs,
            e |-> [ts |-> v, seq |-> probe[t].e.seq, imm |-> probe[t].e.imm]]
    BY <2>1, TakenEvent
  <2>3. p = TookTs(probe[t], "cqSeq", v)
    BY DEF TookTs
  <2> HIDE DEF p
  <2> QED BY <2>2, <2>3
<1> HIDE DEF p
<1>5. Shape(p) /\ p.at \notin PostAts
  BY <1>3, <1>4 DEF Shape, PostAts, PollAts
<1>6. EventRight(p)
  BY <1>1, <1>3, <1>4 DEF EventRight, v
<1>7. ToSet(p.wcs) \subseteq cq \cup Polled
  BY <1>3, <1>4
<1>8. SubMap(wr_ts', wr_ts) /\ SubMap(wr_seq', wr_seq) /\ SubMap(is_imm', is_imm)
  BY <1>1, DeletedMap DEF SubMap
<1>9. /\ cq' \subseteq cq /\ posted' = posted /\ posts' = posts
      /\ last_seq' \in Int /\ seq_counter' \in Nat
  BY <1>1 DEF RdmaInvParts, Shapes
<1> QED BY <1>1, <1>5, <1>6, <1>7, <1>8, <1>9, PollSide

LEMMA TakeSeqStep ==
    ASSUME RdmaInvParts, NEW t \in Threads, TakeSeq(t)
    PROVE  RdmaInvParts'
<1> DEFINE key == Key(Head(probe[t].wcs))
           v == Lookup(wr_seq, key, Unknown)
           p == [probe[t] EXCEPT !.at = "cqImm", !.e.seq = v]
<1>1. /\ probe[t].at = "cqSeq" /\ Does(t, p) /\ wr_seq' = Deleted(wr_seq, key)
      /\ UNCHANGED <<wr_ts, is_imm, seq_counter, last_seq, posted, cq, posts>>
  BY DEF TakeSeq
<1>2. probe[t].at \in PollAts
  BY <1>1 DEF PollAts
<1>3. /\ ToSet(probe[t].wcs) \subseteq Polled
      /\ probe[t].wcs \in Seq(Request) /\ probe[t].wcs # << >>
      /\ probe[t] = [at |-> probe[t].at, wcs |-> probe[t].wcs,
                     e |-> [ts |-> probe[t].e.ts, seq |-> probe[t].e.seq,
                            imm |-> probe[t].e.imm]]
      /\ EventRight(probe[t])
      /\ Lookup(wr_seq, key, Unknown) \in {Head(probe[t].wcs).seq, Unknown}
  BY <1>2, PollHead
<1> HIDE DEF v
<1>4. /\ p.at = "cqImm" /\ p.wcs = probe[t].wcs /\ p.e.seq = v
      /\ p.e.ts = probe[t].e.ts
      /\ p.e.imm = probe[t].e.imm
      /\ p = [at |-> p.at, wcs |-> p.wcs,
               e |-> [ts |-> p.e.ts, seq |-> p.e.seq, imm |-> p.e.imm]]
  <2>1. Whole(probe[t])
    BY <1>3 DEF Whole
  <2>2. TookSeq(probe[t], "cqImm", v) =
           [at |-> "cqImm", wcs |-> probe[t].wcs,
            e |-> [ts |-> probe[t].e.ts, seq |-> v, imm |-> probe[t].e.imm]]
    BY <2>1, TakenEvent
  <2>3. p = TookSeq(probe[t], "cqImm", v)
    BY DEF TookSeq
  <2> HIDE DEF p
  <2> QED BY <2>2, <2>3
<1> HIDE DEF p
<1>5. Shape(p) /\ p.at \notin PostAts
  BY <1>3, <1>4 DEF Shape, PostAts, PollAts
<1>6. EventRight(p)
  BY <1>1, <1>3, <1>4 DEF EventRight, v
<1>7. ToSet(p.wcs) \subseteq cq \cup Polled
  BY <1>3, <1>4
<1>8. SubMap(wr_ts', wr_ts) /\ SubMap(wr_seq', wr_seq) /\ SubMap(is_imm', is_imm)
  BY <1>1, DeletedMap DEF SubMap
<1>9. /\ cq' \subseteq cq /\ posted' = posted /\ posts' = posts
      /\ last_seq' \in Int /\ seq_counter' \in Nat
  BY <1>1 DEF RdmaInvParts, Shapes
<1> QED BY <1>1, <1>5, <1>6, <1>7, <1>8, <1>9, PollSide

LEMMA TakeImmStep ==
    ASSUME RdmaInvParts, NEW t \in Threads, TakeImm(t)
    PROVE  RdmaInvParts'
<1> DEFINE key == Key(Head(probe[t].wcs))
           v == Lookup(is_imm, key, FALSE)
           p == [probe[t] EXCEPT !.at = "submit", !.e.imm = v]
<1>1. /\ probe[t].at = "cqImm" /\ Does(t, p) /\ is_imm' = Deleted(is_imm, key)
      /\ UNCHANGED <<wr_ts, wr_seq, seq_counter, last_seq, posted, cq, posts>>
  BY DEF TakeImm
<1>2. probe[t].at \in PollAts
  BY <1>1 DEF PollAts
<1>3. /\ ToSet(probe[t].wcs) \subseteq Polled
      /\ probe[t].wcs \in Seq(Request) /\ probe[t].wcs # << >>
      /\ probe[t] = [at |-> probe[t].at, wcs |-> probe[t].wcs,
                     e |-> [ts |-> probe[t].e.ts, seq |-> probe[t].e.seq,
                            imm |-> probe[t].e.imm]]
      /\ EventRight(probe[t])
      /\ (Lookup(is_imm, key, FALSE) => Head(probe[t].wcs).imm)
  BY <1>2, PollHead
<1> HIDE DEF v
<1>4. /\ p.at = "submit" /\ p.wcs = probe[t].wcs /\ p.e.imm = v
      /\ p.e.ts = probe[t].e.ts
      /\ p.e.seq = probe[t].e.seq
      /\ p = [at |-> p.at, wcs |-> p.wcs,
               e |-> [ts |-> p.e.ts, seq |-> p.e.seq, imm |-> p.e.imm]]
  <2>1. Whole(probe[t])
    BY <1>3 DEF Whole
  <2>2. TookImm(probe[t], "submit", v) =
           [at |-> "submit", wcs |-> probe[t].wcs,
            e |-> [ts |-> probe[t].e.ts, seq |-> probe[t].e.seq, imm |-> v]]
    BY <2>1, TakenEvent
  <2>3. p = TookImm(probe[t], "submit", v)
    BY DEF TookImm
  <2> HIDE DEF p
  <2> QED BY <2>2, <2>3
<1> HIDE DEF p
<1>5. Shape(p) /\ p.at \notin PostAts
  BY <1>3, <1>4 DEF Shape, PostAts, PollAts
<1>6. EventRight(p)
  BY <1>1, <1>3, <1>4 DEF EventRight, v
<1>7. ToSet(p.wcs) \subseteq cq \cup Polled
  BY <1>3, <1>4
<1>8. SubMap(wr_ts', wr_ts) /\ SubMap(wr_seq', wr_seq) /\ SubMap(is_imm', is_imm)
  BY <1>1, DeletedMap DEF SubMap
<1>9. /\ cq' \subseteq cq /\ posted' = posted /\ posts' = posts
      /\ last_seq' \in Int /\ seq_counter' \in Nat
  BY <1>1 DEF RdmaInvParts, Shapes
<1> QED BY <1>1, <1>5, <1>6, <1>7, <1>8, <1>9, PollSide

LEMMA SubmitStep ==
    ASSUME RdmaInvParts, NEW t \in Threads, Submit(t)
    PROVE  RdmaInvParts'
<1> DEFINE q == Tail(probe[t].wcs)
           p == Reporting(q)
<1>1. /\ probe[t].at = "submit" /\ Does(t, p)
      /\ UNCHANGED <<wr_ts, wr_seq, is_imm, seq_counter, last_seq, posted, cq, posts>>
  BY DEF Submit
<1>2. probe[t].at \in PollAts
  BY <1>1 DEF PollAts
<1>3. /\ ToSet(probe[t].wcs) \subseteq Polled
      /\ probe[t].wcs \in Seq(Request) /\ probe[t].wcs # << >>
  BY <1>2, PollHead
<1>4. q \in Seq(Request) /\ ToSet(q) \subseteq Polled
  BY <1>3, HeadTail
<1>5. /\ Shape(p) /\ EventRight(p) /\ p.at \notin PostAts
      /\ p.at \in PollAts => p.wcs = q
  BY <1>4, ReportingShape
<1> HIDE DEF p, q
<1>6. /\ cq' \subseteq cq /\ posted' = posted /\ posts' = posts
      /\ last_seq' \in Int /\ seq_counter' \in Nat
      /\ SubMap(wr_ts', wr_ts) /\ SubMap(wr_seq', wr_seq) /\ SubMap(is_imm', is_imm)
  BY <1>1 DEF SubMap, RdmaInvParts, Shapes
<1> QED BY <1>1, <1>4, <1>5, <1>6, PollSide

\* The probe of ncclAllReduce touches no map of requests.
LEMMA CounterStep ==
    ASSUME RdmaInvParts, NEW t \in Threads,
           ReadCounter(t) \/ AddToCounter(t) \/ StoreLast(t)
    PROVE  RdmaInvParts'
<1>1. PICK p : /\ Does(t, p) /\ p.at \in {"add", "last", "idle"}
               /\ p.at # "idle" => p = [at |-> p.at, seq |-> p.seq] /\ p.seq \in Int
  <2>1. seq_counter \in Int
    BY DEF RdmaInvParts, Shapes
  <2>2. CASE ReadCounter(t)
    <3> DEFINE p == [at |-> "add", seq |-> seq_counter]
    <3>1. Does(t, p) /\ p.at = "add" /\ p.seq = seq_counter
      BY <2>2 DEF ReadCounter
    <3> QED BY <2>1, <3>1
  <2>3. CASE AddToCounter(t)
    <3> DEFINE p == [probe[t] EXCEPT !.at = "last"]
    <3>1. Does(t, p)
      BY <2>3 DEF AddToCounter
    <3>2. probe[t] = [at |-> probe[t].at, seq |-> probe[t].seq] /\ probe[t].seq \in Int
      BY <2>3 DEF AddToCounter, RdmaInvParts, Shapes, Shape
    <3>3. p.at = "last" /\ p = [at |-> p.at, seq |-> p.seq] /\ p.seq \in Int
      BY <3>2
    <3> QED BY <3>1, <3>3
  <2>4. CASE StoreLast(t)
    BY <2>4 DEF StoreLast, Idle
  <2> QED BY <2>2, <2>3, <2>4
<1>2. Shape(p) /\ EventRight(p) /\ p.at \notin PostAts /\ p.at \notin PollAts
  BY <1>1 DEF Shape, EventRight, PostAts, PollAts
<1>3. last_seq' \in Int /\ seq_counter' \in Nat
  BY DEF ReadCounter, AddToCounter, StoreLast, RdmaInvParts, Shapes, Shape
<1>4. /\ cq' \subseteq cq /\ posted' = posted /\ posts' = posts
      /\ SubMap(wr_ts', wr_ts) /\ SubMap(wr_seq', wr_seq) /\ SubMap(is_imm', is_imm)
  BY DEF ReadCounter, AddToCounter, StoreLast, SubMap
<1> QED BY <1>1, <1>2, <1>3, <1>4, PollSide

LEMMA AdapterStep ==
    ASSUME RdmaInvParts, AdapterCompletes
    PROVE  RdmaInvParts'
<1>1. PICK wr \in posted :
         /\ posted' = posted \ {wr}
         /\ cq' = IF wr.signaled THEN cq \cup {wr} ELSE cq
  BY DEF AdapterCompletes
<1>2. UNCHANGED <<probe, wr_ts, wr_seq, is_imm, seq_counter, last_seq, posts>>
  BY DEF AdapterCompletes
<1>3. Polled' = Polled /\ \A ats : In(ats)' = In(ats)
  BY <1>2 DEF Polled, In
<1>4. Done' \subseteq Done
  BY <1>1, <1>3 DEF Done
<1>5. IsFiniteSet(posted') /\ IsFiniteSet(cq')
  BY <1>1, FS_RemoveElement, FS_AddElement DEF RdmaInvParts, Shapes
<1>6. wr.signaled \in BOOLEAN
  BY DEF RdmaInvParts, Shapes, Request
<1>7. posted' \in SUBSET Request /\ cq' \in SUBSET Request
  BY <1>1 DEF RdmaInvParts, Shapes
<1>8. \A w \in cq' \cup Polled' : w.signaled = TRUE
  BY <1>1, <1>3, <1>6 DEF RdmaInvParts, Shapes
<1>9. Shapes'
  BY <1>2, <1>5, <1>7, <1>8 DEF RdmaInvParts, Shapes
<1>10. SubMap(wr_ts', wr_ts) /\ SubMap(wr_seq', wr_seq) /\ SubMap(is_imm', is_imm)
  BY <1>2 DEF SubMap
<1>11. Rights'
  BY <1>3, <1>4, <1>10, RightsKept DEF RdmaInvParts
<1> QED BY <1>2, <1>9, <1>11 DEF RdmaInvParts

\* An event has the time, the collective and the immediate of its own request,
\* or none of them: whatever maps of any size have kept of earlier requests,
\* in whatever order the probes of the threads reach them.
THEOREM EventsAreOwn == Spec => []OwnRequest
<1>1. Init => RdmaInvParts
  <2> SUFFICES ASSUME RdmaInit PROVE RdmaInvParts
    BY DEF Init
  <2>1. \A t \in Threads : probe[t].at = "idle"
    BY DEF RdmaInit, Idle
  <2>2. \A t \in Threads : Shape(probe[t]) /\ EventRight(probe[t])
    BY <2>1 DEF Shape, EventRight, PostAts, PollAts
  <2>3. Polled = {} /\ In(PostAts) = {} /\ In({"seq", "imm"}) = {} /\ In({"imm"}) = {}
    BY <2>1 DEF Polled, In, PostAts
  <2>4. Done = {} /\ posted = {} /\ cq = {}
    BY <2>3 DEF Done, RdmaInit
  <2>5. DOMAIN is_imm = {}
    BY DEF RdmaInit
  <2>6. Rights
    BY <2>3, <2>4, <2>5 DEF Rights, Exclusive, TsRight, SeqRight, ImmRight
  <2>7. Unknown \in Int
    BY DEF Unknown
  <2>8. Shapes
    BY <2>2, <2>3, <2>4, <2>7, FS_EmptySet DEF Shapes, RdmaInit
  <2> QED BY <2>2, <2>6, <2>8 DEF RdmaInvParts
<1>2. RdmaInvParts /\ [Next]_<<rdmaVars, ncclVars, tool>> => RdmaInvParts'
  <2> SUFFICES ASSUME RdmaInvParts, [Next]_<<rdmaVars, ncclVars, tool>>
               PROVE  RdmaInvParts'
    OBVIOUS
  <2>1. CASE RdmaNext
    BY <2>1, PostEntryStep, StoreTsStep, StoreSeqStep, StoreImmStep, PollReturnsStep,
       TakeTsStep, TakeSeqStep, TakeImmStep, SubmitStep, CounterStep, AdapterStep
       DEF RdmaNext
  <2>2. CASE UNCHANGED rdmaVars
    BY <2>2 DEF rdmaVars, RdmaInvParts, Shapes, Rights, Exclusive, TsRight, SeqRight,
                ImmRight, Done, In, Polled
  <2> QED BY <2>1, <2>2 DEF Next
<1>3. RdmaInvParts => OwnRequest
  BY DEF RdmaInvParts, EventRight, OwnRequest
<1> QED BY <1>1, <1>2, <1>3, PTL DEF Spec
=============================================================================
