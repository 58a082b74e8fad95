----------------------------- MODULE RdmaProbe -----------------------------
(***************************************************************************)
(* rdma_hook.py, its probes in the kernel.  A probe on post_send or        *)
(* post_recv stores when a work request was posted, the sequence number of *)
(* the last collective and whether it carries an immediate, each in a hash *)
(* map of its own, under the number of the queue pair and the id of the    *)
(* request; the probe on the return of poll_cq looks the three up for each *)
(* completion and takes them out.  Probes of different threads run at the  *)
(* same time: every access to a map is a step.                             *)
(*                                                                         *)
(* The application and the adapter are external.  Assumed of them: one     *)
(* request per call, queue pairs used by one thread at a time and numbered *)
(* apart (the maps know no device), and an id that is free again once its  *)
(* completion has been polled, or at once if it has none; and that no      *)
(* request fails: a failed completion has no valid wc_opcode, by which the *)
(* probe chooses the maps although it has read wc_status.                  *)
(***************************************************************************)
EXTENDS Integers, Sequences, FiniteSets, SequencesExt, Functions

CONSTANTS Threads, Qps, WrIds,
          MapSize,           \* entries of a hash map (65536)
          Unrolled,          \* completions read after one poll (8)
          MaxEntries,        \* ne: completions asked for in one poll
          MaxPosts,          \* bound: requests posted
          MaxCollectives     \* bound: calls of ncclAllReduce

ASSUME RdmaProbeAssumption ==
    {MapSize, Unrolled, MaxEntries, MaxPosts, MaxCollectives} \subseteq Nat

VARIABLES probe,             \* what each thread's probe is about to do
          wr_ts, wr_seq,     \* send_ts_map and recv_ts_map, and so on
          is_imm,            \* send_is_imm_map
          seq_counter, last_seq,
          posted,            \* requests the adapter works on
          cq,                \* completions not yet polled
          posts              \* requests so far: the clock

rdmaVars == <<probe, wr_ts, wr_seq, is_imm, seq_counter, last_seq, posted, cq,
              posts>>

Unknown == -1                \* NO_COLL; no latency

Idle == [at |-> "idle"]

RdmaInit ==
    /\ probe = [t \in Threads |-> Idle]
    /\ wr_ts = << >> /\ wr_seq = << >> /\ is_imm = << >>
    /\ seq_counter = 0 /\ last_seq = Unknown
    /\ posted = {} /\ cq = {} /\ posts = 0

\* The key of a map: the side stands for the map itself.
Key(wr) == <<wr.side, wr.qp, wr.id>>
-----------------------------------------------------------------------------
\* Hash maps.  An entry of a full map is replaced, a new one refused.

WithEntry(map, key, value) ==
    [k \in DOMAIN map \cup {key} |-> IF k = key THEN value ELSE map[k]]

OfSide(map, side) == {k \in DOMAIN map : k[1] = side}

\* Faulty: what is there stays.
UpdatedIfNew(map, key, value) ==
    IF key \in DOMAIN map \/ Cardinality(OfSide(map, key[1])) >= MapSize
    THEN map ELSE WithEntry(map, key, value)

Updated(map, key, value) ==
    IF key \notin DOMAIN map /\ Cardinality(OfSide(map, key[1])) >= MapSize
    THEN map ELSE WithEntry(map, key, value)

Lookup(map, key, default) == IF key \in DOMAIN map THEN map[key] ELSE default

Deleted(map, key) == Restrict(map, DOMAIN map \ {key})

Does(t, p) == probe' = [probe EXCEPT ![t] = p]
-----------------------------------------------------------------------------
\* trace_post_send and trace_post_recv.

Posting == {probe[t].wr :
              t \in {t \in Threads : probe[t].at \in {"ts", "seq", "imm"}}}

Polled == UNION {ToSet(probe[t].wcs) : t \in {t \in Threads : probe[t].at
                                       \in {"cqTs", "cqSeq", "cqImm", "submit"}}}

InUse(key) == \E wr \in posted \cup cq \cup Posting \cup Polled :
                  wr.signaled /\ Key(wr) = key

PostEntry(t) ==
    /\ probe[t] = Idle /\ posts < MaxPosts
    /\ \E side \in {"send", "recv"}, qp \in Qps, id \in WrIds,
          imm \in BOOLEAN, signaled \in BOOLEAN :
         /\ side = "recv" => signaled /\ ~imm
         /\ ~InUse(<<side, qp, id>>)
         /\ \A wr \in Posting : wr.side # side \/ wr.qp # qp
         /\ Does(t, [at |-> "ts",
                     wr |-> [side |-> side, qp |-> qp, id |-> id, imm |-> imm,
                             signaled |-> signaled, ts |-> posts,
                             seq |-> last_seq]])
    /\ posts' = posts + 1
    /\ UNCHANGED <<wr_ts, wr_seq, is_imm, seq_counter, last_seq, posted, cq>>

StoreTs(t) ==
    /\ probe[t].at = "ts"
    /\ wr_ts' = Updated(wr_ts, Key(probe[t].wr), probe[t].wr.ts)
    /\ Does(t, [probe[t] EXCEPT !.at = "seq"])
    /\ UNCHANGED <<wr_seq, is_imm, seq_counter, last_seq, posted, cq, posts>>

StoreSeq(t) ==
    /\ probe[t].at = "seq"
    /\ wr_seq' = Updated(wr_seq, Key(probe[t].wr), probe[t].wr.seq)
    /\ IF probe[t].wr.side = "send"
       THEN Does(t, [probe[t] EXCEPT !.at = "imm"]) /\ UNCHANGED posted
       ELSE Does(t, Idle) /\ posted' = posted \cup {probe[t].wr}
    /\ UNCHANGED <<wr_ts, is_imm, seq_counter, last_seq, cq, posts>>

StoreImm(t) ==
    /\ probe[t].at = "imm"
    /\ is_imm' = Updated(is_imm, Key(probe[t].wr), probe[t].wr.imm)
    /\ Does(t, Idle) /\ posted' = posted \cup {probe[t].wr}
    /\ UNCHANGED <<wr_ts, wr_seq, seq_counter, last_seq, cq, posts>>

\* The adapter.  Only a signaled request has a completion.
AdapterCompletes ==
    /\ \E wr \in posted :
         /\ posted' = posted \ {wr}
         /\ cq' = IF wr.signaled THEN cq \cup {wr} ELSE cq
    /\ UNCHANGED <<probe, wr_ts, wr_seq, is_imm, seq_counter, last_seq, posts>>
-----------------------------------------------------------------------------
\* trace_poll_cq_entry and trace_poll_cq_return: wcs is what the poll returned
\* and e the event for the first of them.  A poll that returns nothing leaves
\* its arguments behind; the thread's next poll replaces them.

Event == [ts |-> Unknown, seq |-> Unknown, imm |-> FALSE]

Reporting(wcs) ==
    IF wcs = << >> THEN Idle ELSE [at |-> "cqTs", wcs |-> wcs, e |-> Event]

PollReturns(t) ==
    /\ probe[t] = Idle
    /\ \E wcs \in SetToAllKPermutations(cq) :
         /\ wcs # << >> /\ Len(wcs) <= MaxEntries
         /\ cq' = cq \ ToSet(wcs)
         /\ Does(t, Reporting(SubSeq(wcs, 1, IF Len(wcs) < Unrolled
                                             THEN Len(wcs) ELSE Unrolled)))
    /\ UNCHANGED <<wr_ts, wr_seq, is_imm, seq_counter, last_seq, posted, posts>>

TakeTs(t) ==
    /\ probe[t].at = "cqTs"
    /\ LET key == Key(Head(probe[t].wcs)) IN
       /\ Does(t, [probe[t] EXCEPT !.at = "cqSeq",
                                   !.e.ts = Lookup(wr_ts, key, Unknown)])
       /\ wr_ts' = Deleted(wr_ts, key)
    /\ UNCHANGED <<wr_seq, is_imm, seq_counter, last_seq, posted, cq, posts>>

TakeSeq(t) ==
    /\ probe[t].at = "cqSeq"
    /\ LET key == Key(Head(probe[t].wcs)) IN
       /\ Does(t, [probe[t] EXCEPT !.at = "cqImm",
                                   !.e.seq = Lookup(wr_seq, key, Unknown)])
       /\ wr_seq' = Deleted(wr_seq, key)
    /\ UNCHANGED <<wr_ts, is_imm, seq_counter, last_seq, posted, cq, posts>>

TakeImm(t) ==
    /\ probe[t].at = "cqImm"
    /\ LET key == Key(Head(probe[t].wcs)) IN
       /\ Does(t, [probe[t] EXCEPT !.at = "submit",
                                   !.e.imm = Lookup(is_imm, key, FALSE)])
       /\ is_imm' = Deleted(is_imm, key)
    /\ UNCHANGED <<wr_ts, wr_seq, seq_counter, last_seq, posted, cq, posts>>

Submit(t) ==
    /\ probe[t].at = "submit"
    /\ Does(t, Reporting(Tail(probe[t].wcs)))
    /\ UNCHANGED <<wr_ts, wr_seq, is_imm, seq_counter, last_seq, posted, cq,
                   posts>>
-----------------------------------------------------------------------------
\* trace_nccl_allreduce: the counter is read and then added to.

ReadCounter(t) ==
    /\ probe[t] = Idle /\ seq_counter < MaxCollectives
    /\ Does(t, [at |-> "add", seq |-> seq_counter])
    /\ UNCHANGED <<wr_ts, wr_seq, is_imm, seq_counter, last_seq, posted, cq,
                   posts>>

AddToCounter(t) ==
    /\ probe[t].at = "add"
    /\ seq_counter' = seq_counter + 1
    /\ Does(t, [probe[t] EXCEPT !.at = "last"])
    /\ UNCHANGED <<wr_ts, wr_seq, is_imm, last_seq, posted, cq, posts>>

StoreLast(t) ==
    /\ probe[t].at = "last"
    /\ last_seq' = probe[t].seq
    /\ Does(t, Idle)
    /\ UNCHANGED <<wr_ts, wr_seq, is_imm, seq_counter, posted, cq, posts>>

RdmaNext ==
    \/ AdapterCompletes
    \/ \E t \in Threads :
         \/ PostEntry(t) \/ StoreTs(t) \/ StoreSeq(t) \/ StoreImm(t)
         \/ PollReturns(t) \/ TakeTs(t) \/ TakeSeq(t) \/ TakeImm(t) \/ Submit(t)
         \/ ReadCounter(t) \/ AddToCounter(t) \/ StoreLast(t)
-----------------------------------------------------------------------------
\* A completion is reported with the time, the collective and the immediate of
\* its own request or with none: never with those of an earlier one of the
\* same id, be it one without completion, one that a poll returned beyond what
\* the probe reads, or one whose maps were full (trace_poll_cq_return).
OwnRequest ==
    \A t \in Threads : probe[t].at = "submit" =>
      LET wr == Head(probe[t].wcs)  e == probe[t].e IN
      /\ e.ts \in {wr.ts, Unknown} /\ e.seq \in {wr.seq, Unknown}
      /\ e.imm => wr.imm
=============================================================================
