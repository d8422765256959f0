----------------------------- MODULE ShmRestart -----------------------------
(***************************************************************************)
(* A ring whose processes come and go.  The trader is the client of both   *)
(* rings: it opens an existing file and inherits the offsets it finds.     *)
(* The broker owns both files: create_owner truncates the file and zeroes  *)
(* the header while a trader may still have it mapped (opening with        *)
(* truncate keeps the inode, and compose restarts the broker alone).       *)
(*                                                                         *)
(* owner says which end of the ring the broker is: it writes the events    *)
(* ring and reads the commands ring.                                       *)
(***************************************************************************)
EXTENDS ShmRing

CONSTANT MaxCrashes     \* bound: process deaths in one behaviour

ASSUME RestartAssumption == MaxCrashes \in Nat

VARIABLES
    owner,      \* "producer" (events ring) or "consumer" (commands ring)
    deaths,     \* deaths of either process so far
    boot,       \* how far the broker's create_owner has come
    hit         \* history: some broker restart caught the trader inside a ring
                \* operation, between its load of an offset and its store

rvars == << vars, owner, deaths, boot, hit >>

MayDie == deaths.trader + deaths.broker < MaxCrashes
TraderDies == MayDie /\ deaths' = [deaths EXCEPT !.trader = @ + 1]
BrokerDies == MayDie /\ deaths' = [deaths EXCEPT !.broker = @ + 1]

ResetProducer ==
    /\ pc' = "idle" /\ pw' = 0 /\ frame' = << >> /\ copied' = 0 /\ frames_dropped' = 0

ResetConsumer ==
    /\ cpc' = "poll" /\ cr' = 0 /\ avail' = 0 /\ chunk' = << >> /\ buf' = << >>

\* Mutant of ClientRestart: open_client clears the client's own offset.
ClientRestartRewinding ==
    /\ TraderDies
    /\ IF owner = "producer"
       THEN ResetConsumer /\ r' = 0 /\ UNCHANGED << w, producerVars >>
       ELSE ResetProducer /\ w' = 0 /\ UNCHANGED << r, consumerVars >>
    /\ UNCHANGED << mem, fifo, history, owner, boot, hit >>

\* The trader dies between any two of its steps and a new one maps the ring
\* with open_client: shared memory survives, its locals do not.
ClientRestart ==
    /\ TraderDies
    /\ IF owner = "producer"
       THEN ResetConsumer /\ UNCHANGED producerVars
       ELSE ResetProducer /\ UNCHANGED consumerVars
    /\ UNCHANGED << ringVars, history, owner, boot, hit >>

ClientInsideOp ==
    IF owner = "producer" THEN cpc \in {"copy", "store"}
                              ELSE pc \in {"copy", "publish"}

\* Mutant of TruncateFile: the file left by the previous broker is reused.
ReuseFile ==
    /\ boot = "up"
    /\ BrokerDies
    /\ hit' = (hit \/ ClientInsideOp)
    /\ IF owner = "producer"
       THEN ResetProducer /\ UNCHANGED consumerVars
       ELSE ResetConsumer /\ UNCHANGED producerVars
    /\ log' = << >> /\ sent' = << >> /\ refused' = << >> /\ got' = << >> /\ delivered' = << >>
    /\ UNCHANGED << ringVars, owner, boot >>

\* The broker dies and its successor runs create_owner on the same path.  The
\* trader keeps its mapping and whatever it was doing.  Truncating and growing
\* the file zeroes header and data at once; a new stream begins.
TruncateFile ==
    /\ boot = "up"
    /\ BrokerDies
    /\ boot' = "truncated"
    /\ w' = 0 /\ r' = 0
    /\ mem' = [i \in 0 .. Capacity - 1 |-> 0]
    /\ UNCHANGED << fifo, owner >>
    /\ hit' = (hit \/ ClientInsideOp)
    /\ IF owner = "producer"
       THEN ResetProducer /\ UNCHANGED consumerVars
       ELSE ResetConsumer /\ UNCHANGED producerVars
    /\ log' = << >> /\ sent' = << >> /\ refused' = << >> /\ got' = << >> /\ delivered' = << >>

\* store_write(0): also takes back what a trader published since.
ZeroWriteOffset ==
    /\ boot = "truncated"
    /\ boot' = "write_zeroed"
    /\ w' = 0
    /\ log' = << >> /\ sent' = << >>
    /\ hit' = (hit \/ ClientInsideOp)
    /\ UNCHANGED << r, mem, fifo, producerVars, consumerVars,
                    refused, got, delivered, owner, deaths >>

\* store_read(0), after which the new broker uses the ring.
ZeroReadOffset ==
    /\ boot = "write_zeroed"
    /\ boot' = "up"
    /\ r' = 0
    /\ UNCHANGED << w, mem, fifo, producerVars, consumerVars, history, owner, deaths, hit >>

OwnerRestart == TruncateFile \/ ZeroWriteOffset \/ ZeroReadOffset

\* The owner's side of the ring stands still while it boots.
RingStep ==
    /\ \/ Producer /\ (boot = "up" \/ owner = "consumer")
       \/ Consumer /\ (boot = "up" \/ owner = "producer")
    /\ UNCHANGED << owner, deaths, boot, hit >>

RInit ==
    /\ Init
    /\ owner \in {"producer", "consumer"}
    /\ deaths = [trader |-> 0, broker |-> 0]
    /\ boot = "up" /\ hit = FALSE

RNext == RingStep \/ ClientRestart \/ OwnerRestart

RestartSpec == RInit /\ [][RNext]_rvars

-----------------------------------------------------------------------------
(* Properties *)

\* Whenever the trader dies, what is handled is still made of whole messages
\* the producer accepted: no crash point leaves a torn frame between the
\* offsets.
NoTornFrame ==
    deaths.broker = 0 =>
        \A i \in 1 .. Len(delivered) : \E j \in 1 .. Len(sent) : delivered[i] = sent[j]

\* A trader that dies at any point of a write to the commands ring leaves no
\* trace of it: the broker handles the accepted commands once and in order.
CommandsSurvive ==
    owner = "consumer" /\ deaths.broker = 0 => DeliveredInOrder

\* The bytes between the offsets are the published ones.
UnreadIntact ==
    \A o \in r .. w - 1 : o < Len(log) /\ mem[o % Capacity] = log[o + 1]

\* Both sides work from one coherent pair of offsets: the reader is never
\* ahead of the writer nor more than a ring behind it.
OffsetsCoherent == r <= w /\ w - r <= Capacity

\* Neither trader deaths, nor broker restarts that find the trader between
\* two ring operations, disturb the offsets or a byte still to be read.
RestartHarmlessOutsideOps ==
    boot = "up" => hit \/ (OffsetsCoherent /\ UnreadIntact)

\* ring.rs: after create_owner everyone sees "a clean (0, 0) state".
CleanAfterRestart == boot = "up" => OffsetsCoherent

\* main.rs: the hot loop skips a drain it cannot unpack and goes on: no
\* unpackable-for-ever prefix stays in its buffer.
BadDrainSkipped == cpc = "poll" => unpack_all_frames(buf).ok
=============================================================================
