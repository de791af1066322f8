-------------------------- MODULE MarketData_proofs --------------------------
(***************************************************************************)
(* The ring between two processes and the book between two threads yield   *)
(* whole quotes, and the book at rest is current, for every capacity,      *)
(* every set of keys and any number of quotes and lives of the writer.     *)
(*                                                                         *)
(* The argument: a record whose committed_sequence is not zero is whole,   *)
(* and a number that the writer has passed is never committed again in the *)
(* same life.  So a reader that finds its number before and after the copy *)
(* has copied one quote; one that does not find it will never find it, and *)
(* may pass over it.                                                       *)
(***************************************************************************)
EXTENDS MarketData, TLAPS

Values == Quotes \cup {NoQuote}
Cells == 0 .. Capacity - 1
Numbers == 1 .. MaxSequence
Items == [front : Values, back : Values, seq : Numbers]

CursorType == [gen : 0 .. MaxGenerations, seq : 0 .. MaxSequence]
FeedType ==
    [pc : FeedSteps, gen : 0 .. MaxGenerations, latest : 0 .. MaxSequence,
     at : 0 .. MaxSequence + 1, seq : 0 .. MaxSequence, front : Values, back : Values,
     buffer : Seq(Items), todo : SUBSET Keys, failed : BOOLEAN]
SlotType == [version : Nat, front : Values, back : Values, seq : 0 .. MaxSequence, shown : BOOLEAN]
StatusType == [mapped : BOOLEAN, gen : 0 .. MaxGenerations, last : 0 .. MaxSequence]
ApiType == [pc : ApiSteps, key : Keys, before : Nat, front : Values, back : Values, shown : BOOLEAN]

Types ==
    /\ header \in [magic : BOOLEAN, gen : 0 .. MaxGenerations, published : 0 .. MaxSequence]
    /\ record \in [Cells -> [committed : 0 .. MaxSequence, seq : 0 .. MaxSequence,
                             front : Values, back : Values]]
    /\ writer \in [pc : WriterSteps, gen : 0 .. MaxGenerations, seq : 0 .. MaxSequence,
                   at : 0 .. Capacity, key : Keys]
    /\ cursor \in CursorType /\ feed \in FeedType
    /\ slot \in [Keys -> SlotType] /\ status \in StatusType /\ api \in ApiType

-----------------------------------------------------------------------------
(* The ring *)

Starting == {"zeroing", "magic", "generation"}
Overwriting == {"invalidate", "front", "back", "commit"}
\* The writer runs, and readers may know its life.
Live == writer.pc \in Overwriting \cup {"publish", "idle"}
\* The writer has passed number n in this life: it will not commit it any more.
Past(n) == n < writer.seq \/ (n = writer.seq /\ writer.pc \notin Overwriting)
\* Number n can be read from its record.
InRing(n) == record[Cell(n)].committed = n
\* The records of earlier lives are gone.
Settled == header.gen # 0 \/ writer.pc \in {"magic", "generation"}

\* Where the writer is, and what the header says of it.
WriterInv ==
    /\ header.gen \in {0, writer.gen}
    /\ writer.pc # "down" => writer.gen # 0
    /\ writer.pc \in Starting => header.gen = 0 /\ writer.seq = 0
    /\ writer.pc = "zeroing" => writer.at < Capacity
    /\ Live => header.gen = writer.gen
    /\ writer.pc \in Overwriting \cup {"publish"} => writer.seq # 0
    /\ Past(header.published)
    /\ writer.pc = "idle" => header.published = writer.seq
\* A committed record is whole and in its cell; the record being written is not committed.
RecordInv ==
    /\ \A i \in Cells : record[i].committed # 0 =>
        /\ Cell(record[i].committed) = i
        /\ record[i].seq = record[i].committed
        /\ record[i].back.seq = record[i].committed
        /\ record[i].front = record[i].back
    /\ writer.pc \in {"front", "back", "commit"} => record[Target].committed = 0
    /\ writer.pc \in {"back", "commit"} => record[Target].seq = writer.seq /\ record[Target].front = Quote
    /\ writer.pc = "commit" => record[Target].back = Quote
\* What this life has written, and what it has wiped.
LifeInv ==
    /\ Settled => \A i \in Cells : /\ Past(record[i].committed)
                                   /\ record[i].back = NoQuote \/ record[i].back.gen = writer.gen
    /\ writer.pc = "zeroing" => \A i \in Cells : i < writer.at => record[i] = Zero
    /\ writer.pc \in {"magic", "generation"} => \A i \in Cells : record[i] = Zero
\* The ring holds the last Capacity numbers, and no others.
WindowInv ==
    Live =>
        /\ \A n \in Numbers : Past(n) /\ writer.seq < n + Capacity => InRing(n)
        /\ \A i \in Cells : record[i].committed # 0 =>
              \/ writer.seq < record[i].committed + Capacity
              \/ writer.pc = "invalidate" /\ writer.seq = record[i].committed + Capacity

RingInv == WriterInv /\ RecordInv /\ LifeInv /\ WindowInv
-----------------------------------------------------------------------------
(* The feed *)

Reading == {"check", "front", "back", "recheck"}
Booking == {"book", "bookFront", "bookBack"}
Clearing == {"clear", "cleared"}
Cleared == CHOOSE k \in feed.todo : TRUE
\* The life with number g is the present one and its ring can be read.
Present(g) == g # 0 /\ g = writer.gen

\* Where the feed is in a pass.
PassInv ==
    /\ feed.pc \in Reading =>
        /\ feed.gen # 0 /\ cursor.gen = feed.gen
        /\ cursor.seq < feed.at /\ feed.at <= feed.latest
        /\ Len(feed.buffer) + feed.latest - feed.at < Capacity
    /\ Len(feed.buffer) <= Capacity
    /\ feed.buffer # <<>> =>
        /\ feed.gen # 0 /\ cursor.gen = feed.gen
        /\ feed.pc \in Reading \cup {"status"} \cup Clearing \cup Booking
    /\ feed.pc \in {"bookFront", "bookBack"} => feed.buffer # <<>>
    /\ feed.pc = "cleared" => feed.todo # {}
    /\ feed.failed => feed.pc \in Clearing /\ feed.buffer = <<>>
    /\ feed.pc = "recheck" => feed.back = NoQuote \/ feed.back.gen >= feed.gen
    /\ \A j \in 1 .. Len(feed.buffer) :
        feed.buffer[j].back # NoQuote /\ feed.buffer[j].back.gen >= feed.gen
\* What the feed knows of the writer's life.
LifeKnown ==
    /\ feed.gen <= writer.gen /\ cursor.gen <= writer.gen
    /\ Present(feed.gen) => header.gen = writer.gen
    /\ Present(cursor.gen) => header.gen = writer.gen
    /\ feed.pc \in Reading /\ Present(feed.gen) => Past(feed.latest)
    /\ Present(cursor.gen) => Past(cursor.seq)
    /\ \A i \in Cells : record[i].back = NoQuote \/ record[i].back.gen >= feed.gen
\* A copy whose record still has its number is a copy of that record.
CopyInv ==
    Present(feed.gen) /\ InRing(feed.at) =>
        /\ feed.pc \in {"back", "recheck"} =>
              feed.seq = record[Cell(feed.at)].seq /\ feed.front = record[Cell(feed.at)].front
        /\ feed.pc = "recheck" => feed.back = record[Cell(feed.at)].back
-----------------------------------------------------------------------------
(* The book *)

\* The slot that the feed is writing.
Busy(k) ==
    \/ feed.pc = "cleared" /\ k = Cleared
    \/ feed.pc \in {"bookFront", "bookBack"} /\ k = Key
Awaiting(k) == feed.pc \in Clearing /\ k \in feed.todo

SlotInv ==
    /\ \A k \in Keys : slot[k].version % 2 = IF Busy(k) THEN 1 ELSE 0
    /\ \A k \in Keys : slot[k].seq # 0 => slot[k].shown \/ (feed.pc = "cleared" /\ k = Cleared)
    /\ feed.pc = "cleared" => ~slot[Cleared].shown
    /\ feed.pc \in {"bookFront", "bookBack"} => slot[Key].seq <= Current.seq
\* The generation of the book.
StatusInv ==
    /\ cursor.gen = 0 => status.gen = 0
    /\ status.gen = 0 => \A k \in Keys : ~slot[k].shown
    /\ feed.pc \in {"open", "generation", "latest"} \cup Clearing \cup Booking => status.gen = cursor.gen
    /\ \A k \in Keys : slot[k].shown => slot[k].back.gen >= status.gen \/ Awaiting(k)
\* A reader of the book whose version is still the same has copied what is there.
ApiInv ==
    api.pc \in {"front", "back", "after"} =>
        /\ api.before % 2 = 0 /\ api.before <= slot[api.key].version
        /\ api.before = slot[api.key].version =>
            /\ api.pc \in {"back", "after"} => api.front = slot[api.key].front
            /\ api.pc = "after" => api.back = slot[api.key].back /\ api.shown = slot[api.key].shown
-----------------------------------------------------------------------------
(* What has been read, relative to what the ring holds *)

\* q is what the writer has published under number n.
Genuine(q, n) == n \in Numbers /\ q.seq = n /\ Past(n) /\ (InRing(n) => record[Cell(n)].back = q)
GenuineInv ==
    /\ Present(feed.gen) => \A j \in 1 .. Len(feed.buffer) : Genuine(feed.buffer[j].back, feed.buffer[j].seq)
    /\ Present(cursor.gen) /\ status.gen = cursor.gen =>
        \A k \in Keys : slot[k].shown /\ ~Awaiting(k) => slot[k].back.key = k /\ Genuine(slot[k].back, slot[k].seq)

Buffered(n) == \E j \in 1 .. Len(feed.buffer) : feed.buffer[j].seq = n
Booked(n) == LET k == record[Cell(n)].back.key IN slot[k].shown /\ slot[k].seq >= n
\* The cursor is right: what it has passed and is still in the ring is in the book or on its way.
Dealt(n) ==
    /\ feed.pc \in {"open", "generation", "latest"} \cup Reading /\ n <= cursor.seq =>
          status.gen = cursor.gen /\ Booked(n)
    /\ feed.pc \in Reading /\ cursor.seq < n /\ n < feed.at => Buffered(n)
    /\ feed.pc = "status" /\ n <= cursor.seq => Buffered(n) \/ (status.gen = cursor.gen /\ Booked(n))
    /\ feed.pc \in Clearing /\ n <= cursor.seq => Buffered(n)
    /\ feed.pc \in Booking /\ n <= cursor.seq => Buffered(n) \/ Booked(n)
CoverInv ==
    Live /\ Present(cursor.gen) => \A n \in Numbers : InRing(n) => Dealt(n)

MInv ==
    /\ Types /\ RingInv /\ PassInv /\ LifeKnown /\ CopyInv
    /\ SlotInv /\ StatusInv /\ ApiInv /\ GenuineInv /\ CoverInv

-----------------------------------------------------------------------------
(* Cells *)

\* Numbers in the same cell are a multiple of the capacity apart.
LEMMA CellInCells == \A n \in Numbers : Cell(n) \in Cells
  <1> SUFFICES ASSUME NEW n \in Numbers PROVE Cell(n) \in Cells
    OBVIOUS
  <1>1. n - 1 \in Int /\ Capacity \in Nat \ {0}
    BY RingAssumption DEF Numbers
  <1>2. (n - 1) % Capacity \in 0 .. Capacity - 1
    BY <1>1
  <1> QED BY <1>2 DEF Cell, Cells

LEMMA CellDistinct ==
    ASSUME NEW m \in Numbers, NEW n \in Numbers, Cell(m) = Cell(n), m < n
    PROVE  m + Capacity <= n
  <1>1. Capacity \in Nat \ {0} /\ m \in Int /\ n \in Int
    BY RingAssumption DEF Numbers
  <1> DEFINE a == (m - 1) \div Capacity
             b == (n - 1) \div Capacity
  <1>2. a \in Int /\ b \in Int /\ m - 1 = Capacity * a + Cell(m) /\ n - 1 = Capacity * b + Cell(n)
    BY <1>1 DEF Cell
  <1> HIDE DEF a, b
  <1>3. n - m = Capacity * (b - a)
    BY <1>1, <1>2 DEF Cell
  <1>4. b - a > 0
    BY <1>1, <1>2, <1>3
  <1>5. Capacity * (b - a) >= Capacity
    BY <1>1, <1>2, <1>4
  <1> QED BY <1>1, <1>3, <1>5

LEMMA CellAgain ==
    ASSUME NEW m \in Numbers, NEW n \in Numbers, n = m + Capacity
    PROVE  Cell(m) = Cell(n)
  <1>1. Capacity \in Nat \ {0} /\ m \in Int /\ n \in Int
    BY RingAssumption DEF Numbers
  <1> DEFINE a == (m - 1) \div Capacity
             b == (n - 1) \div Capacity
  <1>2. /\ a \in Int /\ b \in Int /\ m - 1 = Capacity * a + Cell(m) /\ n - 1 = Capacity * b + Cell(n)
        /\ Cell(m) \in 0 .. Capacity - 1 /\ Cell(n) \in 0 .. Capacity - 1
    BY <1>1 DEF Cell
  <1> HIDE DEF a, b
  <1>3. Cell(n) - Cell(m) = Capacity * (a + 1 - b)
    BY <1>1, <1>2
  <1>4. a + 1 - b = 0
    <2>1. CASE a + 1 - b > 0
      <3>1. Capacity * (a + 1 - b) >= Capacity
        BY <1>1, <1>2, <2>1
      <3> QED BY <1>1, <1>2, <1>3, <3>1
    <2>2. CASE a + 1 - b < 0
      <3>1. Capacity * (a + 1 - b) <= -Capacity
        BY <1>1, <1>2, <2>2
      <3> QED BY <1>1, <1>2, <1>3, <3>1
    <2> QED BY <1>2, <2>1, <2>2
  <1> QED BY <1>1, <1>2, <1>3, <1>4

-----------------------------------------------------------------------------
(* The writer *)

WriterActs == PublishBegin \/ WriterStep \/ WriterDies

LEMMA Constants ==
    /\ Capacity \in Nat /\ Capacity > 0 /\ MaxSequence \in Nat /\ MaxGenerations \in Nat
    /\ NoQuote \in Values /\ NoQuote.gen = 0 /\ NoQuote.seq = 0 /\ NoQuote.key \in Keys
    /\ \A q \in Values : /\ q.gen \in 0 .. MaxGenerations /\ q.seq \in 0 .. MaxSequence /\ q.key \in Keys
                         /\ q # NoQuote => q.gen # 0 /\ q.seq \in Numbers
    /\ Zero.committed = 0 /\ Zero.seq = 0 /\ Zero.front = NoQuote /\ Zero.back = NoQuote
    /\ Zero \in [committed : 0 .. MaxSequence, seq : 0 .. MaxSequence, front : Values, back : Values]
  <1>1. Capacity \in Nat /\ Capacity > 0 /\ MaxSequence \in Nat /\ MaxGenerations \in Nat
    BY RingAssumption
  <1>2. NoQuote \in Values /\ NoQuote.gen = 0 /\ NoQuote.seq = 0 /\ NoQuote.key \in Keys
    BY RingAssumption DEF Values, NoQuote
  <1>3. \A q \in Values : /\ q.gen \in 0 .. MaxGenerations /\ q.seq \in 0 .. MaxSequence /\ q.key \in Keys
                          /\ q # NoQuote => q.gen # 0 /\ q.seq \in Numbers
    BY <1>1, <1>2 DEF Values, Quotes, Numbers
  <1>4. /\ Zero.committed = 0 /\ Zero.seq = 0 /\ Zero.front = NoQuote /\ Zero.back = NoQuote
        /\ Zero \in [committed : 0 .. MaxSequence, seq : 0 .. MaxSequence, front : Values, back : Values]
    BY <1>1, <1>2 DEF Zero
  <1> QED BY <1>1, <1>2, <1>3, <1>4

\* The record and the quote that the writer is at.
LEMMA AtTarget ==
    ASSUME Types, WriterInv, writer.pc \in Overwriting \cup {"publish"}
    PROVE  /\ writer.seq \in Numbers /\ Target \in Cells /\ Target = Cell(writer.seq)
           /\ Quote \in Values /\ Quote # NoQuote
           /\ Quote.seq = writer.seq /\ Quote.gen = writer.gen /\ Quote.key = writer.key
  <1>0. /\ writer.seq \in 0 .. MaxSequence /\ writer.gen \in 0 .. MaxGenerations /\ writer.key \in Keys
        /\ writer.seq # 0 /\ writer.gen # 0
    BY DEF Types, WriterInv, Overwriting
  <1>1. writer.seq \in Numbers /\ writer.gen \in 1 .. MaxGenerations /\ writer.key \in Keys
    BY <1>0, Constants DEF Numbers
  <1>2. Quote \in Quotes
    BY <1>1 DEF Quote, Quotes, Numbers
  <1>3. Quote.seq = writer.seq /\ Quote.gen = writer.gen /\ Quote.key = writer.key
    BY DEF Quote
  <1>4. Quote # NoQuote
    BY <1>1, <1>3, Constants
  <1> QED BY <1>1, <1>2, <1>3, <1>4, CellInCells DEF Target, Values

\* What each step writes into the ring.
LEMMA RecordWrites ==
    ASSUME Types, WriterInv, WriterActs
    PROVE  /\ record' \in [Cells -> [committed : 0 .. MaxSequence, seq : 0 .. MaxSequence,
                                     front : Values, back : Values]]
           /\ writer.pc \in {"invalidate", "front", "back", "commit"} =>
                 \A i \in Cells : i # Target => record'[i] = record[i]
           /\ Invalidate => /\ record'[Target].committed = 0
           /\ WriteFront => /\ record'[Target].committed = record[Target].committed
                            /\ record'[Target].seq = writer.seq /\ record'[Target].front = Quote
                            /\ record'[Target].back = record[Target].back
           /\ WriteBack => /\ record'[Target].committed = record[Target].committed
                           /\ record'[Target].seq = record[Target].seq
                           /\ record'[Target].front = record[Target].front
                           /\ record'[Target].back = Quote
           /\ Commit => /\ record'[Target].committed = writer.seq
           /\ Invalidate \/ Commit => /\ record'[Target].seq = record[Target].seq
                                      /\ record'[Target].front = record[Target].front
                                      /\ record'[Target].back = record[Target].back
           /\ Wipe => \A i \in Cells : record'[i] = IF i = writer.at THEN Zero ELSE record[i]
           /\ ~(Invalidate \/ WriteFront \/ WriteBack \/ Commit \/ Wipe) => record' = record
  <1> DEFINE Recs == [committed : 0 .. MaxSequence, seq : 0 .. MaxSequence, front : Values, back : Values]
  <1>0. record \in [Cells -> Recs] /\ writer.seq \in 0 .. MaxSequence
    BY DEF Types
  <1>1. CASE Wipe
    <2>1. record' = [record EXCEPT ![writer.at] = Zero] /\ writer.pc = "zeroing"
      BY <1>1 DEF Wipe
    <2>2. record' \in [Cells -> Recs]
      BY <1>0, <2>1, Constants
    <2>3. \A i \in Cells : record'[i] = IF i = writer.at THEN Zero ELSE record[i]
      BY <1>0, <2>1
    <2> QED BY <1>1, <2>1, <2>2, <2>3 DEF Invalidate, WriteFront, WriteBack, Commit
  <1>2. CASE Invalidate
    <2>1. record' = [record EXCEPT ![Target].committed = 0] /\ writer.pc = "invalidate"
      BY <1>2 DEF Invalidate
    <2>2. Target \in Cells
      BY <2>1, AtTarget DEF Overwriting
    <2> QED BY <1>0, <1>2, <2>1, <2>2, Constants DEF Invalidate, WriteFront, WriteBack, Commit, Wipe
  <1>3. CASE WriteFront
    <2>1. record' = [record EXCEPT ![Target].seq = writer.seq, ![Target].front = Quote] /\ writer.pc = "front"
      BY <1>3 DEF WriteFront
    <2>2. Target \in Cells /\ Quote \in Values
      BY <2>1, AtTarget DEF Overwriting
    <2>3. record' = [record EXCEPT ![Target] = [record[Target] EXCEPT !.seq = writer.seq, !.front = Quote]]
      BY <1>0, <2>1, <2>2
    <2>4. [record[Target] EXCEPT !.seq = writer.seq, !.front = Quote] \in Recs
      BY <1>0, <2>2
    <2>5. record' \in [Cells -> Recs] /\ \A i \in Cells : i # Target => record'[i] = record[i]
      BY <1>0, <2>2, <2>3, <2>4
    <2>6. record'[Target] = [record[Target] EXCEPT !.seq = writer.seq, !.front = Quote]
      BY <1>0, <2>2, <2>3
    <2>7. /\ record'[Target].committed = record[Target].committed
          /\ record'[Target].seq = writer.seq /\ record'[Target].front = Quote
          /\ record'[Target].back = record[Target].back
      BY <1>0, <2>2, <2>6
    <2> QED BY <1>3, <2>1, <2>5, <2>7 DEF Invalidate, WriteFront, WriteBack, Commit, Wipe
  <1>4. CASE WriteBack
    <2>1. record' = [record EXCEPT ![Target].back = Quote] /\ writer.pc = "back"
      BY <1>4 DEF WriteBack
    <2>2. Target \in Cells /\ Quote \in Values
      BY <2>1, AtTarget DEF Overwriting
    <2> QED BY <1>0, <1>4, <2>1, <2>2, Constants DEF Invalidate, WriteFront, WriteBack, Commit, Wipe
  <1>5. CASE Commit
    <2>1. record' = [record EXCEPT ![Target].committed = writer.seq] /\ writer.pc = "commit"
      BY <1>5 DEF Commit
    <2>2. Target \in Cells
      BY <2>1, AtTarget DEF Overwriting
    <2> QED BY <1>0, <1>5, <2>1, <2>2, Constants DEF Invalidate, WriteFront, WriteBack, Commit, Wipe
  <1>6. CASE ~(Invalidate \/ WriteFront \/ WriteBack \/ Commit \/ Wipe)
    <2>1. record' = record
      BY <1>6 DEF WriterActs, WriterStep, PublishBegin, WriterStart, WriteMagic, WriteGeneration, PublishSequence,
             WriterDies
    <2> QED BY <1>0, <1>6, <2>1
  <1> QED BY <1>1, <1>2, <1>3, <1>4, <1>5, <1>6

\* What each step does to the writer and the header.
LEMMA WriterMoves ==
    ASSUME Types, WriterInv, WriterActs
    PROVE  /\ header' \in [magic : BOOLEAN, gen : 0 .. MaxGenerations, published : 0 .. MaxSequence]
           /\ writer' \in [pc : WriterSteps, gen : 0 .. MaxGenerations, seq : 0 .. MaxSequence,
                           at : 0 .. Capacity, key : Keys]
           /\ UNCHANGED <<cursor, feed, slot, status, api>>
           /\ WriterInv'
  <1> DEFINE W == [pc : WriterSteps, gen : 0 .. MaxGenerations, seq : 0 .. MaxSequence,
                   at : 0 .. Capacity, key : Keys]
             H == [magic : BOOLEAN, gen : 0 .. MaxGenerations, published : 0 .. MaxSequence]
             w(pc, gen, seq, at, key) == [pc |-> pc, gen |-> gen, seq |-> seq, at |-> at, key |-> key]
  <1> SUFFICES header' \in H /\ writer' \in W /\ UNCHANGED <<cursor, feed, slot, status, api>> /\ WriterInv'
    OBVIOUS
  <1>n. /\ Capacity \in Nat /\ Capacity > 0 /\ MaxSequence \in Nat /\ MaxGenerations \in Nat
        /\ writer.gen \in 0 .. MaxGenerations /\ writer.seq \in 0 .. MaxSequence
        /\ writer.at \in 0 .. Capacity /\ writer.pc \in WriterSteps /\ writer.key \in Keys
        /\ header.gen \in 0 .. MaxGenerations /\ header.published \in 0 .. MaxSequence
        /\ header \in H /\ writer \in W
    BY Constants DEF Types
  <1>w. writer = w(writer.pc, writer.gen, writer.seq, writer.at, writer.key)
    BY <1>n
  <1>f. ASSUME NEW pc \in WriterSteps, NEW gen \in 0 .. MaxGenerations, NEW seq \in 0 .. MaxSequence,
               NEW at \in 0 .. Capacity, NEW key \in Keys, writer' = w(pc, gen, seq, at, key)
        PROVE  /\ writer' \in W
               /\ writer'.pc = pc /\ writer'.gen = gen /\ writer'.seq = seq /\ writer'.at = at
    BY <1>f
  <1> USE <1>n DEF WriterInv, Others, Live, Past, Overwriting, Starting
  <1>1. CASE WriterStart
    <2>1. /\ writer' = w("zeroing", writer.gen + 1, 0, 0, writer.key)
          /\ header' = [magic |-> FALSE, gen |-> 0, published |-> 0]
          /\ writer.gen < MaxGenerations /\ UNCHANGED <<cursor, feed, slot, status, api>>
      BY <1>1, <1>w DEF WriterStart
    <2>2. "zeroing" \in WriterSteps /\ writer.gen + 1 \in 0 .. MaxGenerations /\ 0 \in 0 .. MaxSequence /\ 0 \in 0 .. Capacity
      BY <2>1 DEF WriterSteps
    <2>3. /\ writer' \in W /\ writer'.pc = "zeroing" /\ writer'.gen = writer.gen + 1 /\ writer'.seq = 0 /\ writer'.at = 0
      BY <2>1, <2>2, <1>f
    <2> HIDE DEF W
    <2> QED BY <2>1, <2>3
  <1>2. CASE Wipe
    <2> DEFINE pc == IF writer.at + 1 = Capacity THEN "magic" ELSE "zeroing"
    <2>1. /\ writer' = w(pc, writer.gen, writer.seq, writer.at + 1, writer.key)
          /\ header' = header /\ writer.pc = "zeroing" /\ UNCHANGED <<cursor, feed, slot, status, api>>
      BY <1>2, <1>w DEF Wipe
    <2>2. pc \in WriterSteps /\ writer.at + 1 \in 0 .. Capacity
      BY <2>1 DEF WriterSteps
    <2>3. /\ writer' \in W /\ writer'.pc = pc /\ writer'.gen = writer.gen /\ writer'.seq = writer.seq
          /\ writer'.at = writer.at + 1
      <3> HIDE DEF pc
      <3> QED BY <2>1, <2>2, <1>f
    <2> HIDE DEF W
    <2> QED BY <2>1, <2>3
  <1>3. CASE WriteMagic
    <2>1. /\ writer' = w("generation", writer.gen, writer.seq, writer.at, writer.key)
          /\ header' \in H /\ header'.gen = header.gen /\ header'.published = 0
          /\ writer.pc = "magic" /\ UNCHANGED <<cursor, feed, slot, status, api>>
      BY <1>3, <1>w DEF WriteMagic, WriterGoto
    <2>3. /\ writer' \in W /\ writer'.pc = "generation" /\ writer'.gen = writer.gen /\ writer'.seq = writer.seq
      BY <2>1, <1>f DEF WriterSteps
    <2> HIDE DEF W, H
    <2> QED BY <2>1, <2>3
  <1>4. CASE WriteGeneration
    <2>1. /\ writer' = w("idle", writer.gen, writer.seq, writer.at, writer.key)
          /\ header' \in H /\ header'.gen = writer.gen /\ header'.published = header.published
          /\ writer.pc = "generation" /\ UNCHANGED <<cursor, feed, slot, status, api>>
      BY <1>4, <1>w DEF WriteGeneration, WriterGoto
    <2>3. /\ writer' \in W /\ writer'.pc = "idle" /\ writer'.gen = writer.gen /\ writer'.seq = writer.seq
      BY <2>1, <1>f DEF WriterSteps
    <2> HIDE DEF W, H
    <2> QED BY <2>1, <2>3
  <1>5. CASE PublishBegin
    <2>1. PICK k \in Keys : writer' = [writer EXCEPT !.pc = "invalidate", !.seq = @ + 1, !.key = k]
      BY <1>5 DEF PublishBegin
    <2>2. /\ writer' = w("invalidate", writer.gen, writer.seq + 1, writer.at, k)
          /\ header' = header /\ writer.pc = "idle" /\ writer.seq < MaxSequence
          /\ UNCHANGED <<cursor, feed, slot, status, api>>
      BY <1>5, <1>w, <2>1 DEF PublishBegin
    <2>3. writer.seq + 1 \in 0 .. MaxSequence
      BY <2>2
    <2>4. /\ writer' \in W /\ writer'.pc = "invalidate" /\ writer'.gen = writer.gen /\ writer'.seq = writer.seq + 1
      BY <2>2, <2>3, <1>f DEF WriterSteps
    <2> HIDE DEF W
    <2> QED BY <2>2, <2>4
  <1>6. ASSUME NEW pc \in {"front", "back", "commit", "publish", "down"},
               writer' = [writer EXCEPT !.pc = pc], header' = header,
               UNCHANGED <<cursor, feed, slot, status, api>>,
               \/ pc = "down" \/ writer.pc \in Overwriting
        PROVE  header' \in H /\ writer' \in W /\ UNCHANGED <<cursor, feed, slot, status, api>> /\ WriterInv'
    <2>1. writer' = w(pc, writer.gen, writer.seq, writer.at, writer.key) /\ pc \in WriterSteps
      BY <1>6, <1>w DEF WriterSteps
    <2>2. /\ writer' \in W /\ writer'.pc = pc /\ writer'.gen = writer.gen /\ writer'.seq = writer.seq
      BY <2>1, <1>f
    <2> HIDE DEF W, H
    <2> QED BY <1>6, <2>2
  <1>7. CASE Invalidate  BY <1>6, <1>7 DEF Invalidate, WriterGoto
  <1>8. CASE WriteFront  BY <1>6, <1>8 DEF WriteFront, WriterGoto
  <1>9. CASE WriteBack  BY <1>6, <1>9 DEF WriteBack, WriterGoto
  <1>10. CASE Commit  BY <1>6, <1>10 DEF Commit, WriterGoto
  <1>11. CASE WriterDies  BY <1>6, <1>11 DEF WriterDies, WriterGoto
  <1>12. CASE PublishSequence
    <2>1. /\ writer' = w("idle", writer.gen, writer.seq, writer.at, writer.key)
          /\ header' \in H /\ header'.gen = header.gen /\ header'.published = writer.seq
          /\ writer.pc = "publish" /\ UNCHANGED <<cursor, feed, slot, status, api>>
      BY <1>12, <1>w DEF PublishSequence, WriterGoto
    <2>3. /\ writer' \in W /\ writer'.pc = "idle" /\ writer'.gen = writer.gen /\ writer'.seq = writer.seq
      BY <2>1, <1>f DEF WriterSteps
    <2> HIDE DEF W, H
    <2> QED BY <2>1, <2>3
  <1> QED BY <1>1, <1>2, <1>3, <1>4, <1>5, <1>7, <1>8, <1>9, <1>10, <1>11, <1>12 DEF WriterActs, WriterStep

\* The steps of the writer, by their effect on the writer itself.
LEMMA WriterFields ==
    ASSUME Types, WriterInv, WriterActs
    PROVE  \/ /\ WriterStart /\ writer.pc = "down" /\ writer'.pc = "zeroing" /\ writer'.gen = writer.gen + 1
              /\ writer'.seq = 0 /\ writer'.at = 0 /\ header'.gen = 0
           \/ /\ Wipe /\ writer.pc = "zeroing" /\ writer'.at = writer.at + 1
              /\ writer'.pc = (IF writer.at + 1 = Capacity THEN "magic" ELSE "zeroing")
              /\ writer'.gen = writer.gen /\ writer'.seq = writer.seq /\ header' = header
           \/ /\ PublishBegin /\ writer.pc = "idle" /\ writer'.pc = "invalidate" /\ writer'.seq = writer.seq + 1
              /\ writer'.gen = writer.gen /\ header' = header
           \/ /\ writer'.gen = writer.gen /\ writer'.seq = writer.seq /\ writer'.key = writer.key
              /\ writer'.at = writer.at /\ Target' = Target /\ Quote' = Quote
              /\ \/ WriteMagic /\ writer.pc = "magic" /\ writer'.pc = "generation" /\ header'.gen = header.gen
                 \/ WriteGeneration /\ writer.pc = "generation" /\ writer'.pc = "idle" /\ header'.gen = writer.gen
                 \/ Invalidate /\ writer.pc = "invalidate" /\ writer'.pc = "front" /\ header' = header
                 \/ WriteFront /\ writer.pc = "front" /\ writer'.pc = "back" /\ header' = header
                 \/ WriteBack /\ writer.pc = "back" /\ writer'.pc = "commit" /\ header' = header
                 \/ Commit /\ writer.pc = "commit" /\ writer'.pc = "publish" /\ header' = header
                 \/ PublishSequence /\ writer.pc = "publish" /\ writer'.pc = "idle" /\ header'.gen = header.gen
                 \/ WriterDies /\ writer.pc # "down" /\ writer'.pc = "down" /\ header' = header
  <1>0. /\ writer \in [pc : WriterSteps, gen : 0 .. MaxGenerations, seq : 0 .. MaxSequence,
                       at : 0 .. Capacity, key : Keys]
        /\ header \in [magic : BOOLEAN, gen : 0 .. MaxGenerations, published : 0 .. MaxSequence]
    BY DEF Types
  <1>1. ASSUME NEW pc, writer' = [writer EXCEPT !.pc = pc]
        PROVE  /\ writer'.gen = writer.gen /\ writer'.seq = writer.seq /\ writer'.key = writer.key
               /\ writer'.at = writer.at /\ writer'.pc = pc /\ Target' = Target /\ Quote' = Quote
    BY <1>0, <1>1 DEF Target, Quote, Cell
  <1>2. CASE WriterStart  BY <1>0, <1>2 DEF WriterStart
  <1>3. CASE Wipe  BY <1>0, <1>3 DEF Wipe
  <1>4. CASE PublishBegin  BY <1>0, <1>4 DEF PublishBegin
  <1>5. CASE WriteMagic  BY <1>0, <1>1, <1>5 DEF WriteMagic, WriterGoto
  <1>6. CASE WriteGeneration  BY <1>0, <1>1, <1>6 DEF WriteGeneration, WriterGoto
  <1>7. CASE Invalidate  BY <1>0, <1>1, <1>7 DEF Invalidate, WriterGoto
  <1>8. CASE WriteFront  BY <1>0, <1>1, <1>8 DEF WriteFront, WriterGoto
  <1>9. CASE WriteBack  BY <1>0, <1>1, <1>9 DEF WriteBack, WriterGoto
  <1>10. CASE Commit  BY <1>0, <1>1, <1>10 DEF Commit, WriterGoto
  <1>11. CASE PublishSequence  BY <1>0, <1>1, <1>11 DEF PublishSequence, WriterGoto
  <1>12. CASE WriterDies  BY <1>0, <1>1, <1>12 DEF WriterDies, WriterGoto
  <1> QED BY <1>2, <1>3, <1>4, <1>5, <1>6, <1>7, <1>8, <1>9, <1>10, <1>11, <1>12 DEF WriterActs, WriterStep

\* One step is never two.
LEMMA WriterAlternatives ==
    ASSUME Types, WriterInv, WriterActs
    PROVE  /\ writer.pc \notin {"zeroing", "invalidate", "front", "back", "commit"} \/ writer'.pc = "down" => record' = record
           /\ Invalidate => writer.pc = "invalidate" /\ writer'.pc = "front"
           /\ WriteFront => writer.pc = "front" /\ writer'.pc = "back"
           /\ WriteBack => writer.pc = "back" /\ writer'.pc = "commit"
           /\ Commit => writer.pc = "commit" /\ writer'.pc = "publish"
           /\ Wipe => writer.pc = "zeroing" /\ writer'.pc \in {"zeroing", "magic"}
  <1>0. writer \in [pc : WriterSteps, gen : 0 .. MaxGenerations, seq : 0 .. MaxSequence,
                    at : 0 .. Capacity, key : Keys]
    BY DEF Types
  <1>1. /\ Invalidate => writer.pc = "invalidate" /\ writer'.pc = "front"
        /\ WriteFront => writer.pc = "front" /\ writer'.pc = "back"
        /\ WriteBack => writer.pc = "back" /\ writer'.pc = "commit"
        /\ Commit => writer.pc = "commit" /\ writer'.pc = "publish"
        /\ Wipe => writer.pc = "zeroing" /\ writer'.pc \in {"zeroing", "magic"}
    BY <1>0 DEF Invalidate, WriteFront, WriteBack, Commit, Wipe, WriterGoto
  <1> QED BY <1>1, RecordWrites

\* The parts of RingInv that say what the records hold.
LEMMA RecordKeeps ==
    ASSUME Types, RingInv, WriterActs
    PROVE  RecordInv'
  <1>0. Types /\ WriterInv /\ RecordInv
    BY DEF RingInv
  <1> DEFINE Whole(r, i) == r.committed # 0 => /\ Cell(r.committed) = i /\ r.seq = r.committed
                                               /\ r.back.seq = r.committed /\ r.front = r.back
  <1>h. /\ \A i \in Cells : Whole(record[i], i)
        /\ writer.pc \in {"front", "back", "commit"} => record[Target].committed = 0
        /\ writer.pc \in {"back", "commit"} => record[Target].seq = writer.seq /\ record[Target].front = Quote
        /\ writer.pc = "commit" => record[Target].back = Quote
    BY <1>0 DEF RecordInv
  <1> SUFFICES /\ \A i \in Cells : Whole(record'[i], i)
               /\ writer'.pc \in {"front", "back", "commit"} => record'[Target'].committed = 0
               /\ writer'.pc \in {"back", "commit"} => record'[Target'].seq = writer'.seq /\ record'[Target'].front = Quote'
               /\ writer'.pc = "commit" => record'[Target'].back = Quote'
    BY DEF RecordInv, Cell
  <1>a. writer.pc \in Overwriting =>
            /\ Target \in Cells /\ Target = Cell(writer.seq) /\ Quote.seq = writer.seq
    BY <1>0, AtTarget
  <1> HIDE DEF Whole
  <1>1. CASE record' = record /\ writer'.pc \notin {"front", "back", "commit"}
    BY <1>h, <1>1
  <1>2. CASE Wipe
    <2>1. \A i \in Cells : record'[i] = IF i = writer.at THEN Zero ELSE record[i]
      BY <1>0, <1>2, RecordWrites
    <2>2. \A i \in Cells : Whole(Zero, i)
      BY Constants DEF Whole
    <2>3. writer'.pc \notin {"front", "back", "commit"}
      BY <1>0, <1>2, WriterAlternatives
    <2> QED BY <1>h, <2>1, <2>2, <2>3
  <1>3. CASE Invalidate
    <2>1. writer.pc = "invalidate" /\ writer'.pc = "front" /\ Target' = Target
      BY <1>0, <1>3, WriterFields, WriterAlternatives
    <2>2. /\ \A i \in Cells : i # Target => record'[i] = record[i]
          /\ record'[Target].committed = 0
      BY <1>0, <1>3, <2>1, RecordWrites
    <2>3. Whole(record'[Target], Target)
      BY <2>2 DEF Whole
    <2> QED BY <1>h, <2>1, <2>2, <2>3
  <1>4. CASE WriteFront
    <2>1. writer.pc = "front" /\ writer'.pc = "back" /\ Target' = Target /\ Quote' = Quote /\ writer'.seq = writer.seq
      BY <1>0, <1>4, WriterFields, WriterAlternatives
    <2>2. /\ \A i \in Cells : i # Target => record'[i] = record[i]
          /\ record'[Target].committed = 0
          /\ record'[Target].seq = writer.seq /\ record'[Target].front = Quote
      BY <1>0, <1>4, <1>h, <2>1, RecordWrites
    <2>3. Whole(record'[Target], Target)
      BY <2>2 DEF Whole
    <2> QED BY <1>h, <2>1, <2>2, <2>3
  <1>5. CASE WriteBack
    <2>1. writer.pc = "back" /\ writer'.pc = "commit" /\ Target' = Target /\ Quote' = Quote /\ writer'.seq = writer.seq
      BY <1>0, <1>5, WriterFields, WriterAlternatives
    <2>2. /\ \A i \in Cells : i # Target => record'[i] = record[i]
          /\ record'[Target].committed = 0
          /\ record'[Target].seq = writer.seq /\ record'[Target].front = Quote /\ record'[Target].back = Quote
      BY <1>0, <1>5, <1>h, <2>1, RecordWrites
    <2>3. Whole(record'[Target], Target)
      BY <2>2 DEF Whole
    <2> QED BY <1>h, <2>1, <2>2, <2>3
  <1>6. CASE Commit
    <2>1. writer.pc = "commit" /\ writer'.pc = "publish"
      BY <1>0, <1>6, WriterAlternatives
    <2>2. /\ \A i \in Cells : i # Target => record'[i] = record[i]
          /\ record'[Target].committed = writer.seq
          /\ record'[Target].seq = writer.seq /\ record'[Target].front = Quote /\ record'[Target].back = Quote
      BY <1>0, <1>6, <1>h, <2>1, RecordWrites
    <2>3. Whole(record'[Target], Target)
      BY <1>a, <2>1, <2>2 DEF Whole, Overwriting
    <2> QED BY <1>h, <2>1, <2>2, <2>3
  <1>7. \/ record' = record /\ writer'.pc \notin {"front", "back", "commit"}
        \/ Wipe \/ Invalidate \/ WriteFront \/ WriteBack \/ Commit
    BY <1>0, WriterFields, RecordWrites
  <1> QED BY <1>1, <1>2, <1>3, <1>4, <1>5, <1>6, <1>7

LEMMA RingTypes ==
    ASSUME Types
    PROVE  /\ writer.gen \in Nat /\ writer.seq \in 0 .. MaxSequence /\ writer.at \in Nat /\ writer.key \in Keys
           /\ writer.pc \in WriterSteps /\ header.gen \in Nat /\ header.published \in 0 .. MaxSequence
           /\ Capacity \in Nat /\ Capacity > 0 /\ MaxSequence \in Nat
           /\ \A i \in Cells : /\ record[i].committed \in 0 .. MaxSequence /\ record[i].seq \in 0 .. MaxSequence
                               /\ record[i].front \in Values /\ record[i].back \in Values
                               /\ i \in Nat /\ i < Capacity
           /\ \A n \in Numbers : n \in Nat /\ n # 0 /\ n <= MaxSequence
           /\ \A n \in Nat : n # 0 /\ n <= MaxSequence => n \in Numbers
  <1>1. /\ writer.gen \in Nat /\ writer.seq \in 0 .. MaxSequence /\ writer.at \in Nat /\ writer.key \in Keys
        /\ writer.pc \in WriterSteps /\ header.gen \in Nat /\ header.published \in 0 .. MaxSequence
    BY Constants DEF Types
  <1>2. Capacity \in Nat /\ Capacity > 0 /\ MaxSequence \in Nat
    BY Constants
  <1>3. ASSUME NEW i \in Cells
        PROVE  /\ record[i].committed \in 0 .. MaxSequence /\ record[i].seq \in 0 .. MaxSequence
               /\ record[i].front \in Values /\ record[i].back \in Values
               /\ i \in Nat /\ i < Capacity
    <2>1. i \in Nat /\ i < Capacity
      BY <1>2 DEF Cells
    <2>2. record[i] \in [committed : 0 .. MaxSequence, seq : 0 .. MaxSequence, front : Values, back : Values]
      BY DEF Types
    <2> QED BY <2>1, <2>2
  <1>4. /\ \A n \in Numbers : n \in Nat /\ n # 0 /\ n <= MaxSequence
        /\ \A n \in Nat : n # 0 /\ n <= MaxSequence => n \in Numbers
    BY <1>2 DEF Numbers
  <1> QED BY <1>1, <1>2, <1>3, <1>4

\* What the writer has passed it has passed for the rest of its life.
LEMMA PastKeeps ==
    ASSUME Types, WriterInv, WriterActs, writer'.gen = writer.gen, NEW n \in Nat, Past(n)
    PROVE  Past(n)'
  <1>0. writer.gen \in Int /\ writer.seq \in Int /\ writer.pc \in WriterSteps
    BY Constants DEF Types
  <1> QED BY <1>0, WriterFields DEF Past, Overwriting

LEMMA LifeKeeps ==
    ASSUME Types, RingInv, WriterActs
    PROVE  LifeInv'
  <1>0. Types /\ WriterInv /\ LifeInv
    BY DEF RingInv
  <1>t. /\ writer.gen \in Nat /\ writer.seq \in Nat /\ writer.at \in Nat /\ Capacity \in Nat
        /\ \A i \in Cells : record[i].committed \in Nat /\ record[i].back \in Values /\ i \in Nat /\ i < Capacity
    BY <1>0, RingTypes
  <1> DEFINE Mine(r) == Past(r.committed) /\ (r.back = NoQuote \/ r.back.gen = writer.gen)
  <1>h. /\ Settled => \A i \in Cells : Mine(record[i])
        /\ writer.pc = "zeroing" => \A i \in Cells : i < writer.at => record[i] = Zero
        /\ writer.pc \in {"magic", "generation"} => \A i \in Cells : record[i] = Zero
    BY <1>0 DEF LifeInv
  <1>1. ASSUME record' = record, writer'.gen = writer.gen, header'.gen = header.gen \/ writer.pc = "generation",
               writer'.pc \notin {"zeroing", "magic"}, writer'.pc = "generation" => writer.pc = "magic"
        PROVE  LifeInv'
    <2>1. Settled' => Settled
      BY <1>1 DEF Settled
    <2>2. ASSUME Settled', NEW i \in Cells
          PROVE  /\ Past(record[i].committed)'
                 /\ record'[i].back = NoQuote \/ record'[i].back.gen = writer'.gen
      <3>1. Mine(record[i])
        BY <1>h, <2>1, <2>2
      <3>2. Past(record[i].committed)'
        <4>1. \A n \in Nat : Past(n) => Past(n)'
          BY <1>0, <1>1, PastKeeps
        <4>2. Past(record[i].committed) /\ record[i].committed \in Nat /\ record'[i] = record[i]
          BY <1>1, <1>t, <3>1
        <4> QED BY <4>1, <4>2 DEF Past
      <3> QED BY <1>1, <3>1, <3>2
    <2>3. writer'.pc = "generation" => \A i \in Cells : record'[i] = Zero
      BY <1>1, <1>h
    <2> QED BY <1>1, <2>2, <2>3 DEF LifeInv
  <1>2. CASE WriterStart
    BY <1>0, <1>2, <1>t, WriterFields DEF LifeInv, Settled, WriterStart, Wipe, PublishBegin, WriteMagic, WriteGeneration,
           Invalidate, WriteFront, WriteBack, Commit, PublishSequence, WriterDies
  <1>3. CASE Wipe
    <2>1. /\ writer.pc = "zeroing" /\ writer'.at = writer.at + 1 /\ writer'.seq = 0 /\ writer'.gen = writer.gen
          /\ writer'.pc = (IF writer.at + 1 = Capacity THEN "magic" ELSE "zeroing") /\ header'.gen = 0
      BY <1>0, <1>3, WriterFields DEF WriterInv, Starting, WriterStart, Wipe, PublishBegin, WriteMagic, WriteGeneration,
           Invalidate, WriteFront, WriteBack, Commit, PublishSequence, WriterDies
    <2>2. \A i \in Cells : record'[i] = IF i = writer.at THEN Zero ELSE record[i]
      BY <1>0, <1>3, RecordWrites
    <2>3. \A i \in Cells : i < writer'.at => record'[i] = Zero
      BY <1>h, <1>t, <2>1, <2>2
    <2>4. writer'.pc = "magic" => \A i \in Cells : record'[i] = Zero
      BY <1>t, <2>1, <2>3
    <2>5. writer'.pc = "magic" => Past(0)'
      BY <2>1 DEF Past, Overwriting
    <2> QED BY <2>1, <2>3, <2>4, <2>5, Constants DEF LifeInv, Settled
  <1>4. CASE Invalidate \/ WriteFront \/ WriteBack \/ Commit
    <2>1. /\ writer.pc \in Overwriting /\ writer'.gen = writer.gen /\ writer'.seq = writer.seq
          /\ writer'.pc \in {"front", "back", "commit", "publish"} /\ header'.gen = header.gen
      BY <1>0, <1>4, WriterFields, WriterAlternatives DEF Overwriting, Wipe, WriterStart, PublishBegin
    <2>2. header.gen = writer.gen /\ writer.gen # 0 /\ writer.seq # 0 /\ Target \in Cells
          /\ Quote.gen = writer.gen
      BY <1>0, <2>1, AtTarget DEF WriterInv, Live, Overwriting
    <2>3. \A i \in Cells : Mine(record[i])
      BY <1>h, <2>2 DEF Settled
    <2>4. ASSUME NEW i \in Cells
          PROVE  /\ Past(record[i].committed)'
                 /\ record'[i].back = NoQuote \/ record'[i].back.gen = writer'.gen
      <3>0. \A n \in Nat : Past(n) => Past(n)'
        BY <1>0, <2>1, PastKeeps
      <3>1. CASE i # Target
        <4>1. record'[i] = record[i]
          BY <1>0, <2>1, <3>1, RecordWrites DEF Overwriting
        <4>2. Past(record[i].committed) /\ record[i].committed \in Nat
          BY <1>t, <2>3
        <4>3. Past(record[i].committed)'
          BY <3>0, <4>1, <4>2 DEF Past
        <4> QED BY <2>1, <2>3, <4>1, <4>3
      <3>2. CASE i = Target
        <4>1. /\ record'[i].committed \in {0, record[i].committed} \/ (Commit /\ record'[i].committed = writer.seq)
              /\ record'[i].back \in {record[i].back, Quote}
          BY <1>0, <1>4, <3>2, RecordWrites
        <4>2. record'[i].committed \in {0, record[i].committed} => Past(record[i].committed)'
          <5>1. Past(0)'
            BY <1>t, <2>1, <2>2 DEF Past
          <5>2. record'[i].committed = record[i].committed => Past(record[i].committed)'
            BY <1>t, <2>3, <3>0 DEF Past
          <5> QED BY <5>1, <5>2 DEF Past
        <4>3. Commit /\ record'[i].committed = writer.seq => Past(record[i].committed)'
          BY <1>0, <2>1, WriterAlternatives DEF Past, Overwriting
        <4> QED BY <2>1, <2>2, <2>3, <4>1, <4>2, <4>3
      <3> QED BY <3>1, <3>2
    <2> QED BY <2>1, <2>4 DEF LifeInv
  <1>5. CASE WriteMagic \/ WriteGeneration \/ PublishBegin \/ PublishSequence \/ WriterDies
    <2>1. /\ writer'.gen = writer.gen /\ record' = record
          /\ header'.gen = header.gen \/ writer.pc = "generation"
          /\ writer'.pc \notin {"zeroing", "magic"} /\ (writer'.pc = "generation" => writer.pc = "magic")
      <3>1. /\ record' = record
            /\ writer.pc \in {"magic", "generation", "idle", "publish"} \/ (writer'.pc = "down" /\ writer.pc # "down")
        BY <1>0, <1>5 DEF Types, PublishBegin, WriteMagic, WriteGeneration, PublishSequence, WriterDies, WriterGoto
      <3> QED BY <1>0, <3>1, WriterFields
    <2> QED BY <1>1, <2>1
  <1> QED BY <1>2, <1>3, <1>4, <1>5 DEF WriterActs, WriterStep

LEMMA WindowKeeps ==
    ASSUME Types, RingInv, WriterActs
    PROVE  WindowInv'
  <1>0. Types /\ WriterInv /\ RecordInv /\ LifeInv /\ WindowInv
    BY DEF RingInv
  <1>t. /\ writer.seq \in 0 .. MaxSequence /\ Capacity \in Nat /\ Capacity > 0 /\ MaxSequence \in Nat
        /\ \A i \in Cells : record[i].committed \in 0 .. MaxSequence
        /\ \A n \in Numbers : n \in Nat /\ n # 0
        /\ \A n \in Nat : n # 0 /\ n <= MaxSequence => n \in Numbers
    BY <1>0, RingTypes
  <1> SUFFICES ASSUME Live'
               PROVE  /\ \A n \in Numbers : Past(n)' /\ writer'.seq < n + Capacity => record'[Cell(n)].committed = n
                      /\ \A i \in Cells : record'[i].committed # 0 =>
                           \/ writer'.seq < record'[i].committed + Capacity
                           \/ writer'.pc = "invalidate" /\ writer'.seq = record'[i].committed + Capacity
    BY DEF WindowInv, InRing, Cell
  <1>h. Live => /\ \A n \in Numbers : Past(n) /\ writer.seq < n + Capacity => record[Cell(n)].committed = n
                /\ \A i \in Cells : record[i].committed # 0 =>
                     \/ writer.seq < record[i].committed + Capacity
                     \/ writer.pc = "invalidate" /\ writer.seq = record[i].committed + Capacity
    BY <1>0 DEF WindowInv, InRing
  <1>d. ASSUME writer.pc \in Overwriting, NEW n \in Numbers, n < writer.seq, writer.seq < n + Capacity
        PROVE  Cell(n) # Target /\ Cell(n) \in Cells
    BY <1>0, <1>d, <1>t, AtTarget, CellDistinct, CellInCells
  <1>1. CASE WriteGeneration
    <2>1. writer'.seq = writer.seq /\ writer'.pc = "idle" /\ writer.pc = "generation" /\ record' = record
      BY <1>0, <1>1, WriterFields DEF WriteGeneration, WriterGoto, WriterStart, Wipe, PublishBegin
    <2>2. writer.seq = 0 /\ \A i \in Cells : record[i] = Zero
      BY <1>0, <2>1 DEF WriterInv, Starting, LifeInv
    <2>3. \A n \in Numbers : ~Past(n)'
      BY <1>t, <2>1, <2>2 DEF Past
    <2> QED BY <2>1, <2>2, <2>3, Constants
  <1>2. CASE PublishBegin
    <2>1. writer'.seq = writer.seq + 1 /\ writer'.pc = "invalidate" /\ writer.pc = "idle" /\ record' = record
      <3>1. writer.pc = "idle" /\ record' = record
        BY <1>2 DEF PublishBegin
      <3> QED BY <1>0, <3>1, WriterFields DEF Live, Overwriting
    <2>2. Live
      BY <2>1 DEF Live
    <2>3. \A n \in Numbers : Past(n)' => Past(n)
      BY <1>t, <2>1 DEF Past, Overwriting
    <2> QED BY <1>h, <1>t, <2>1, <2>2, <2>3
  <1>3. CASE Invalidate
    <2>1. writer'.seq = writer.seq /\ writer'.pc = "front" /\ writer.pc = "invalidate" /\ Target \in Cells
          /\ writer.seq \in Numbers /\ Target = Cell(writer.seq)
      BY <1>0, <1>3, WriterFields, WriterAlternatives, AtTarget DEF Overwriting, PublishBegin, WriterStart, Wipe
    <2>2. /\ \A i \in Cells : i # Target => record'[i] = record[i]
          /\ record'[Target].committed = 0
      BY <1>0, <1>3, <2>1, RecordWrites
    <2>3. Live
      BY <2>1 DEF Live, Overwriting
    <2>4. ASSUME NEW n \in Numbers, Past(n)', writer'.seq < n + Capacity
          PROVE  record'[Cell(n)].committed = n
      <3>1. n < writer.seq /\ writer.seq < n + Capacity /\ Past(n)
        BY <2>1, <2>4 DEF Past, Overwriting
      <3> QED BY <1>d, <1>h, <2>1, <2>2, <2>3, <3>1 DEF Overwriting
    <2>5. ASSUME NEW i \in Cells, record'[i].committed # 0
          PROVE  writer'.seq < record'[i].committed + Capacity
      <3>1. i # Target /\ record'[i] = record[i] /\ record[i].committed # 0
        BY <2>2, <2>5
      <3>2. CASE writer.seq = record[i].committed + Capacity
        <4>1. record[i].committed \in Numbers /\ Cell(record[i].committed) = i
          BY <1>0, <1>t, <3>1 DEF RecordInv
        <4>2. Cell(record[i].committed) = Cell(writer.seq)
          BY <2>1, <3>2, <4>1, CellAgain
        <4> QED BY <2>1, <3>1, <4>1, <4>2
      <3> QED BY <1>h, <2>1, <2>3, <3>1, <3>2
    <2> QED BY <2>4, <2>5
  <1>4. CASE WriteFront \/ WriteBack
    <2>1. writer'.seq = writer.seq /\ writer'.pc \in {"back", "commit"} /\ writer.pc \in {"front", "back"} /\ Target \in Cells
      BY <1>0, <1>4, WriterFields, WriterAlternatives, AtTarget DEF Overwriting, PublishBegin, WriterStart, Wipe
    <2>2. \A i \in Cells : record'[i].committed = record[i].committed
      BY <1>0, <1>4, <2>1, RecordWrites
    <2>3. Live /\ \A n \in Numbers : Past(n)' => Past(n)
      BY <2>1 DEF Live, Overwriting, Past
    <2> QED BY <1>h, <2>1, <2>2, <2>3, CellInCells
  <1>5. CASE Commit
    <2>1. writer'.seq = writer.seq /\ writer'.pc = "publish" /\ writer.pc = "commit" /\ Target \in Cells
          /\ Target = Cell(writer.seq)
      BY <1>0, <1>5, WriterFields, WriterAlternatives, AtTarget DEF Overwriting, PublishBegin, WriterStart, Wipe
    <2>2. /\ \A i \in Cells : i # Target => record'[i] = record[i]
          /\ record'[Target].committed = writer.seq
      BY <1>0, <1>5, <2>1, RecordWrites
    <2>3. Live
      BY <2>1 DEF Live, Overwriting
    <2>4. ASSUME NEW n \in Numbers, Past(n)', writer'.seq < n + Capacity
          PROVE  record'[Cell(n)].committed = n
      <3>1. CASE n = writer.seq
        BY <2>1, <2>2, <3>1
      <3>2. CASE n # writer.seq
        <4>1. n < writer.seq /\ writer.seq < n + Capacity /\ Past(n)
          BY <2>1, <2>4, <3>2 DEF Past, Overwriting
        <4> QED BY <1>d, <1>h, <2>1, <2>2, <2>3, <4>1 DEF Overwriting
      <3> QED BY <3>1, <3>2
    <2>5. ASSUME NEW i \in Cells, record'[i].committed # 0
          PROVE  writer'.seq < record'[i].committed + Capacity
      BY <1>h, <1>t, <2>1, <2>2, <2>3, <2>5
    <2> QED BY <2>4, <2>5
  <1>6. CASE PublishSequence
    <2>1. writer'.seq = writer.seq /\ writer'.pc = "idle" /\ writer.pc = "publish" /\ record' = record
      <3>1. writer.pc = "publish" /\ record' = record
        BY <1>6 DEF PublishSequence
      <3> QED BY <1>0, <3>1, WriterFields DEF Live, Overwriting
    <2>2. Live /\ \A n \in Numbers : Past(n)' => Past(n)
      BY <2>1 DEF Live, Past, Overwriting
    <2> QED BY <1>h, <2>1, <2>2
  <1>7. WriteGeneration \/ PublishBegin \/ Invalidate \/ WriteFront \/ WriteBack \/ Commit \/ PublishSequence
    BY <1>0, WriterFields DEF Live, Overwriting
  <1> QED BY <1>1, <1>2, <1>3, <1>4, <1>5, <1>6, <1>7

LEMMA PastBelow ==
    ASSUME Types, NEW m \in Nat, NEW n \in Nat, m <= n, Past(n)
    PROVE  Past(m)
  BY RingTypes DEF Past

\* The writer as its readers see it: within a life nothing that has been passed is committed anew,
\* and a record that keeps its number has kept its content.
LEMMA RingMoves ==
    ASSUME Types, RingInv, WriterActs
    PROVE  /\ writer'.gen \in Nat /\ writer'.gen >= writer.gen
           /\ UNCHANGED <<cursor, feed, slot, status, api>>
           /\ \A i \in Cells : record'[i].back \in {record[i].back, NoQuote} \/ record'[i].back.gen = writer'.gen
           /\ writer'.gen = writer.gen =>
                /\ \A n \in Nat : Past(n) => Past(n)'
                /\ \A n \in Numbers : Past(n) /\ InRing(n)' => InRing(n) /\ record'[Cell(n)] = record[Cell(n)]
                /\ header.gen # 0 => header'.gen = header.gen
           /\ Live' => writer'.gen = writer.gen /\ (Live \/ header.gen = 0)
  <1>0. Types /\ WriterInv /\ RecordInv
    BY DEF RingInv
  <1>1. writer'.gen \in Nat /\ writer'.gen >= writer.gen
    BY <1>0, RingTypes, WriterFields
  <1>2. UNCHANGED <<cursor, feed, slot, status, api>>
    BY <1>0, WriterMoves
  <1>3. ASSUME NEW i \in Cells
        PROVE  record'[i].back \in {record[i].back, NoQuote} \/ record'[i].back.gen = writer'.gen
    <2>1. CASE Wipe
      BY <1>0, <2>1, RecordWrites, Constants
    <2>2. CASE Invalidate \/ WriteFront \/ WriteBack \/ Commit
      <3>1. writer.pc \in Overwriting /\ writer'.gen = writer.gen
        BY <1>0, <2>2, WriterFields, WriterAlternatives DEF Overwriting, Wipe, WriterStart, PublishBegin
      <3>2. Quote.gen = writer.gen
        BY <1>0, <3>1, AtTarget
      <3>3. i # Target => record'[i] = record[i]
        BY <1>0, <3>1, RecordWrites DEF Overwriting
      <3>4. i = Target => record'[i].back \in {record[i].back, Quote}
        BY <1>0, <2>2, RecordWrites
      <3> QED BY <3>1, <3>2, <3>3, <3>4
    <2>3. CASE ~(Invalidate \/ WriteFront \/ WriteBack \/ Commit \/ Wipe)
      BY <1>0, <2>3, RecordWrites
    <2> QED BY <2>1, <2>2, <2>3
  <1>4. ASSUME writer'.gen = writer.gen, NEW n \in Nat, Past(n) PROVE Past(n)'
    BY <1>0, <1>4, PastKeeps
  <1>5. ASSUME writer'.gen = writer.gen, NEW n \in Numbers, Past(n), InRing(n)'
        PROVE  InRing(n) /\ record'[Cell(n)] = record[Cell(n)]
    <2>1. Cell(n) \in Cells /\ n # 0 /\ record'[Cell(n)].committed = n
      BY <1>0, <1>5, CellInCells, RingTypes DEF InRing, Cell
    <2> SUFFICES record'[Cell(n)] = record[Cell(n)]
      BY <2>1 DEF InRing
    <2>2. CASE Wipe
      BY <1>0, <2>1, <2>2, RecordWrites, Constants
    <2>3. CASE Invalidate \/ WriteFront \/ WriteBack \/ Commit
      <3>1. writer.pc \in Overwriting
        BY <1>0, <2>3, WriterAlternatives DEF Overwriting
      <3>2. Cell(n) # Target => record'[Cell(n)] = record[Cell(n)]
        BY <1>0, <2>1, <3>1, RecordWrites DEF Overwriting
      <3>3. ASSUME Cell(n) = Target PROVE FALSE
        <4>1. record'[Target].committed = n
          BY <2>1, <3>3
        <4>2. record'[Target].committed \in {0, writer.seq}
          BY <1>0, <2>3, RecordWrites, WriterAlternatives DEF RecordInv
        <4>3. n # writer.seq
          BY <1>5, <3>1, RingTypes, <1>0 DEF Past
        <4> QED BY <2>1, <4>1, <4>2, <4>3
      <3> QED BY <3>2, <3>3
    <2>4. CASE ~(Invalidate \/ WriteFront \/ WriteBack \/ Commit \/ Wipe)
      BY <1>0, <2>4, RecordWrites
    <2> QED BY <2>2, <2>3, <2>4
  <1>6. writer'.gen = writer.gen /\ header.gen # 0 => header'.gen = header.gen
    BY <1>0, RingTypes, WriterFields DEF WriterInv
  <1>7. Live' => writer'.gen = writer.gen /\ (Live \/ header.gen = 0)
    BY <1>0, WriterFields DEF Live, Overwriting, WriterInv, Starting
  <1> QED BY <1>1, <1>2, <1>3, <1>4, <1>5, <1>6, <1>7

\* A step of the writer keeps the whole invariant.
LEMMA WriterKeeps ==
    ASSUME MInv, WriterActs
    PROVE  MInv'
  <1>0. /\ Types /\ RingInv /\ PassInv /\ LifeKnown /\ CopyInv
        /\ SlotInv /\ StatusInv /\ ApiInv /\ GenuineInv /\ CoverInv
    BY DEF MInv
  <1>u. cursor' = cursor /\ feed' = feed /\ slot' = slot /\ status' = status /\ api' = api
    BY <1>0, RingMoves
  <1>1. Types'
    BY <1>0, <1>u, RecordWrites, WriterMoves DEF Types, RingInv
  <1>2. RingInv'
    <2>1. WriterInv'
      BY <1>0, WriterMoves DEF RingInv
    <2> QED BY <1>0, <2>1, RecordKeeps, LifeKeeps, WindowKeeps DEF RingInv
  <1>3. PassInv' /\ SlotInv' /\ StatusInv' /\ ApiInv'
    BY <1>0, <1>u DEF PassInv, SlotInv, StatusInv, ApiInv, Busy, Awaiting, Cleared, Key, Current
  <1>t. /\ feed.gen \in Nat /\ cursor.gen \in Nat /\ writer.gen \in Nat
        /\ cursor.seq \in Nat /\ feed.latest \in Nat /\ feed.at \in Nat /\ feed.at <= MaxSequence + 1
        /\ feed.latest <= MaxSequence
    BY <1>0, Constants DEF Types, FeedType, CursorType
  <1>g. ASSUME NEW g \in {feed.gen, cursor.gen}, Present(g)'
        PROVE  Present(g) /\ writer'.gen = writer.gen /\ header.gen = writer.gen /\ header.gen # 0
    <2>1. g <= writer.gen /\ g # 0 /\ g = writer'.gen /\ writer'.gen \in Nat /\ writer'.gen >= writer.gen
      BY <1>0, <1>g, RingMoves DEF LifeKnown, Present
    <2>2. Present(g) /\ writer'.gen = writer.gen
      BY <1>t, <2>1 DEF Present
    <2> QED BY <1>0, <2>2 DEF LifeKnown, Present
  <1>4. LifeKnown'
    <2>1. feed.gen <= writer'.gen /\ cursor.gen <= writer'.gen
      BY <1>0, <1>t, RingMoves DEF LifeKnown
    <2>2. ASSUME Present(feed.gen)' PROVE header'.gen = writer'.gen /\ (feed.pc \in Reading => Past(feed.latest)')
      BY <1>0, <1>g, <1>t, <1>u, <2>2, RingMoves DEF LifeKnown
    <2>3. ASSUME Present(cursor.gen)' PROVE header'.gen = writer'.gen /\ Past(cursor.seq)'
      BY <1>0, <1>g, <1>t, <1>u, <2>3, RingMoves DEF LifeKnown
    <2>4. ASSUME NEW i \in Cells PROVE record'[i].back = NoQuote \/ record'[i].back.gen >= feed.gen
      BY <1>0, <1>t, <2>1, RingMoves DEF LifeKnown
    <2> QED BY <1>u, <2>1, <2>2, <2>3, <2>4 DEF LifeKnown, Present
  <1>5. CopyInv'
    <2> SUFFICES ASSUME Present(feed.gen)', InRing(feed.at)', feed.pc \in {"back", "recheck"}
                 PROVE  /\ feed.seq = record'[Cell(feed.at)].seq /\ feed.front = record'[Cell(feed.at)].front
                        /\ feed.pc = "recheck" => feed.back = record'[Cell(feed.at)].back
      BY <1>u DEF CopyInv, InRing, Cell
    <2>1. Present(feed.gen) /\ writer'.gen = writer.gen
      BY <1>g, <1>u
    <2>2. feed.at \in Numbers /\ Past(feed.at)
      <3>1. cursor.seq < feed.at /\ feed.at <= feed.latest /\ Past(feed.latest)
        BY <1>0, <2>1 DEF PassInv, LifeKnown, Reading
      <3>2. feed.at \in Numbers
        BY <1>0, <1>t, <3>1, RingTypes
      <3> QED BY <1>0, <1>t, <3>1, <3>2, PastBelow
    <2>3. InRing(feed.at) /\ record'[Cell(feed.at)] = record[Cell(feed.at)]
      <3>1. \A n \in Numbers : Past(n) /\ InRing(n)' => InRing(n) /\ record'[Cell(n)] = record[Cell(n)]
        BY <1>0, <2>1, RingMoves
      <3>2. record'[Cell(feed.at)].committed = feed.at
        BY <1>u DEF InRing, Cell
      <3> QED BY <2>2, <3>1, <3>2 DEF InRing, Cell
    <2> QED BY <1>0, <2>1, <2>3 DEF CopyInv
  <1>6. GenuineInv'
    <2>1. ASSUME writer'.gen = writer.gen, NEW q, NEW n, Genuine(q, n)
          PROVE  /\ n \in Numbers /\ q.seq = n
                 /\ n < writer'.seq \/ (n = writer'.seq /\ writer'.pc \notin Overwriting)
                 /\ record'[Cell(n)].committed = n => record'[Cell(n)].back = q
      <3>1. n \in Numbers /\ n \in Nat /\ Past(n) /\ q.seq = n
        BY <1>0, <2>1, RingTypes DEF Genuine
      <3>2. Past(n)'
        BY <1>0, <2>1, <3>1, RingMoves
      <3>3. InRing(n)' => record'[Cell(n)].back = q
        BY <1>0, <2>1, <3>1, RingMoves DEF Genuine
      <3> QED BY <3>1, <3>2, <3>3 DEF Past, InRing, Cell
    <2>2. ASSUME Present(feed.gen)', NEW j \in 1 .. Len(feed'.buffer)
          PROVE  Genuine(feed.buffer[j].back, feed.buffer[j].seq)'
      <3>1. Genuine(feed.buffer[j].back, feed.buffer[j].seq) /\ writer'.gen = writer.gen
        BY <1>0, <1>g, <1>u, <2>2 DEF GenuineInv
      <3> QED BY <1>u, <2>1, <3>1, SMTT(30) DEF Genuine, Past, InRing, Cell
    <2>3. ASSUME Present(cursor.gen)', status'.gen = cursor'.gen, NEW k \in Keys, slot'[k].shown, ~Awaiting(k)'
          PROVE  slot'[k].back.key = k /\ Genuine(slot[k].back, slot[k].seq)'
      <3>1. slot[k].back.key = k /\ Genuine(slot[k].back, slot[k].seq) /\ writer'.gen = writer.gen
        BY <1>0, <1>g, <1>u, <2>3 DEF GenuineInv, Awaiting
      <3> QED BY <1>u, <2>1, <3>1 DEF Genuine, Past, InRing, Cell
    <2> QED BY <2>2, <2>3 DEF GenuineInv
  <1>7. CoverInv'
    <2> SUFFICES ASSUME Live', Present(cursor.gen)', NEW n \in Numbers, InRing(n)'
                 PROVE  Dealt(n)'
      BY DEF CoverInv
    <2>1. writer'.gen = writer.gen /\ Present(cursor.gen) /\ Live
      BY <1>0, <1>g, <1>u, RingMoves
    <2>2. CASE Past(n)
      <3>1. InRing(n) /\ record'[Cell(n)] = record[Cell(n)]
        BY <1>0, <2>1, <2>2, RingMoves
      <3>2. Dealt(n)
        BY <1>0, <2>1, <3>1 DEF CoverInv
      <3>3. Booked(n) => Booked(n)'
        BY <1>u, <3>1 DEF Booked, Cell
      <3>4. Buffered(n) => Buffered(n)'
        BY <1>u DEF Buffered
      <3> QED BY <1>u, <3>2, <3>3, <3>4 DEF Dealt
    <2>3. CASE ~Past(n)
      <3>1. ~(n <= cursor.seq)
        BY <1>0, <1>t, <2>1, <2>3, PastBelow, RingTypes DEF LifeKnown
      <3>2. ~(feed.pc \in Reading /\ n < feed.at)
        <4> SUFFICES ASSUME feed.pc \in Reading, n < feed.at PROVE FALSE
          OBVIOUS
        <4>1. feed.gen = cursor.gen /\ feed.at <= feed.latest
          BY <1>0 DEF PassInv
        <4>2. Past(feed.latest) /\ n <= feed.latest /\ n \in Nat
          BY <1>0, <1>t, <2>1, <4>1, RingTypes DEF LifeKnown
        <4> QED BY <1>0, <1>t, <2>3, <4>2, PastBelow
      <3> QED BY <1>u, <3>1, <3>2 DEF Dealt
    <2> QED BY <2>2, <2>3
  <1> QED BY <1>1, <1>2, <1>3, <1>4, <1>5, <1>6, <1>7 DEF MInv

-----------------------------------------------------------------------------
(* The feed *)

LEMMA FeedTypes ==
    ASSUME Types
    PROVE  /\ feed.gen \in Nat /\ feed.latest \in Nat /\ feed.latest <= MaxSequence /\ feed.at \in Nat
           /\ feed.at <= MaxSequence + 1 /\ feed.seq \in 0 .. MaxSequence /\ feed.front \in Values /\ feed.back \in Values
           /\ feed.buffer \in Seq(Items) /\ Len(feed.buffer) \in Nat /\ feed.todo \subseteq Keys
           /\ feed.failed \in BOOLEAN /\ feed.pc \in FeedSteps
           /\ cursor.gen \in Nat /\ cursor.seq \in Nat /\ cursor.seq <= MaxSequence
           /\ status.gen \in Nat /\ status.last \in 0 .. MaxSequence
           /\ \A k \in Keys : /\ slot[k].version \in Nat /\ slot[k].front \in Values /\ slot[k].back \in Values
                              /\ slot[k].seq \in 0 .. MaxSequence /\ slot[k].shown \in BOOLEAN
           /\ \A j \in 1 .. Len(feed.buffer) :
                 feed.buffer[j] \in Items /\ feed.buffer[j].back \in Values /\ feed.buffer[j].seq \in Numbers
           /\ \A q \in Values : q.gen \in Nat /\ q.seq \in Nat /\ q.key \in Keys
  <1>0. feed \in FeedType /\ cursor \in CursorType /\ status \in StatusType /\ slot \in [Keys -> SlotType]
    BY DEF Types
  <1>1. /\ feed.gen \in Nat /\ feed.latest \in Nat /\ feed.latest <= MaxSequence /\ feed.at \in Nat
        /\ feed.at <= MaxSequence + 1 /\ feed.seq \in 0 .. MaxSequence /\ feed.front \in Values /\ feed.back \in Values
        /\ feed.buffer \in Seq(Items) /\ Len(feed.buffer) \in Nat /\ feed.todo \subseteq Keys
        /\ feed.failed \in BOOLEAN /\ feed.pc \in FeedSteps
    BY <1>0, Constants DEF FeedType
  <1>2. /\ cursor.gen \in Nat /\ cursor.seq \in Nat /\ cursor.seq <= MaxSequence
        /\ status.gen \in Nat /\ status.last \in 0 .. MaxSequence
    BY <1>0, Constants DEF CursorType, StatusType
  <1>3. \A k \in Keys : /\ slot[k].version \in Nat /\ slot[k].front \in Values /\ slot[k].back \in Values
                        /\ slot[k].seq \in 0 .. MaxSequence /\ slot[k].shown \in BOOLEAN
    BY <1>0 DEF SlotType
  <1>4. \A j \in 1 .. Len(feed.buffer) :
            feed.buffer[j] \in Items /\ feed.buffer[j].back \in Values /\ feed.buffer[j].seq \in Numbers
    <2>1. \A e \in Items : e.back \in Values /\ e.seq \in Numbers
      BY DEF Items
    <2>2. \A j \in 1 .. Len(feed.buffer) : feed.buffer[j] \in Items
      BY <1>1
    <2> QED BY <2>1, <2>2
  <1>5. \A q \in Values : q.gen \in Nat /\ q.seq \in Nat /\ q.key \in Keys
    BY Constants
  <1> QED BY <1>1, <1>2, <1>3, <1>4, <1>5

\* A step of the feed leaves the ring alone.
LEMMA RingStill ==
    ASSUME RingInv, UNCHANGED ringVars
    PROVE  RingInv' /\ (Live' <=> Live)
  BY DEF ringVars, RingInv, WriterInv, RecordInv, LifeInv, WindowInv, Live, Past, InRing, Settled, Target, Quote, Cell

\* What depends on the slots is kept by a step that leaves them and the api alone and that is not
\* in the middle of one.
LEMMA SlotsStill ==
    ASSUME SlotInv, ApiInv, UNCHANGED <<slot, api>>,
           feed.pc \notin {"cleared", "bookFront", "bookBack"}, feed'.pc \notin {"cleared", "bookFront", "bookBack"}
    PROVE  SlotInv' /\ ApiInv'
  <1>1. SlotInv'
    BY DEF SlotInv, Busy
  <1>2. ApiInv'
    BY DEF ApiInv
  <1> QED BY <1>1, <1>2

\* A step that only moves the feed forward from one stage to another.
LEMMA OpenReaderKeeps ==
    ASSUME MInv, OpenReader
    PROVE  MInv'
  <1>0. /\ Types /\ RingInv /\ PassInv /\ LifeKnown /\ CopyInv
        /\ SlotInv /\ StatusInv /\ ApiInv /\ GenuineInv /\ CoverInv
    BY DEF MInv
  <1>u. /\ header' = header /\ record' = record /\ writer' = writer /\ cursor' = cursor
        /\ slot' = slot /\ status' = status /\ api' = api /\ UNCHANGED ringVars
    BY DEF OpenReader, OnlyFeed, ringVars, bookVars
  <1>f. /\ feed.pc = "open" /\ feed' = [feed EXCEPT !.pc = "generation"] /\ feed'.pc = "generation"
        /\ feed'.gen = feed.gen /\ feed'.buffer = feed.buffer /\ feed'.failed = feed.failed
    BY <1>0 DEF OpenReader, FeedGoto, Types, FeedType
  <1>b. feed.buffer = <<>> /\ ~feed.failed
    BY <1>0, <1>f DEF PassInv, Reading, Clearing, Booking
  <1>1. Types'
    BY <1>0, <1>u, <1>f DEF Types, FeedType, FeedSteps
  <1>2. PassInv'
    BY <1>0, <1>u, <1>f, <1>b DEF PassInv, Reading
  <1>3. LifeKnown'
    BY <1>0, <1>u, <1>f DEF LifeKnown, Present, Past, Reading
  <1>4. CopyInv'
    BY <1>0, <1>u, <1>f DEF CopyInv
  <1>5. StatusInv'
    BY <1>0, <1>u, <1>f DEF StatusInv, Awaiting, Clearing
  <1>6. GenuineInv'
    BY <1>0, <1>u, <1>f, <1>b DEF GenuineInv, Present, Awaiting, Clearing, Genuine, Past, InRing, Cell
  <1>7. CoverInv'
    BY <1>0, <1>u, <1>f DEF CoverInv, Live, Present, InRing, Cell, Dealt, Booked, Reading, Clearing, Booking
  <1> QED BY <1>0, <1>1, <1>2, <1>3, <1>4, <1>5, <1>6, <1>7, <1>u, <1>f, RingStill, SlotsStill DEF MInv

\* The handler of exceptions, from any stage at which the reader can throw.
LEMMA PassFailsKeeps ==
    ASSUME MInv, PassFails, UNCHANGED <<ringVars, api>>, feed.pc \in {"open"} \cup Reading
    PROVE  MInv'
  <1>0. /\ Types /\ RingInv /\ PassInv /\ LifeKnown /\ CopyInv
        /\ SlotInv /\ StatusInv /\ ApiInv /\ GenuineInv /\ CoverInv
    BY DEF MInv
  <1>u. /\ header' = header /\ record' = record /\ writer' = writer /\ cursor' = cursor
        /\ slot' = slot /\ api' = api /\ UNCHANGED ringVars
    BY DEF PassFails, ringVars
  <1> DEFINE clears == ClearsSlots(cursor.gen)
  <1>f. /\ feed'.pc = (IF clears THEN "clear" ELSE "open") /\ feed'.todo = (IF clears THEN Keys ELSE {})
        /\ feed'.failed = clears /\ feed'.gen = 0 /\ feed'.buffer = <<>> /\ status'.gen = cursor.gen
    BY DEF PassFails, NoPass
  <1>c. clears <=> cursor.gen # 0 /\ status.gen # 0 /\ cursor.gen # status.gen
    BY DEF ClearsSlots
  <1>1. Types'
    <2>1. feed' \in FeedType
      <3>1. clears \in BOOLEAN
        BY DEF ClearsSlots
      <3>2. NoPass \in FeedType
        BY Constants DEF NoPass, FeedType, FeedSteps
      <3>3. feed' = [NoPass EXCEPT !.pc = IF clears THEN "clear" ELSE "open",
                                   !.todo = IF clears THEN Keys ELSE {}, !.failed = clears]
        BY DEF PassFails
      <3> HIDE DEF clears
      <3> QED BY <3>1, <3>2, <3>3 DEF FeedType, FeedSteps
    <2>2. status' \in StatusType
      BY <1>0 DEF PassFails, StatusType, Types, CursorType
    <2> QED BY <1>0, <1>u, <2>1, <2>2 DEF Types
  <1> HIDE DEF clears
  <1>2. PassInv'
    <2>1. Len(feed'.buffer) = 0 /\ Capacity \in Nat /\ Capacity > 0
      BY <1>f, Constants
    <2> QED BY <1>f, <2>1 DEF PassInv, Reading, Clearing
  <1>3. LifeKnown'
    <2>1. \A i \in Cells : record[i].back.gen >= 0
      BY <1>0, RingTypes, FeedTypes, SMTT(30)
    <2> QED BY <1>0, <1>u, <1>f, <2>1, RingTypes DEF LifeKnown, Present, Past, Reading
  <1>4. CopyInv'
    BY <1>f DEF CopyInv, Present
  <1>5. StatusInv'
    <2>1. cursor.gen = 0 => status.gen = 0
      BY <1>0 DEF StatusInv
    <2>2. status.gen = 0 => \A k \in Keys : ~slot[k].shown
      BY <1>0 DEF StatusInv
    <2>3. ASSUME NEW k \in Keys, slot[k].shown PROVE slot[k].back.gen >= cursor.gen \/ clears
      <3>1. slot[k].back.gen >= status.gen
        BY <1>0, <2>3 DEF StatusInv, Awaiting, Clearing, Reading
      <3> QED BY <1>c, <2>1, <2>2, <2>3, <3>1
    <2> QED BY <1>u, <1>f, <2>1, <2>2, <2>3 DEF StatusInv, Awaiting, Clearing, Reading
  <1>6. GenuineInv'
    <2> SUFFICES ASSUME Present(cursor.gen), NEW k \in Keys, slot[k].shown, ~clears
                 PROVE  slot[k].back.key = k /\ Genuine(slot[k].back, slot[k].seq)
      BY <1>u, <1>f DEF GenuineInv, Present, Awaiting, Clearing, Genuine, Past, InRing, Cell
    <2>1. status.gen = cursor.gen
      BY <1>0, <1>c DEF StatusInv, Present
    <2> QED BY <1>0, <2>1 DEF GenuineInv, Awaiting, Clearing, Reading
  <1>7. CoverInv'
    <2> SUFFICES ASSUME Live, Present(cursor.gen), NEW n \in Numbers, InRing(n)
                 PROVE  Dealt(n)'
      BY <1>u DEF CoverInv, Live, Present, InRing, Cell
    <2>1. n <= cursor.seq => status.gen = cursor.gen /\ Booked(n)
      BY <1>0 DEF CoverInv, Dealt
    <2> QED BY <1>u, <1>f, <1>c, <2>1 DEF Dealt, Booked, Cell, Reading, Clearing, Booking
  <1>8. feed.pc \notin {"cleared", "bookFront", "bookBack"} /\ feed'.pc \notin {"cleared", "bookFront", "bookBack"}
    BY <1>f DEF Reading
  <1> QED BY <1>0, <1>1, <1>2, <1>3, <1>4, <1>5, <1>6, <1>7, <1>8, <1>u, RingStill, SlotsStill DEF MInv

\* A pass begins: the generation is the header's.
LEMMA LoadGenerationKeeps ==
    ASSUME MInv, LoadGeneration
    PROVE  MInv'
  <1>0. /\ Types /\ RingInv /\ PassInv /\ LifeKnown /\ CopyInv
        /\ SlotInv /\ StatusInv /\ ApiInv /\ GenuineInv /\ CoverInv
    BY DEF MInv
  <1>u. /\ header' = header /\ record' = record /\ writer' = writer /\ cursor' = cursor
        /\ slot' = slot /\ status' = status /\ api' = api /\ UNCHANGED ringVars
    BY DEF LoadGeneration, OnlyFeed, ringVars, bookVars
  <1>f. /\ feed.pc = "generation" /\ feed'.pc = "latest" /\ feed'.gen = header.gen
        /\ feed'.buffer = <<>> /\ feed'.failed = FALSE
    BY DEF LoadGeneration, NoPass
  <1>h. header.gen \in 0 .. MaxGenerations
    BY <1>0 DEF Types
  <1>1. Types'
    <2>1. NoPass \in FeedType
      BY Constants DEF NoPass, FeedType, FeedSteps
    <2>2. feed' = [NoPass EXCEPT !.pc = "latest", !.gen = header.gen]
      BY DEF LoadGeneration
    <2>3. feed' \in FeedType
      BY <1>h, <2>1, <2>2 DEF FeedType, FeedSteps
    <2> QED BY <1>0, <1>u, <2>3 DEF Types
  <1>2. PassInv'
    <2>1. Len(feed'.buffer) = 0 /\ Capacity \in Nat /\ Capacity > 0
      BY <1>f, Constants
    <2> QED BY <1>f, <2>1 DEF PassInv, Reading, Clearing
  <1>3. LifeKnown'
    <2>1. header.gen \in {0, writer.gen} /\ writer.gen \in Nat
      BY <1>0, RingTypes DEF RingInv, WriterInv
    <2>2. ASSUME NEW i \in Cells PROVE record[i].back = NoQuote \/ record[i].back.gen >= header.gen
      <3>1. record[i].back.gen \in Nat
        BY <1>0, RingTypes, FeedTypes
      <3>2. header.gen # 0 => record[i].back = NoQuote \/ record[i].back.gen = writer.gen
        BY <1>0 DEF RingInv, LifeInv, Settled
      <3> QED BY <2>1, <3>1, <3>2
    <2> QED BY <1>0, <1>u, <1>f, <2>1, <2>2 DEF LifeKnown, Present, Past, Reading
  <1>4. CopyInv'
    BY <1>f DEF CopyInv
  <1>5. StatusInv'
    BY <1>0, <1>u, <1>f DEF StatusInv, Awaiting, Clearing
  <1>6. GenuineInv'
    BY <1>0, <1>u, <1>f DEF GenuineInv, Present, Awaiting, Clearing, Genuine, Past, InRing, Cell
  <1>7. CoverInv'
    BY <1>0, <1>u, <1>f DEF CoverInv, Live, Present, InRing, Cell, Dealt, Booked, Reading, Clearing, Booking
  <1> QED BY <1>0, <1>1, <1>2, <1>3, <1>4, <1>5, <1>6, <1>7, <1>u, <1>f, RingStill, SlotsStill DEF MInv

\* The copies: what is taken is what the record holds.
LEMMA CopyKeeps ==
    ASSUME MInv, CopyFront \/ CopyBack
    PROVE  MInv'
  <1>0. /\ Types /\ RingInv /\ PassInv /\ LifeKnown /\ CopyInv
        /\ SlotInv /\ StatusInv /\ ApiInv /\ GenuineInv /\ CoverInv
    BY DEF MInv
  <1>u. /\ header' = header /\ record' = record /\ writer' = writer /\ cursor' = cursor
        /\ slot' = slot /\ status' = status /\ api' = api /\ UNCHANGED ringVars
    BY DEF CopyFront, CopyBack, OnlyFeed, ringVars, bookVars
  <1>a. feed \in FeedType
    BY <1>0 DEF Types
  <1>f. /\ feed.pc \in {"front", "back"} /\ feed'.pc \in {"back", "recheck"}
        /\ feed'.gen = feed.gen /\ feed'.buffer = feed.buffer /\ feed'.failed = feed.failed
        /\ feed'.at = feed.at /\ feed'.latest = feed.latest
        /\ feed'.pc = "back" => /\ feed'.seq = record[Cell(feed.at)].seq
                                /\ feed'.front = record[Cell(feed.at)].front
        /\ feed'.pc = "recheck" => /\ feed.pc = "back" /\ feed'.seq = feed.seq /\ feed'.front = feed.front
                                   /\ feed'.back = record[Cell(feed.at)].back
    BY <1>a, ZenonT(60) DEF CopyFront, CopyBack, FeedType
  <1>c. feed.at \in Numbers /\ Cell(feed.at) \in Cells
    <2>1. cursor.seq < feed.at /\ feed.at <= feed.latest
      BY <1>0, <1>f DEF PassInv, Reading
    <2>2. feed.at \in Numbers
      BY <1>0, <2>1, FeedTypes, Constants DEF Numbers
    <2> QED BY <2>2, CellInCells
  <1>r. /\ record[Cell(feed.at)].seq \in 0 .. MaxSequence
        /\ record[Cell(feed.at)].front \in Values /\ record[Cell(feed.at)].back \in Values
    BY <1>0, <1>c DEF Types
  <1>1. Types'
    <2>1. feed' \in FeedType
      BY <1>a, <1>r, ZenonT(60) DEF CopyFront, CopyBack, FeedType, FeedSteps
    <2> QED BY <1>0, <1>u, <2>1 DEF Types
  <1>2. PassInv'
    <2>1. feed'.pc = "recheck" => feed'.back = NoQuote \/ feed'.back.gen >= feed'.gen
      BY <1>0, <1>c, <1>f DEF LifeKnown
    <2> QED BY <1>0, <1>u, <1>f, <2>1 DEF PassInv, Reading, Clearing
  <1>3. LifeKnown'
    BY <1>0, <1>u, <1>f DEF LifeKnown, Present, Past, Reading
  <1>4. CopyInv'
    BY <1>0, <1>u, <1>f DEF CopyInv, Present, InRing, Cell
  <1>5. StatusInv'
    BY <1>0, <1>u, <1>f DEF StatusInv, Awaiting, Clearing, Booking
  <1>6. GenuineInv'
    BY <1>0, <1>u, <1>f, SMTT(30) DEF GenuineInv, Present, Awaiting, Clearing, Genuine, Past, InRing, Cell
  <1>7. CoverInv'
    BY <1>0, <1>u, <1>f DEF CoverInv, Live, Present, InRing, Cell, Dealt, Booked, Buffered, Reading, Clearing, Booking
  <1> QED BY <1>0, <1>1, <1>2, <1>3, <1>4, <1>5, <1>6, <1>7, <1>u, <1>f, RingStill, SlotsStill DEF MInv

LEMMA PairMax ==
    ASSUME NEW a \in Int, NEW b \in Int
    PROVE  Max({a, b}) \in {a, b} /\ Max({a, b}) >= a /\ Max({a, b}) >= b
  <1>1. \E x \in {a, b} : \A y \in {a, b} : x >= y
    <2>1. CASE a >= b
      BY <2>1
    <2>2. CASE b >= a
      BY <2>2
    <2> QED BY <2>1, <2>2
  <1>2. Max({a, b}) \in {a, b} /\ \A y \in {a, b} : Max({a, b}) >= y
    BY <1>1 DEF Max
  <1> QED BY <1>2

\* Where read_available starts: behind the cursor and within the last Capacity numbers.
LEMMA FirstReadFacts ==
    ASSUME NEW c, c.seq \in Nat, NEW latest \in Nat
    PROVE  /\ FirstRead(c, latest) \in Nat /\ FirstRead(c, latest) > c.seq
           /\ FirstRead(c, latest) + Capacity > latest
           /\ c.seq < latest => FirstRead(c, latest) <= latest
           /\ FirstRead(c, latest) <= c.seq + 1 \/ FirstRead(c, latest) <= latest \/ FirstRead(c, latest) = 1
           /\ \A n \in Nat : c.seq < n /\ n < FirstRead(c, latest) => n = 0 \/ n + Capacity <= latest
  <1> DEFINE lo == IF latest > Capacity THEN latest - Capacity + 1 ELSE 1
  <1>1. Capacity \in Nat /\ Capacity > 0
    BY Constants
  <1>2. lo \in Nat /\ lo >= 1 /\ lo + Capacity > latest /\ (lo = 1 \/ lo = latest - Capacity + 1)
    BY <1>1
  <1>3. FirstRead(c, latest) = Max({c.seq + 1, lo})
    BY DEF FirstRead
  <1> HIDE DEF lo
  <1>4. Max({c.seq + 1, lo}) \in {c.seq + 1, lo} /\ Max({c.seq + 1, lo}) >= c.seq + 1 /\ Max({c.seq + 1, lo}) >= lo
    <2>1. c.seq + 1 \in Int /\ lo \in Int
      BY <1>2
    <2> QED BY <2>1, PairMax
  <1> QED BY <1>1, <1>2, <1>3, <1>4

\* The latest number: the cursor is reset for another life, and what the reading skips is not in
\* the ring any more.
LEMMA LoadLatestKeeps ==
    ASSUME MInv, LoadLatest
    PROVE  MInv'
  <1>0. /\ Types /\ RingInv /\ PassInv /\ LifeKnown /\ CopyInv
        /\ SlotInv /\ StatusInv /\ ApiInv /\ GenuineInv /\ CoverInv
    BY DEF MInv
  <1>u. /\ header' = header /\ record' = record /\ writer' = writer
        /\ slot' = slot /\ status' = status /\ api' = api /\ UNCHANGED ringVars
    BY DEF LoadLatest, ringVars, bookVars
  <1>a. feed \in FeedType /\ feed.pc = "latest" /\ cursor \in CursorType
    BY <1>0 DEF Types, LoadLatest
  <1>b. feed.buffer = <<>> /\ ~feed.failed /\ Len(feed.buffer) = 0
    BY <1>0, <1>a DEF PassInv, Reading, Clearing, Booking
  <1>s. status.gen = cursor.gen
    BY <1>0, <1>a DEF StatusInv
  <1>p. header.published \in Nat /\ header.published <= MaxSequence
    BY <1>0, Constants DEF Types
  <1>A. CASE feed.gen = 0
    <2>f. /\ feed' = [feed EXCEPT !.pc = "status"] /\ cursor' = cursor /\ feed'.pc = "status"
          /\ feed'.gen = feed.gen /\ feed'.buffer = feed.buffer /\ feed'.failed = feed.failed
      BY <1>a, <1>A DEF LoadLatest, FeedGoto, FeedType
    <2>1. Types'
      BY <1>0, <1>u, <2>f DEF Types, FeedType, FeedSteps
    <2>2. PassInv'
      BY <1>0, <1>u, <2>f, <1>b DEF PassInv, Reading
    <2>3. LifeKnown'
      BY <1>0, <1>u, <2>f DEF LifeKnown, Present, Past, Reading
    <2>4. CopyInv'
      BY <1>0, <1>u, <2>f DEF CopyInv
    <2>5. StatusInv'
      BY <1>0, <1>u, <1>a, <2>f DEF StatusInv, Awaiting, Clearing, Booking
    <2>6. GenuineInv'
      BY <1>0, <1>u, <1>a, <2>f, <1>b DEF GenuineInv, Present, Awaiting, Clearing, Genuine, Past, InRing, Cell
    <2>7. CoverInv'
      BY <1>0, <1>u, <1>a, <2>f DEF CoverInv, Live, Present, InRing, Cell, Dealt, Booked, Reading, Clearing, Booking
    <2> QED BY <1>0, <2>1, <2>2, <2>3, <2>4, <2>5, <2>6, <2>7, <1>u, <1>a, <2>f, RingStill, SlotsStill DEF MInv
  <1>B. CASE feed.gen # 0
    <2> DEFINE latest == header.published
               c == ResetCursor(feed.gen, latest)
    <2>c. /\ c \in CursorType /\ c.gen = feed.gen /\ c.seq \in Nat /\ c.seq <= latest
          /\ c.seq # 0 => c = cursor
      BY <1>a, <1>p, Constants DEF ResetCursor, CursorType, FeedType
    <2>f. /\ cursor' = c
          /\ feed' = [feed EXCEPT !.latest = latest, !.at = FirstRead(c, latest),
                                  !.pc = IF latest <= c.seq THEN "status" ELSE "check"]
      BY <1>B DEF LoadLatest
    <2> HIDE DEF c
    <2>r. /\ FirstRead(c, latest) \in Nat /\ FirstRead(c, latest) > c.seq
          /\ FirstRead(c, latest) + Capacity > latest
          /\ c.seq < latest => FirstRead(c, latest) <= latest
          /\ FirstRead(c, latest) <= c.seq + 1 \/ FirstRead(c, latest) <= latest \/ FirstRead(c, latest) = 1
          /\ \A n \in Nat : c.seq < n /\ n < FirstRead(c, latest) => n = 0 \/ n + Capacity <= latest
      BY <1>p, <2>c, FirstReadFacts
    <2>g. /\ feed'.pc = (IF latest <= c.seq THEN "status" ELSE "check")
          /\ feed'.gen = feed.gen /\ feed'.buffer = <<>> /\ feed'.failed = FALSE
          /\ feed'.at = FirstRead(c, latest) /\ feed'.latest = latest
      BY <1>a, <1>b, <2>f DEF FeedType
    <2>1. Types'
      <3>1. FirstRead(c, latest) \in 0 .. MaxSequence + 1 /\ latest \in 0 .. MaxSequence
        BY <1>p, <2>c, <2>r, Constants
      <3>2. feed' \in FeedType
        BY <1>a, <2>f, <3>1 DEF FeedType, FeedSteps
      <3> QED BY <1>0, <1>u, <2>c, <2>f, <3>2 DEF Types
    <2>2. PassInv'
      <3>1. Len(feed'.buffer) = 0 /\ Capacity \in Nat /\ Capacity > 0
        BY <2>g, Constants
      <3>2. feed'.pc \in Reading => feed'.at <= feed'.latest /\ 0 + feed'.latest - feed'.at < Capacity
        BY <1>p, <2>c, <2>g, <2>r, <3>1 DEF Reading
      <3> QED BY <1>B, <2>c, <2>f, <2>g, <2>r, <3>1, <3>2 DEF PassInv, Clearing
    <2>p. Past(latest) /\ (Present(feed.gen) => header.gen = writer.gen) /\ feed.gen <= writer.gen
      BY <1>0 DEF RingInv, WriterInv, LifeKnown
    <2>3. LifeKnown'
      <3>1. Past(c.seq)
        BY <1>0, <1>p, <2>c, <2>p, PastBelow
      <3> QED BY <1>0, <1>u, <2>c, <2>f, <2>g, <2>p, <3>1 DEF LifeKnown, Present, Past, Reading
    <2>4. CopyInv'
      BY <2>g DEF CopyInv
    <2>5. StatusInv'
      BY <1>0, <1>u, <1>a, <1>B, <2>c, <2>f, <2>g DEF StatusInv, Awaiting, Clearing, Booking
    <2>6. GenuineInv'
      <3> SUFFICES ASSUME Present(c.gen), status.gen = c.gen, NEW k \in Keys, slot[k].shown
                   PROVE  slot[k].back.key = k /\ Genuine(slot[k].back, slot[k].seq)
        BY <1>u, <2>f, <2>g DEF GenuineInv, Present, Awaiting, Genuine, Past, InRing, Cell
      <3>1. Present(cursor.gen) /\ status.gen = cursor.gen
        BY <1>s
      <3> QED BY <1>0, <1>a, <3>1 DEF GenuineInv, Awaiting, Clearing
    <2>7. CoverInv'
      <3> SUFFICES ASSUME Live, Present(c.gen), NEW n \in Numbers, InRing(n)
                   PROVE  Dealt(n)'
        BY <1>u, <2>f DEF CoverInv, Live, Present, InRing, Cell
      <3>n. n \in Nat /\ n # 0
        BY DEF Numbers
      <3>1. n <= c.seq => status.gen = c.gen /\ Booked(n)
        <4> SUFFICES ASSUME n <= c.seq PROVE status.gen = c.gen /\ Booked(n)
          OBVIOUS
        <4>1. c = cursor
          BY <2>c, <3>n
        <4>2. Dealt(n)
          BY <1>0, <4>1 DEF CoverInv
        <4> QED BY <1>a, <4>1, <4>2 DEF Dealt
      <3>2. ~(c.seq < n /\ n < FirstRead(c, latest))
        <4> SUFFICES ASSUME n + Capacity <= latest PROVE FALSE
          BY <2>r, <3>n
        <4>1. Cell(n) \in Cells /\ record[Cell(n)].committed = n
          BY CellInCells DEF InRing
        <4>2. writer.seq < n + Capacity \/ (writer.pc = "invalidate" /\ writer.seq = n + Capacity)
          BY <1>0, <3>n, <4>1 DEF RingInv, WindowInv
        <4>3. writer.seq \in Nat
          BY <1>0, RingTypes
        <4> QED BY <1>p, <2>p, <3>n, <4>2, <4>3, Constants DEF Past, Overwriting
      <3>3. Booked(n) => Booked(n)'
        BY <1>u DEF Booked, Cell
      <3> QED BY <1>u, <2>f, <2>g, <3>1, <3>2, <3>3 DEF Dealt, Reading, Clearing, Booking
    <2>8. feed'.pc \notin {"cleared", "bookFront", "bookBack"}
      BY <2>g
    <2> QED BY <1>0, <2>1, <2>2, <2>3, <2>4, <2>5, <2>6, <2>7, <2>8, <1>u, <1>a, RingStill, SlotsStill DEF MInv
  <1> QED BY <1>A, <1>B

\* The next number, with the buffer b: either the number was taken into b or it is not in the ring.
LEMMA AdvanceKeeps ==
    ASSUME MInv, NEW b \in Seq(Items), Advance(b), UNCHANGED <<ringVars, bookVars, api>>,
           feed.pc \in {"check", "recheck"},
           Len(b) \in Len(feed.buffer) .. Len(feed.buffer) + 1,
           \A j \in 1 .. Len(feed.buffer) : b[j] = feed.buffer[j],
           \A j \in 1 .. Len(b) : b[j].back # NoQuote /\ b[j].back.gen >= feed.gen,
           Present(feed.gen) => \A j \in 1 .. Len(b) : Genuine(b[j].back, b[j].seq),
           Present(feed.gen) /\ InRing(feed.at) => \E j \in 1 .. Len(b) : b[j].seq = feed.at
    PROVE  MInv'
  <1>0. /\ Types /\ RingInv /\ PassInv /\ LifeKnown /\ CopyInv
        /\ SlotInv /\ StatusInv /\ ApiInv /\ GenuineInv /\ CoverInv
    BY DEF MInv
  <1>u. /\ header' = header /\ record' = record /\ writer' = writer
        /\ slot' = slot /\ status' = status /\ api' = api /\ UNCHANGED ringVars
    BY DEF ringVars, bookVars
  <1>a. feed \in FeedType /\ cursor \in CursorType
    BY <1>0 DEF Types
  <1>t. /\ feed.gen \in Nat /\ feed.latest \in Nat /\ feed.latest <= MaxSequence /\ feed.at \in Nat
        /\ cursor.gen \in Nat /\ cursor.seq \in Nat /\ Len(feed.buffer) \in Nat /\ Len(b) \in Nat
        /\ Capacity \in Nat /\ MaxSequence \in Nat
    BY <1>0, FeedTypes, Constants
  <1>p. /\ feed.gen # 0 /\ cursor.gen = feed.gen /\ cursor.seq < feed.at /\ feed.at <= feed.latest
        /\ Len(feed.buffer) + feed.latest - feed.at < Capacity /\ ~feed.failed
    BY <1>0 DEF PassInv, Reading, Clearing
  <1>l. Len(b) <= Capacity
    BY <1>t, <1>p
  <1>f. /\ feed'.gen = feed.gen /\ feed'.buffer = b /\ ~feed'.failed /\ feed'.latest = feed.latest
        /\ feed.at < feed.latest => feed'.pc = "check" /\ feed'.at = feed.at + 1 /\ cursor' = cursor
        /\ ~(feed.at < feed.latest) =>
              /\ feed'.pc = "status" /\ cursor' = [gen |-> feed.gen, seq |-> feed.latest] /\ feed.at = feed.latest
    <2>1. CASE feed.at < feed.latest
      <3>1. feed' = [feed EXCEPT !.at = @ + 1, !.pc = "check", !.buffer = b] /\ cursor' = cursor
        BY <2>1 DEF Advance
      <3>2. /\ feed'.gen = feed.gen /\ feed'.buffer = b /\ feed'.failed = feed.failed /\ feed'.latest = feed.latest
            /\ feed'.pc = "check" /\ feed'.at = feed.at + 1
        BY <1>a, <3>1 DEF FeedType
      <3> QED BY <1>p, <2>1, <3>1, <3>2
    <2>2. CASE ~(feed.at < feed.latest)
      <3>1. feed' = [feed EXCEPT !.pc = "status", !.buffer = b] /\ cursor' = [gen |-> feed.gen, seq |-> feed.latest]
        BY <2>2 DEF Advance, Processed
      <3>2. /\ feed'.gen = feed.gen /\ feed'.buffer = b /\ feed'.failed = feed.failed /\ feed'.latest = feed.latest
            /\ feed'.pc = "status"
        BY <1>a, <3>1 DEF FeedType
      <3>3. feed.at = feed.latest
        BY <1>t, <1>p, <2>2
      <3> QED BY <1>p, <2>2, <3>1, <3>2, <3>3
    <2> QED BY <2>1, <2>2
  <1>g. cursor'.gen = feed.gen /\ feed'.pc \in {"check", "status"}
    BY <1>f, <1>p
  <1>1. Types'
    <2>1. cursor' \in CursorType
      BY <1>a, <1>t, <1>f DEF CursorType, FeedType
    <2>2. feed.at < feed.latest => feed.at + 1 \in 0 .. MaxSequence + 1
      BY <1>t, SMTT(30)
    <2>3. feed' \in FeedType
      BY <1>a, <2>2, ZenonT(60) DEF Advance, FeedType, FeedSteps
    <2> QED BY <1>0, <1>u, <2>1, <2>3 DEF Types
  <1>2. PassInv'
    <2>1. feed'.pc \in Reading => /\ cursor'.seq < feed'.at /\ feed'.at <= feed'.latest
                                  /\ Len(feed'.buffer) + feed'.latest - feed'.at < Capacity
      BY <1>t, <1>p, <1>f, SMTT(30) DEF Reading
    <2> QED BY <1>p, <1>l, <1>f, <1>g, <2>1 DEF PassInv, Reading
  <1>3. LifeKnown'
    <2>1. Present(feed.gen) => Past(feed.latest) /\ Past(cursor.seq)
      BY <1>0, <1>p DEF LifeKnown, Reading
    <2>2. Present(feed.gen) => Past(cursor'.seq)
      BY <1>f, <2>1
    <2> QED BY <1>0, <1>u, <1>p, <1>f, <1>g, <2>1, <2>2 DEF LifeKnown, Present, Past
  <1>4. CopyInv'
    BY <1>g DEF CopyInv
  <1>5. StatusInv'
    BY <1>0, <1>u, <1>p, <1>g DEF StatusInv, Awaiting, Clearing, Booking
  <1>6. GenuineInv'
    <2>1. ASSUME Present(cursor.gen), status.gen = cursor.gen, NEW k \in Keys, slot[k].shown
          PROVE  slot[k].back.key = k /\ Genuine(slot[k].back, slot[k].seq)
      BY <1>0, <2>1 DEF GenuineInv, Awaiting, Clearing
    <2> QED BY <1>u, <1>p, <1>f, <1>g, <2>1 DEF GenuineInv, Present, Awaiting, Genuine, Past, InRing, Cell
  <1>7. CoverInv'
    <2> SUFFICES ASSUME Live, Present(feed.gen), NEW n \in Numbers, InRing(n)
                 PROVE  Dealt(n)'
      BY <1>u, <1>g DEF CoverInv, Live, Present, InRing, Cell
    <2>1. Dealt(n) /\ n \in Nat
      BY <1>0, <1>p, SMTT(30) DEF CoverInv, Numbers
    <2>2. n <= cursor.seq => status'.gen = cursor'.gen /\ Booked(n)'
      BY <1>u, <1>p, <1>g, <2>1 DEF Dealt, Booked, Cell, Reading
    <2>3. cursor.seq < n /\ n <= feed.at => Buffered(n)'
      <3> SUFFICES ASSUME cursor.seq < n, n <= feed.at PROVE \E j \in 1 .. Len(b) : b[j].seq = n
        BY <1>f DEF Buffered
      <3>1. CASE n = feed.at
        BY <3>1
      <3>2. CASE n < feed.at
        <4>1. PICK j \in 1 .. Len(feed.buffer) : feed.buffer[j].seq = n
          BY <2>1, <3>2 DEF Dealt, Reading, Buffered
        <4>2. j \in 1 .. Len(b) /\ b[j] = feed.buffer[j]
          BY <1>t
        <4> QED BY <4>1, <4>2
      <3> QED BY <1>t, <2>1, <3>1, <3>2
    <2>4. CASE feed.at < feed.latest
      BY <1>t, <1>f, <2>1, <2>2, <2>3, <2>4, SMTT(30) DEF Dealt, Reading, Clearing, Booking
    <2>5. CASE ~(feed.at < feed.latest)
      <3>1. feed'.pc = "status" /\ cursor'.seq = feed.at
        BY <1>f, <2>5
      <3> QED BY <1>t, <2>1, <2>2, <2>3, <3>1 DEF Dealt, Reading, Clearing, Booking
    <2> QED BY <2>4, <2>5
  <1>8. feed.pc \notin {"cleared", "bookFront", "bookBack"} /\ feed'.pc \notin {"cleared", "bookFront", "bookBack"}
    BY <1>g
  <1> QED BY <1>0, <1>1, <1>2, <1>3, <1>4, <1>5, <1>6, <1>7, <1>8, <1>u, RingStill, SlotsStill DEF MInv

\* The number the feed is at.
LEMMA AtNumber ==
    ASSUME Types, RingInv, PassInv, LifeKnown, feed.pc \in Reading
    PROVE  /\ feed.at \in Numbers /\ Cell(feed.at) \in Cells /\ feed.at # 0
           /\ Present(feed.gen) => Past(feed.at)
  <1>1. cursor.seq < feed.at /\ feed.at <= feed.latest
    BY DEF PassInv
  <1>t. /\ cursor.seq \in Nat /\ feed.at \in Nat /\ feed.latest \in Nat /\ feed.latest <= MaxSequence
        /\ MaxSequence \in Nat
    BY FeedTypes, Constants
  <1>2. feed.at \in Numbers /\ feed.at # 0
    BY <1>1, <1>t DEF Numbers
  <1>3. Present(feed.gen) => Past(feed.at)
    BY <1>1, <1>t, PastBelow DEF LifeKnown
  <1> QED BY <1>2, <1>3, CellInCells

LEMMA CheckCommittedKeeps ==
    ASSUME MInv, CheckCommitted
    PROVE  MInv'
  <1>0. /\ Types /\ RingInv /\ PassInv /\ LifeKnown /\ CopyInv
        /\ SlotInv /\ StatusInv /\ ApiInv /\ GenuineInv /\ CoverInv
    BY DEF MInv
  <1>u. UNCHANGED <<ringVars, bookVars, api>> /\ feed.pc = "check"
    BY DEF CheckCommitted
  <1>1. CASE record[Cell(feed.at)].committed = feed.at
    <2>u. /\ header' = header /\ record' = record /\ writer' = writer /\ cursor' = cursor
          /\ slot' = slot /\ status' = status /\ api' = api /\ UNCHANGED ringVars
      BY <1>1, <1>u DEF CheckCommitted, ringVars, bookVars
    <2>a. feed \in FeedType /\ feed' = [feed EXCEPT !.pc = "front"]
      BY <1>0, <1>1 DEF CheckCommitted, FeedGoto, Types
    <2>f. /\ feed'.pc = "front" /\ feed'.gen = feed.gen /\ feed'.buffer = feed.buffer /\ feed'.failed = feed.failed
          /\ feed'.at = feed.at /\ feed'.latest = feed.latest
      BY <2>a DEF FeedType
    <2>1. Types'
      BY <1>0, <2>u, <2>a DEF Types, FeedType, FeedSteps
    <2>2. PassInv'
      BY <1>0, <1>u, <2>u, <2>f DEF PassInv, Reading, Clearing
    <2>3. LifeKnown'
      BY <1>0, <1>u, <2>u, <2>f DEF LifeKnown, Present, Past, Reading
    <2>4. CopyInv'
      BY <2>f DEF CopyInv
    <2>5. StatusInv'
      BY <1>0, <1>u, <2>u, <2>f DEF StatusInv, Awaiting, Clearing, Booking
    <2>6. GenuineInv'
      BY <1>0, <1>u, <2>u, <2>f DEF GenuineInv, Present, Awaiting, Clearing, Genuine, Past, InRing, Cell
    <2>7. CoverInv'
      BY <1>0, <1>u, <2>u, <2>f DEF CoverInv, Live, Present, InRing, Cell, Dealt, Booked, Buffered, Reading, Clearing, Booking
    <2> QED BY <1>0, <1>u, <2>1, <2>2, <2>3, <2>4, <2>5, <2>6, <2>7, <2>u, <2>f, RingStill, SlotsStill DEF MInv
  <1>2. CASE record[Cell(feed.at)].committed # feed.at
    <2>1. Advance(feed.buffer) /\ ~InRing(feed.at)
      BY <1>2 DEF CheckCommitted, InRing
    <2>2. feed.buffer \in Seq(Items) /\ Len(feed.buffer) \in Nat
      BY <1>0, FeedTypes
    <2>3. /\ Len(feed.buffer) \in Len(feed.buffer) .. Len(feed.buffer) + 1
          /\ \A j \in 1 .. Len(feed.buffer) : feed.buffer[j] = feed.buffer[j]
          /\ \A j \in 1 .. Len(feed.buffer) : feed.buffer[j].back # NoQuote /\ feed.buffer[j].back.gen >= feed.gen
          /\ Present(feed.gen) => \A j \in 1 .. Len(feed.buffer) : Genuine(feed.buffer[j].back, feed.buffer[j].seq)
      BY <1>0, <2>2 DEF PassInv, GenuineInv
    <2> QED BY <1>u, <2>1, <2>2, <2>3, AdvanceKeeps
  <1> QED BY <1>1, <1>2

\* What the second look at committed_sequence is for: a copy that is kept is a quote of the ring,
\* and a number that is given up has left the ring.
LEMMA RecheckKeeps ==
    ASSUME MInv, Recheck
    PROVE  MInv'
  <1>0. /\ Types /\ RingInv /\ PassInv /\ LifeKnown /\ CopyInv
        /\ SlotInv /\ StatusInv /\ ApiInv /\ GenuineInv /\ CoverInv
    BY DEF MInv
  <1>u. UNCHANGED <<ringVars, api>> /\ feed.pc = "recheck" /\ feed.pc \in Reading
    BY DEF Recheck, Reading
  <1>n. /\ feed.at \in Numbers /\ Cell(feed.at) \in Cells /\ feed.at # 0
        /\ Present(feed.gen) => Past(feed.at)
    BY <1>0, <1>u, AtNumber
  <1>r. InRing(feed.at) => /\ record[Cell(feed.at)].seq = feed.at
                           /\ record[Cell(feed.at)].back.seq = feed.at
    BY <1>0, <1>n DEF RingInv, RecordInv, InRing
  <1>c. Present(feed.gen) /\ InRing(feed.at) => feed.seq = feed.at /\ feed.back = record[Cell(feed.at)].back
    BY <1>0, <1>u, <1>r DEF CopyInv
  <1>b. /\ feed.buffer \in Seq(Items) /\ Len(feed.buffer) \in Nat /\ feed.front \in Values /\ feed.back \in Values
        /\ \A j \in 1 .. Len(feed.buffer) : feed.buffer[j].back # NoQuote /\ feed.buffer[j].back.gen >= feed.gen
        /\ Present(feed.gen) => \A j \in 1 .. Len(feed.buffer) : Genuine(feed.buffer[j].back, feed.buffer[j].seq)
    BY <1>0, FeedTypes DEF PassInv, GenuineInv
  <1>1. CASE ~Unchanged
    <2>1. Advance(feed.buffer) /\ UNCHANGED bookVars
      BY <1>1 DEF Recheck
    <2>2. ~(Present(feed.gen) /\ InRing(feed.at))
      BY <1>1, <1>c DEF Unchanged, InRing
    <2>3. /\ Len(feed.buffer) \in Len(feed.buffer) .. Len(feed.buffer) + 1
          /\ \A j \in 1 .. Len(feed.buffer) : feed.buffer[j] = feed.buffer[j]
      BY <1>b
    <2>4. UNCHANGED <<ringVars, bookVars, api>>
      BY <1>u, <2>1
    <2> QED BY <1>u, <1>b, <2>1, <2>2, <2>3, <2>4, AdvanceKeeps
  <1>2. CASE Unchanged /\ feed.back = NoQuote
    <2>1. PassFails
      BY <1>2 DEF Recheck
    <2> QED BY <1>u, <2>1, PassFailsKeeps
  <1>3. CASE Unchanged /\ feed.back # NoQuote
    <2> DEFINE item == [front |-> feed.front, back |-> feed.back, seq |-> feed.at]
               b == Append(feed.buffer, item)
    <2>1. Advance(b) /\ UNCHANGED bookVars
      BY <1>3 DEF Recheck
    <2>2. item \in Items /\ item.back = feed.back /\ item.seq = feed.at
      BY <1>n, <1>b DEF Items
    <2>3. Present(feed.gen) => Genuine(item.back, item.seq)
      <3>1. InRing(feed.at)
        BY <1>3 DEF Unchanged, InRing
      <3> QED BY <1>n, <1>r, <1>c, <2>2, <3>1 DEF Genuine
    <2>4. feed.back.gen >= feed.gen
      BY <1>0, <1>u, <1>3 DEF PassInv
    <2> HIDE DEF item
    <2>5. /\ b \in Seq(Items) /\ Len(b) = Len(feed.buffer) + 1 /\ b[Len(feed.buffer) + 1] = item
          /\ \A j \in 1 .. Len(feed.buffer) : b[j] = feed.buffer[j]
      BY <1>b, <2>2
    <2> HIDE DEF b
    <2>6. \A j \in 1 .. Len(b) : j \in 1 .. Len(feed.buffer) \/ j = Len(feed.buffer) + 1
      BY <1>b, <2>5
    <2>7. /\ \A j \in 1 .. Len(b) : b[j].back # NoQuote /\ b[j].back.gen >= feed.gen
          /\ Present(feed.gen) => \A j \in 1 .. Len(b) : Genuine(b[j].back, b[j].seq)
      BY <1>3, <1>b, <2>2, <2>3, <2>4, <2>5, <2>6
    <2>8. Len(b) \in Len(feed.buffer) .. Len(feed.buffer) + 1 /\ Len(b) \in 1 .. Len(b)
      BY <1>b, <2>5
    <2>9. \E j \in 1 .. Len(b) : b[j].seq = feed.at
      BY <2>2, <2>5, <2>8
    <2>10. UNCHANGED <<ringVars, bookVars, api>>
      BY <1>u, <2>1
    <2> QED BY <1>u, <2>1, <2>5, <2>7, <2>8, <2>9, <2>10, AdvanceKeeps
  <1> QED BY <1>1, <1>2, <1>3

\* The book learns of another life: all its slots are to be cleared, or none shows anything.
LEMMA CompareGenerationKeeps ==
    ASSUME MInv, CompareGeneration
    PROVE  MInv'
  <1>0. /\ Types /\ RingInv /\ PassInv /\ LifeKnown /\ CopyInv
        /\ SlotInv /\ StatusInv /\ ApiInv /\ GenuineInv /\ CoverInv
    BY DEF MInv
  <1>u. /\ header' = header /\ record' = record /\ writer' = writer /\ cursor' = cursor
        /\ slot' = slot /\ api' = api /\ UNCHANGED ringVars
    BY DEF CompareGeneration, ringVars
  <1>a. feed \in FeedType /\ feed.pc = "status" /\ cursor \in CursorType
    BY <1>0 DEF Types, CompareGeneration
  <1> DEFINE other == cursor.gen # status.gen
             clears == ClearsSlots(cursor.gen)
  <1>c. /\ clears <=> cursor.gen # 0 /\ status.gen # 0 /\ cursor.gen # status.gen
        /\ clears => other
        /\ other => cursor.gen # 0
        /\ other /\ ~clears => \A k \in Keys : ~slot[k].shown
    BY <1>0 DEF ClearsSlots, StatusInv
  <1>f. /\ feed'.gen = feed.gen /\ feed'.buffer = feed.buffer /\ feed'.failed = feed.failed
        /\ feed'.pc = (IF clears THEN "clear" ELSE "book") /\ (clears => feed'.todo = Keys)
        /\ status'.gen = cursor.gen /\ feed' \in FeedType /\ status' \in StatusType
    <2>1. CASE other
      <3>1. /\ feed' = [feed EXCEPT !.pc = IF clears THEN "clear" ELSE "book", !.todo = Keys]
            /\ status' = [mapped |-> TRUE, gen |-> cursor.gen, last |-> 0]
        BY <2>1 DEF CompareGeneration
      <3> HIDE DEF clears
      <3> QED BY <1>a, <3>1, Constants DEF FeedType, FeedSteps, StatusType, CursorType
    <2>2. CASE ~other
      <3>1. feed' = [feed EXCEPT !.pc = "book"] /\ status' = status
        BY <2>2 DEF CompareGeneration, FeedGoto
      <3>2. ~clears /\ status \in StatusType
        BY <1>0, <1>c, <2>2 DEF Types
      <3> HIDE DEF clears
      <3> QED BY <1>a, <2>2, <3>1, <3>2 DEF FeedType, FeedSteps
    <2> QED BY <2>1, <2>2
  <1> HIDE DEF clears
  <1>1. Types'
    BY <1>0, <1>u, <1>f DEF Types
  <1>2. PassInv'
    BY <1>0, <1>u, <1>a, <1>f DEF PassInv, Reading, Clearing, Booking
  <1>3. LifeKnown'
    BY <1>0, <1>u, <1>f DEF LifeKnown, Present, Past, Reading
  <1>4. CopyInv'
    BY <1>f DEF CopyInv
  <1>5. StatusInv'
    <2>1. ASSUME NEW k \in Keys, slot[k].shown PROVE clears \/ (~other /\ slot[k].back.gen >= status.gen)
      BY <1>0, <1>a, <1>c, <2>1 DEF StatusInv, Awaiting, Clearing
    <2> QED BY <1>0, <1>u, <1>f, <1>c, <2>1 DEF StatusInv, Awaiting, Clearing
  <1>6. GenuineInv'
    <2>1. ASSUME Present(cursor.gen), NEW k \in Keys, slot[k].shown, ~clears
          PROVE  slot[k].back.key = k /\ Genuine(slot[k].back, slot[k].seq)
      BY <1>0, <1>a, <1>c, <2>1 DEF GenuineInv, Awaiting, Clearing
    <2> QED BY <1>0, <1>u, <1>f, <2>1 DEF GenuineInv, Present, Awaiting, Clearing, Genuine, Past, InRing, Cell
  <1>7. CoverInv'
    <2> SUFFICES ASSUME Live, Present(cursor.gen), NEW n \in Numbers, InRing(n)
                 PROVE  Dealt(n)'
      BY <1>u DEF CoverInv, Live, Present, InRing, Cell
    <2>1. n <= cursor.seq => Buffered(n) \/ (~other /\ Booked(n))
      BY <1>0, <1>a DEF CoverInv, Dealt
    <2>2. (Buffered(n) => Buffered(n)') /\ (Booked(n) => Booked(n)')
      BY <1>u, <1>f DEF Buffered, Booked, Cell
    <2> QED BY <1>u, <1>c, <1>f, <2>1, <2>2 DEF Dealt, Reading, Clearing, Booking
  <1>8. feed'.pc \notin {"cleared", "bookFront", "bookBack"}
    BY <1>f
  <1> QED BY <1>0, <1>1, <1>2, <1>3, <1>4, <1>5, <1>6, <1>7, <1>8, <1>u, <1>a, RingStill, SlotsStill DEF MInv

\* A slot is written.
LEMMA SlotWrite ==
    ASSUME slot \in [Keys -> SlotType], NEW c \in Keys, NEW e \in SlotType, slot' = [slot EXCEPT ![c] = e]
    PROVE  slot' \in [Keys -> SlotType] /\ slot'[c] = e /\ \A k \in Keys : k # c => slot'[k] = slot[k]
  OBVIOUS

\* Emptying a slot, the first half: its version becomes odd and it is not shown any more.
LEMMA ClearBeginKeeps ==
    ASSUME MInv, ClearBegin
    PROVE  MInv'
  <1>0. /\ Types /\ RingInv /\ PassInv /\ LifeKnown /\ CopyInv
        /\ SlotInv /\ StatusInv /\ ApiInv /\ GenuineInv /\ CoverInv
    BY DEF MInv
  <1>u. /\ header' = header /\ record' = record /\ writer' = writer /\ cursor' = cursor
        /\ status' = status /\ api' = api /\ UNCHANGED ringVars
    BY DEF ClearBegin, ringVars
  <1>a. feed \in FeedType /\ feed.pc = "clear" /\ slot \in [Keys -> SlotType]
    BY <1>0 DEF Types, ClearBegin
  <1>s. status.gen = cursor.gen
    BY <1>0, <1>a DEF StatusInv, Clearing
  <1>1. CASE feed.todo = {}
    <2>u. slot' = slot
      BY <1>1 DEF ClearBegin
    <2>a. feed' = [feed EXCEPT !.pc = IF feed.failed THEN "open" ELSE "book", !.failed = FALSE]
      BY <1>1 DEF ClearBegin
    <2>f. /\ feed'.gen = feed.gen /\ feed'.buffer = feed.buffer /\ feed'.failed = FALSE
          /\ feed'.pc = IF feed.failed THEN "open" ELSE "book"
      BY <1>a, <2>a DEF FeedType
    <2>b. feed.failed => feed.buffer = <<>>
      BY <1>0 DEF PassInv
    <2>1. Types'
      <3>1. feed' \in FeedType
        BY <1>a, <2>a DEF FeedType, FeedSteps
      <3> QED BY <1>0, <1>u, <2>u, <3>1 DEF Types
    <2>2. PassInv'
      BY <1>0, <1>u, <1>a, <2>f, <2>b DEF PassInv, Reading, Clearing, Booking
    <2>3. LifeKnown'
      BY <1>0, <1>u, <2>f DEF LifeKnown, Present, Past, Reading
    <2>4. CopyInv'
      BY <2>f DEF CopyInv
    <2>5. StatusInv'
      BY <1>0, <1>1, <1>s, <1>u, <2>u DEF StatusInv, Awaiting
    <2>6. GenuineInv'
      BY <1>0, <1>1, <1>u, <2>u, <2>f DEF GenuineInv, Present, Awaiting, Genuine, Past, InRing, Cell
    <2>7. CoverInv'
      <3> SUFFICES ASSUME Live, Present(cursor.gen), NEW n \in Numbers, InRing(n)
                   PROVE  Dealt(n)'
        BY <1>u DEF CoverInv, Live, Present, InRing, Cell
      <3>1. n <= cursor.seq => Buffered(n)
        BY <1>0, <1>a DEF CoverInv, Dealt, Clearing
      <3>2. Buffered(n) => ~feed.failed
        BY <2>b DEF Buffered
      <3>3. Buffered(n) => Buffered(n)'
        BY <2>f DEF Buffered
      <3> QED BY <1>u, <2>f, <3>1, <3>2, <3>3 DEF Dealt, Reading, Clearing, Booking
    <2>8. feed'.pc \notin {"cleared", "bookFront", "bookBack"}
      BY <2>f
    <2> QED BY <1>0, <2>1, <2>2, <2>3, <2>4, <2>5, <2>6, <2>7, <2>8, <1>u, <2>u, <1>a, RingStill, SlotsStill DEF MInv
  <1>2. CASE feed.todo # {}
    <2> DEFINE c == Cleared
    <2>c. c \in feed.todo /\ c \in Keys /\ feed.todo \subseteq Keys
      BY <1>2, <1>a DEF Cleared, FeedType
    <2>w. slot' = [slot EXCEPT ![c].version = @ + 1, ![c].shown = FALSE] /\ feed' = [feed EXCEPT !.pc = "cleared"]
      BY <1>2 DEF ClearBegin, FeedGoto, Cleared
    <2>f. /\ feed'.gen = feed.gen /\ feed'.buffer = feed.buffer /\ feed'.failed = feed.failed
          /\ feed'.pc = "cleared" /\ feed'.todo = feed.todo
      BY <1>a, <2>w DEF FeedType
    <2>d. Cleared' = c
      BY <2>f DEF Cleared
    <2> HIDE DEF c
    <2>s. /\ slot' \in [Keys -> SlotType] /\ \A k \in Keys : k # c => slot'[k] = slot[k]
          /\ slot'[c].version = slot[c].version + 1 /\ slot'[c].shown = FALSE
          /\ slot'[c].front = slot[c].front /\ slot'[c].back = slot[c].back /\ slot'[c].seq = slot[c].seq
      <3> DEFINE e == [slot[c] EXCEPT !.version = @ + 1, !.shown = FALSE]
      <3>1. slot[c] \in SlotType
        BY <1>a, <2>c
      <3>2. /\ e \in SlotType /\ e.version = slot[c].version + 1 /\ e.shown = FALSE
            /\ e.front = slot[c].front /\ e.back = slot[c].back /\ e.seq = slot[c].seq
        <4>1. /\ e.version = slot[c].version + 1 /\ e.shown = FALSE
              /\ e.front = slot[c].front /\ e.back = slot[c].back /\ e.seq = slot[c].seq
          BY <3>1 DEF SlotType
        <4>2. slot[c].version + 1 \in Nat
          BY <3>1 DEF SlotType
        <4>3. e \in SlotType
          BY <3>1, <4>2 DEF SlotType
        <4> QED BY <4>1, <4>3
      <3>3. slot' = [slot EXCEPT ![c] = e]
        BY <1>a, <2>c, <2>w
      <3> HIDE DEF e
      <3>4. slot' \in [Keys -> SlotType] /\ slot'[c] = e /\ \A k \in Keys : k # c => slot'[k] = slot[k]
        BY <1>a, <2>c, <3>2, <3>3, SlotWrite
      <3> QED BY <3>2, <3>4
    <2>1. Types'
      <3>1. feed' \in FeedType
        BY <1>a, <2>w DEF FeedType, FeedSteps
      <3> QED BY <1>0, <1>u, <2>s, <3>1 DEF Types
    <2>2. PassInv'
      BY <1>0, <1>2, <1>u, <1>a, <2>f DEF PassInv, Reading, Clearing, Booking
    <2>3. LifeKnown'
      BY <1>0, <1>u, <2>f DEF LifeKnown, Present, Past, Reading
    <2>4. CopyInv'
      BY <2>f DEF CopyInv
    <2>5. StatusInv'
      BY <1>0, <1>a, <1>s, <1>u, <2>c, <2>s, <2>f DEF StatusInv, Awaiting, Clearing
    <2>6. GenuineInv'
      <3>1. ASSUME NEW k \in Keys, slot'[k].shown, ~Awaiting(k)'
            PROVE  slot[k].shown /\ ~Awaiting(k) /\ slot'[k] = slot[k]
        BY <1>a, <2>c, <2>s, <2>f, <3>1 DEF Awaiting, Clearing
      <3> QED BY <1>0, <1>u, <2>f, <3>1 DEF GenuineInv, Present, Genuine, Past, InRing, Cell
    <2>7. CoverInv'
      BY <1>0, <1>u, <1>a, <2>f DEF CoverInv, Live, Present, InRing, Cell, Dealt, Buffered, Reading, Clearing, Booking
    <2>8. SlotInv'
      <3>1. \A k \in Keys : slot[k].version % 2 = 0 /\ ~Busy(k)
        BY <1>0, <1>a DEF SlotInv, Busy
      <3>2. slot[c].version \in Nat
        BY <1>0, <2>c, FeedTypes
      <3>3. slot'[c].version % 2 = 1
        BY <2>c, <2>s, <3>1, <3>2
      <3>4. \A k \in Keys : Busy(k)' <=> k = c
        BY <2>d, <2>f DEF Busy
      <3>5. \A k \in Keys : slot'[k].version % 2 = IF Busy(k)' THEN 1 ELSE 0
        BY <2>s, <3>1, <3>3, <3>4
      <3> QED BY <1>0, <1>a, <2>d, <2>s, <2>f, <3>5 DEF SlotInv
    <2>9. ApiInv'
      <3>1. api.key \in Keys /\ api.before \in Nat /\ slot[api.key].version \in Nat
        BY <1>0, FeedTypes DEF Types, ApiType
      <3>2. CASE api.key = c
        BY <1>0, <1>u, <2>s, <3>1, <3>2 DEF ApiInv
      <3>3. CASE api.key # c
        BY <1>0, <1>u, <2>s, <3>1, <3>3 DEF ApiInv
      <3> QED BY <3>2, <3>3
    <2> QED BY <1>0, <2>1, <2>2, <2>3, <2>4, <2>5, <2>6, <2>7, <2>8, <2>9, <1>u, RingStill DEF MInv
  <1> QED BY <1>1, <1>2

\* The second half: the slot is empty.
LEMMA ClearEndKeeps ==
    ASSUME MInv, ClearEnd
    PROVE  MInv'
  <1>0. /\ Types /\ RingInv /\ PassInv /\ LifeKnown /\ CopyInv
        /\ SlotInv /\ StatusInv /\ ApiInv /\ GenuineInv /\ CoverInv
    BY DEF MInv
  <1>u. /\ header' = header /\ record' = record /\ writer' = writer /\ cursor' = cursor
        /\ status' = status /\ api' = api /\ UNCHANGED ringVars
    BY DEF ClearEnd, ringVars
  <1>a. feed \in FeedType /\ feed.pc = "cleared" /\ slot \in [Keys -> SlotType]
    BY <1>0 DEF Types, ClearEnd
  <1>s. status.gen = cursor.gen
    BY <1>0, <1>a DEF StatusInv, Clearing
  <1> DEFINE c == Cleared
  <1>c. c \in feed.todo /\ c \in Keys /\ feed.todo \subseteq Keys
    BY <1>0, <1>a DEF Cleared, FeedType, PassInv
  <1>w. /\ slot' = [slot EXCEPT ![c].version = @ + 1, ![c].seq = 0]
        /\ feed' = [feed EXCEPT !.pc = "clear", !.todo = @ \ {c}]
    BY DEF ClearEnd, Cleared
  <1>h. /\ ~slot[c].shown /\ slot[c].version % 2 = 1
        /\ \A k \in Keys : k # c => slot[k].version % 2 = 0 /\ (slot[k].seq # 0 => slot[k].shown)
    BY <1>0, <1>a, <1>c DEF SlotInv, Busy
  <1> HIDE DEF c
  <1>f. /\ feed'.gen = feed.gen /\ feed'.buffer = feed.buffer /\ feed'.failed = feed.failed
        /\ feed'.pc = "clear" /\ feed'.todo = feed.todo \ {c}
    BY <1>a, <1>w DEF FeedType
  <1>v. /\ slot' \in [Keys -> SlotType] /\ \A k \in Keys : k # c => slot'[k] = slot[k]
        /\ slot'[c].version = slot[c].version + 1 /\ slot'[c].shown = slot[c].shown /\ slot'[c].seq = 0
    <2> DEFINE e == [slot[c] EXCEPT !.version = @ + 1, !.seq = 0]
    <2>1. slot[c] \in SlotType
      BY <1>a, <1>c
    <2>2. e \in SlotType /\ e.version = slot[c].version + 1 /\ e.shown = slot[c].shown /\ e.seq = 0
      <3>1. e.version = slot[c].version + 1 /\ e.shown = slot[c].shown /\ e.seq = 0
        BY <2>1 DEF SlotType
      <3>2. slot[c].version + 1 \in Nat /\ 0 \in 0 .. MaxSequence
        BY <2>1, Constants DEF SlotType
      <3>3. e \in SlotType
        BY <2>1, <3>2 DEF SlotType
      <3> QED BY <3>1, <3>3
    <2>3. slot' = [slot EXCEPT ![c] = e]
      BY <1>a, <1>c, <1>w
    <2> HIDE DEF e
    <2>4. slot' \in [Keys -> SlotType] /\ slot'[c] = e /\ \A k \in Keys : k # c => slot'[k] = slot[k]
      BY <1>a, <1>c, <2>2, <2>3, SlotWrite
    <2> QED BY <2>2, <2>4
  <1>1. Types'
    <2>1. feed' \in FeedType
      BY <1>a, <1>w DEF FeedType, FeedSteps
    <2> QED BY <1>0, <1>u, <1>v, <2>1 DEF Types
  <1>2. PassInv'
    BY <1>0, <1>u, <1>a, <1>f DEF PassInv, Reading, Clearing, Booking
  <1>3. LifeKnown'
    BY <1>0, <1>u, <1>f DEF LifeKnown, Present, Past, Reading
  <1>4. CopyInv'
    BY <1>f DEF CopyInv
  <1>k. ASSUME NEW k \in Keys, slot'[k].shown
        PROVE  k # c /\ slot[k].shown /\ slot'[k] = slot[k] /\ (Awaiting(k)' <=> Awaiting(k))
    <2>1. k # c
      BY <1>h, <1>v, <1>k
    <2> QED BY <1>a, <1>f, <1>v, <1>k, <2>1 DEF Awaiting, Clearing
  <1>5. StatusInv'
    BY <1>0, <1>s, <1>u, <1>k DEF StatusInv
  <1>6. GenuineInv'
    BY <1>0, <1>u, <1>f, <1>k DEF GenuineInv, Present, Genuine, Past, InRing, Cell
  <1>7. CoverInv'
    BY <1>0, <1>u, <1>a, <1>f DEF CoverInv, Live, Present, InRing, Cell, Dealt, Buffered, Reading, Clearing, Booking
  <1>8. SlotInv'
    <2>1. slot[c].version \in Nat
      BY <1>0, <1>c, FeedTypes
    <2>2. slot'[c].version % 2 = 0
      BY <1>h, <1>v, <2>1
    <2>3. \A k \in Keys : ~Busy(k)'
      BY <1>f DEF Busy
    <2>4. \A k \in Keys : slot'[k].version % 2 = IF Busy(k)' THEN 1 ELSE 0
      BY <1>h, <1>v, <2>2, <2>3
    <2> QED BY <1>f, <1>h, <1>v, <2>4 DEF SlotInv
  <1>9. ApiInv'
    <2>1. api.key \in Keys /\ api.before \in Nat /\ slot[api.key].version \in Nat
      BY <1>0, FeedTypes DEF Types, ApiType
    <2>2. CASE api.key = c
      BY <1>0, <1>u, <1>v, <2>1, <2>2 DEF ApiInv
    <2>3. CASE api.key # c
      BY <1>0, <1>u, <1>v, <2>1, <2>3 DEF ApiInv
    <2> QED BY <2>2, <2>3
  <1> QED BY <1>0, <1>1, <1>2, <1>3, <1>4, <1>5, <1>6, <1>7, <1>8, <1>9, <1>u, RingStill DEF MInv

\* The quote that is being booked.
LEMMA AtCurrent ==
    ASSUME MInv, feed.buffer # <<>>
    PROVE  /\ Current = feed.buffer[1] /\ Current \in Items /\ Current.front \in Values /\ Current.back \in Values
           /\ Current.seq \in Numbers /\ Current.seq \in Nat /\ Current.seq # 0 /\ Key \in Keys /\ Key = Current.back.key
           /\ Current.back.gen >= feed.gen /\ feed.gen # 0 /\ cursor.gen = feed.gen
           /\ Present(feed.gen) => Genuine(Current.back, Current.seq)
           /\ Tail(feed.buffer) \in Seq(Items) /\ Len(Tail(feed.buffer)) = Len(feed.buffer) - 1
           /\ Len(feed.buffer) \in Nat /\ 1 \in 1 .. Len(feed.buffer)
           /\ \A j \in 1 .. Len(feed.buffer) - 1 : Tail(feed.buffer)[j] = feed.buffer[j + 1] /\ j + 1 \in 1 .. Len(feed.buffer)
  <1>0. Types /\ PassInv /\ GenuineInv /\ feed.buffer \in Seq(Items)
    BY FeedTypes DEF MInv
  <1>1. /\ Len(feed.buffer) \in Nat /\ 1 \in 1 .. Len(feed.buffer) /\ Current = feed.buffer[1]
        /\ Tail(feed.buffer) \in Seq(Items) /\ Len(Tail(feed.buffer)) = Len(feed.buffer) - 1
        /\ \A j \in 1 .. Len(feed.buffer) - 1 : Tail(feed.buffer)[j] = feed.buffer[j + 1] /\ j + 1 \in 1 .. Len(feed.buffer)
    BY <1>0 DEF Current
  <1>2. Current \in Items
    BY <1>0, <1>1
  <1>3. Current.front \in Values /\ Current.back \in Values /\ Current.seq \in Numbers
    BY <1>2 DEF Items
  <1>4. Current.seq \in Nat /\ Current.seq # 0
    BY <1>3 DEF Numbers
  <1>5. Key \in Keys /\ Key = Current.back.key
    BY <1>3, Constants DEF Key
  <1>6. Current.back.gen >= feed.gen /\ feed.gen # 0 /\ cursor.gen = feed.gen
    BY <1>0, <1>1 DEF PassInv
  <1>7. Present(feed.gen) => Genuine(Current.back, Current.seq)
    BY <1>0, <1>1 DEF GenuineInv
  <1> QED BY <1>1, <1>2, <1>3, <1>4, <1>5, <1>6, <1>7

\* The head of the buffer is dropped: what remains is still right, and a number of the buffer is
\* the head's or remains in it.
LEMMA TailFacts ==
    ASSUME MInv, feed.buffer # <<>>, feed'.buffer = Tail(feed.buffer), feed'.gen = feed.gen
    PROVE  /\ Len(feed'.buffer) \in Nat /\ Len(feed'.buffer) <= Capacity
           /\ \A j \in 1 .. Len(feed'.buffer) : feed'.buffer[j].back # NoQuote /\ feed'.buffer[j].back.gen >= feed'.gen
           /\ Present(feed.gen) => \A j \in 1 .. Len(feed'.buffer) : Genuine(feed'.buffer[j].back, feed'.buffer[j].seq)
           /\ \A n : Buffered(n) => n = Current.seq \/ Buffered(n)'
  <1>0. Types /\ PassInv /\ GenuineInv /\ Capacity \in Nat
    BY Constants DEF MInv
  <1>1. /\ Len(feed.buffer) \in Nat /\ Len(feed.buffer) <= Capacity /\ Len(feed'.buffer) = Len(feed.buffer) - 1
        /\ Len(feed'.buffer) \in Nat /\ Current = feed.buffer[1]
        /\ \A j \in 1 .. Len(feed'.buffer) : feed'.buffer[j] = feed.buffer[j + 1] /\ j + 1 \in 1 .. Len(feed.buffer)
    BY <1>0, AtCurrent DEF PassInv
  <1>2. \A j \in 1 .. Len(feed'.buffer) : feed'.buffer[j].back # NoQuote /\ feed'.buffer[j].back.gen >= feed'.gen
    BY <1>0, <1>1 DEF PassInv
  <1>3. Present(feed.gen) => \A j \in 1 .. Len(feed'.buffer) : Genuine(feed'.buffer[j].back, feed'.buffer[j].seq)
    BY <1>0, <1>1 DEF GenuineInv
  <1>4. ASSUME NEW n, Buffered(n) PROVE n = Current.seq \/ Buffered(n)'
    <2>1. PICK j \in 1 .. Len(feed.buffer) : feed.buffer[j].seq = n
      BY <1>4 DEF Buffered
    <2>2. CASE j = 1
      BY <1>1, <2>1, <2>2
    <2>3. CASE j # 1
      <3>1. j - 1 \in 1 .. Len(feed'.buffer) /\ (j - 1) + 1 = j
        BY <1>1, <2>3
      <3>2. feed'.buffer[j - 1] = feed.buffer[j]
        BY <1>1, <3>1
      <3> QED BY <2>1, <3>1, <3>2 DEF Buffered
    <2> QED BY <2>2, <2>3
  <1>5. Len(feed'.buffer) <= Capacity
    BY <1>0, <1>1
  <1>6. Len(feed'.buffer) \in Nat
    BY <1>1
  <1> QED BY ONLY <1>2, <1>3, <1>4, <1>5, <1>6

LEMMA BookBeginKeeps ==
    ASSUME MInv, BookBegin
    PROVE  MInv'
  <1>0. /\ Types /\ RingInv /\ PassInv /\ LifeKnown /\ CopyInv
        /\ SlotInv /\ StatusInv /\ ApiInv /\ GenuineInv /\ CoverInv
    BY DEF MInv
  <1>u. /\ header' = header /\ record' = record /\ writer' = writer /\ cursor' = cursor
        /\ status' = status /\ api' = api /\ UNCHANGED ringVars
    BY DEF BookBegin, ringVars
  <1>a. feed \in FeedType /\ feed.pc = "book" /\ feed.buffer # <<>> /\ slot \in [Keys -> SlotType]
    BY <1>0 DEF Types, BookBegin
  <1>s. status.gen = cursor.gen /\ ~feed.failed
    BY <1>0, <1>a DEF StatusInv, Booking, PassInv, Clearing
  <1>q. /\ Current.seq \in Nat /\ Current.seq # 0 /\ Key \in Keys /\ Key = Current.back.key
        /\ feed.gen # 0 /\ cursor.gen = feed.gen /\ (Present(feed.gen) => Genuine(Current.back, Current.seq))
        /\ slot[Key].seq \in Nat
    <2>1. Key \in Keys
      BY <1>a, AtCurrent
    <2>2. slot[Key].seq \in Nat
      BY <1>0, <2>1, FeedTypes, Constants
    <2> QED BY <1>a, <2>2, AtCurrent
  <1>1. CASE OlderThanSlot
    <2>a. feed' = [feed EXCEPT !.buffer = Tail(@)] /\ slot' = slot
      BY <1>1 DEF BookBegin
    <2>f. /\ feed'.gen = feed.gen /\ feed'.buffer = Tail(feed.buffer) /\ feed'.failed = feed.failed
          /\ feed'.pc = "book"
      BY <1>a, <2>a DEF FeedType
    <2>t. /\ Len(feed'.buffer) \in Nat /\ Len(feed'.buffer) <= Capacity
          /\ \A j \in 1 .. Len(feed'.buffer) : feed'.buffer[j].back # NoQuote /\ feed'.buffer[j].back.gen >= feed'.gen
          /\ Present(feed.gen) => \A j \in 1 .. Len(feed'.buffer) : Genuine(feed'.buffer[j].back, feed'.buffer[j].seq)
          /\ \A n : Buffered(n) => n = Current.seq \/ Buffered(n)'
      BY <1>a, <2>f, TailFacts
    <2>1. Types'
      <3>1. Tail(feed.buffer) \in Seq(Items)
        BY <1>a, AtCurrent
      <3>2. feed' \in FeedType
        BY <1>a, <2>a, <3>1 DEF FeedType
      <3> QED BY <1>0, <1>u, <2>a, <3>2 DEF Types
    <2>2. PassInv'
      BY <1>u, <1>s, <1>q, <2>f, <2>t DEF PassInv, Reading, Clearing, Booking
    <2>3. LifeKnown'
      BY <1>0, <1>u, <2>f DEF LifeKnown, Present, Past, Reading
    <2>4. CopyInv'
      BY <2>f DEF CopyInv
    <2>5. StatusInv'
      BY <1>0, <1>a, <1>s, <1>u, <2>a, <2>f, SMTT(30) DEF StatusInv, Awaiting, Clearing
    <2>6. GenuineInv'
      BY <1>0, <1>a, <1>u, <2>a, <2>f, <2>t, SMTT(30) DEF GenuineInv, Present, Awaiting, Clearing, Genuine, Past, InRing, Cell
    <2>7. CoverInv'
      <3> SUFFICES ASSUME Live, Present(cursor.gen), NEW n \in Numbers, InRing(n)
                   PROVE  Dealt(n)'
        BY <1>u DEF CoverInv, Live, Present, InRing, Cell
      <3>1. n <= cursor.seq => Buffered(n) \/ Booked(n)
        BY <1>0, <1>a DEF CoverInv, Dealt, Booking
      <3>2. n = Current.seq => Booked(n)
        <4> SUFFICES ASSUME n = Current.seq PROVE Booked(n)
          OBVIOUS
        <4>1. record[Cell(n)].back = Current.back
          BY <1>q DEF Genuine
        <4>2. slot[Key].seq > n /\ slot[Key].seq # 0
          BY <1>1, <1>q DEF OlderThanSlot
        <4>3. slot[Key].shown
          BY <1>0, <1>a, <1>q, <4>2 DEF SlotInv
        <4> QED BY <1>q, <4>1, <4>2, <4>3 DEF Booked
      <3>3. Booked(n) => Booked(n)'
        BY <1>u, <2>a DEF Booked, Cell
      <3> QED BY <1>u, <2>f, <2>t, <3>1, <3>2, <3>3 DEF Dealt, Reading, Clearing, Booking
    <2> QED BY <1>0, <2>1, <2>2, <2>3, <2>4, <2>5, <2>6, <2>7, <1>u, <2>a, <1>a, <2>f, RingStill, SlotsStill DEF MInv
  <1>2. CASE ~OlderThanSlot
    <2>a. slot' = [slot EXCEPT ![Key].version = @ + 1] /\ feed' = [feed EXCEPT !.pc = "bookFront"]
      BY <1>2 DEF BookBegin, FeedGoto
    <2>f. /\ feed'.gen = feed.gen /\ feed'.buffer = feed.buffer /\ feed'.failed = feed.failed
          /\ feed'.pc = "bookFront" /\ Current' = Current /\ Key' = Key
      <3>1. /\ feed'.gen = feed.gen /\ feed'.buffer = feed.buffer /\ feed'.failed = feed.failed
            /\ feed'.pc = "bookFront"
        BY <1>a, <2>a DEF FeedType
      <3> QED BY <3>1 DEF Current, Key
    <2> DEFINE c == Key
    <2>s. /\ slot' \in [Keys -> SlotType] /\ \A k \in Keys : k # c => slot'[k] = slot[k]
          /\ slot'[c].version = slot[c].version + 1 /\ slot'[c].shown = slot[c].shown
          /\ slot'[c].front = slot[c].front /\ slot'[c].back = slot[c].back /\ slot'[c].seq = slot[c].seq
      <3> DEFINE e == [slot[c] EXCEPT !.version = @ + 1]
      <3>1. slot[c] \in SlotType
        BY <1>a, <1>q
      <3>2. /\ e.version = slot[c].version + 1 /\ e.shown = slot[c].shown
            /\ e.front = slot[c].front /\ e.back = slot[c].back /\ e.seq = slot[c].seq
        BY <3>1 DEF SlotType
      <3>3. slot[c].version + 1 \in Nat
        BY <3>1 DEF SlotType
      <3>4. e \in SlotType
        BY <3>1, <3>3 DEF SlotType
      <3>5. slot' = [slot EXCEPT ![c] = e]
        BY <1>a, <2>a
      <3> HIDE DEF e, c
      <3>6. c \in Keys
        BY <1>q DEF c
      <3>7. slot' \in [Keys -> SlotType] /\ slot'[c] = e /\ \A k \in Keys : k # c => slot'[k] = slot[k]
        BY <1>a, <3>4, <3>5, <3>6, SlotWrite
      <3> QED BY <3>2, <3>7
    <2>c. c \in Keys /\ c = Key
      BY <1>q
    <2>1. Types'
      <3>1. feed' \in FeedType
        BY <1>a, <2>a DEF FeedType, FeedSteps
      <3> QED BY <1>0, <1>u, <2>s, <3>1 DEF Types
    <2> HIDE DEF c
    <2>2. PassInv'
      BY <1>0, <1>u, <1>a, <1>s, <2>f DEF PassInv, Reading, Clearing, Booking
    <2>3. LifeKnown'
      BY <1>0, <1>u, <2>f DEF LifeKnown, Present, Past, Reading
    <2>4. CopyInv'
      BY <2>f DEF CopyInv
    <2>k. \A k \in Keys : slot'[k].shown = slot[k].shown /\ slot'[k].seq = slot[k].seq /\ slot'[k].back = slot[k].back
      BY <2>s
    <2>5. StatusInv'
      BY <1>0, <1>a, <1>s, <1>u, <2>k, <2>f DEF StatusInv, Awaiting, Clearing
    <2>6. GenuineInv'
      BY <1>0, <1>a, <1>u, <2>k, <2>f DEF GenuineInv, Present, Awaiting, Clearing, Genuine, Past, InRing, Cell
    <2>7. CoverInv'
      <3> SUFFICES ASSUME Live, Present(cursor.gen), NEW n \in Numbers, InRing(n)
                   PROVE  Dealt(n)'
        BY <1>u DEF CoverInv, Live, Present, InRing, Cell
      <3>1. n <= cursor.seq => Buffered(n) \/ Booked(n)
        BY <1>0, <1>a DEF CoverInv, Dealt, Booking
      <3>2. record[Cell(n)].back.key \in Keys
        BY <1>0, CellInCells, RingTypes, FeedTypes
      <3>3. Booked(n) => Booked(n)'
        BY <1>u, <2>k, <3>2 DEF Booked, Cell
      <3>4. Buffered(n) => Buffered(n)'
        BY <2>f DEF Buffered
      <3> QED BY <1>u, <2>f, <3>1, <3>3, <3>4 DEF Dealt, Reading, Clearing, Booking
    <2>8. SlotInv'
      <3>1. \A k \in Keys : slot[k].version % 2 = 0
        BY <1>0, <1>a DEF SlotInv, Busy
      <3>2. slot[c].version \in Nat
        BY <1>0, <2>c, FeedTypes
      <3>3. slot'[c].version % 2 = 1
        BY <2>c, <2>s, <3>1, <3>2
      <3>4. \A k \in Keys : Busy(k)' <=> k = c
        BY <2>c, <2>f DEF Busy
      <3>5. \A k \in Keys : slot'[k].version % 2 = IF Busy(k)' THEN 1 ELSE 0
        BY <2>s, <3>1, <3>3, <3>4
      <3>6. slot'[Key'].seq <= Current'.seq
        BY <1>2, <1>q, <2>c, <2>f, <2>k DEF OlderThanSlot
      <3> QED BY <1>0, <1>a, <2>k, <2>f, <3>5, <3>6 DEF SlotInv
    <2>9. ApiInv'
      <3>1. api.key \in Keys /\ api.before \in Nat /\ slot[api.key].version \in Nat
        BY <1>0, FeedTypes DEF Types, ApiType
      <3>2. CASE api.key = c
        BY <1>0, <1>u, <2>s, <3>1, <3>2 DEF ApiInv
      <3>3. CASE api.key # c
        BY <1>0, <1>u, <2>s, <3>1, <3>3 DEF ApiInv
      <3> QED BY <3>2, <3>3
    <2> QED BY <1>0, <2>1, <2>2, <2>3, <2>4, <2>5, <2>6, <2>7, <2>8, <2>9, <1>u, RingStill DEF MInv
  <1> QED BY <1>1, <1>2

LEMMA BookFrontKeeps ==
    ASSUME MInv, BookFront
    PROVE  MInv'
  <1>0. /\ Types /\ RingInv /\ PassInv /\ LifeKnown /\ CopyInv
        /\ SlotInv /\ StatusInv /\ ApiInv /\ GenuineInv /\ CoverInv
    BY DEF MInv
  <1>u. /\ header' = header /\ record' = record /\ writer' = writer /\ cursor' = cursor
        /\ status' = status /\ api' = api /\ UNCHANGED ringVars
    BY DEF BookFront, ringVars
  <1>a. feed \in FeedType /\ feed.pc = "bookFront" /\ feed.buffer # <<>> /\ slot \in [Keys -> SlotType]
    BY <1>0 DEF Types, BookFront, PassInv
  <1>s. status.gen = cursor.gen
    BY <1>0, <1>a DEF StatusInv, Booking
  <1>w. slot' = [slot EXCEPT ![Key].front = Current.front] /\ feed' = [feed EXCEPT !.pc = "bookBack"]
    BY DEF BookFront, FeedGoto
  <1>f. /\ feed'.gen = feed.gen /\ feed'.buffer = feed.buffer /\ feed'.failed = feed.failed
        /\ feed'.pc = "bookBack" /\ Current' = Current /\ Key' = Key
    <2>1. /\ feed'.gen = feed.gen /\ feed'.buffer = feed.buffer /\ feed'.failed = feed.failed
          /\ feed'.pc = "bookBack"
      BY <1>a, <1>w DEF FeedType
    <2> QED BY <2>1 DEF Current, Key
  <1>v. /\ slot' \in [Keys -> SlotType] /\ \A k \in Keys : k # Key => slot'[k] = slot[k]
        /\ \A k \in Keys : /\ slot'[k].version = slot[k].version /\ slot'[k].shown = slot[k].shown
                           /\ slot'[k].seq = slot[k].seq /\ slot'[k].back = slot[k].back
    <2> DEFINE e == [slot[Key] EXCEPT !.front = Current.front]
    <2>0. Key \in Keys /\ Current.front \in Values
      BY <1>a, AtCurrent
    <2>1. slot[Key] \in SlotType
      BY <1>a, <2>0
    <2>2. /\ e.version = slot[Key].version /\ e.shown = slot[Key].shown
          /\ e.back = slot[Key].back /\ e.seq = slot[Key].seq
      BY <2>1 DEF SlotType
    <2>3. e \in SlotType
      BY <2>0, <2>1 DEF SlotType
    <2>4. slot' = [slot EXCEPT ![Key] = e]
      BY <1>w
    <2> HIDE DEF e
    <2>5. slot' \in [Keys -> SlotType] /\ slot'[Key] = e /\ \A k \in Keys : k # Key => slot'[k] = slot[k]
      BY <1>a, <2>0, <2>3, <2>4, SlotWrite
    <2> QED BY <2>2, <2>5
  <1>1. Types'
    <2>1. feed' \in FeedType
      BY <1>a, <1>w DEF FeedType, FeedSteps
    <2> QED BY <1>0, <1>u, <1>v, <2>1 DEF Types
  <1>2. PassInv'
    BY <1>0, <1>u, <1>a, <1>f DEF PassInv, Reading, Clearing, Booking
  <1>3. LifeKnown'
    BY <1>0, <1>u, <1>f DEF LifeKnown, Present, Past, Reading
  <1>4. CopyInv'
    BY <1>f DEF CopyInv
  <1>5. StatusInv'
    BY <1>0, <1>a, <1>s, <1>u, <1>v, <1>f DEF StatusInv, Awaiting, Clearing
  <1>6. GenuineInv'
    BY <1>0, <1>a, <1>u, <1>v, <1>f DEF GenuineInv, Present, Awaiting, Clearing, Genuine, Past, InRing, Cell
  <1>7. CoverInv'
    <2> SUFFICES ASSUME Live, Present(cursor.gen), NEW n \in Numbers, InRing(n)
                 PROVE  Dealt(n)'
      BY <1>u DEF CoverInv, Live, Present, InRing, Cell
    <2>1. n <= cursor.seq => Buffered(n) \/ Booked(n)
      BY <1>0, <1>a DEF CoverInv, Dealt, Booking
    <2>2. record[Cell(n)].back.key \in Keys
      BY <1>0, CellInCells, RingTypes, FeedTypes
    <2>3. Booked(n) => Booked(n)'
      BY <1>u, <1>v, <2>2 DEF Booked, Cell
    <2>4. Buffered(n) => Buffered(n)'
      BY <1>f DEF Buffered
    <2> QED BY <1>u, <1>f, <2>1, <2>3, <2>4 DEF Dealt, Reading, Clearing, Booking
  <1>8. SlotInv'
    <2>1. \A k \in Keys : Busy(k)' <=> Busy(k)
      BY <1>a, <1>f DEF Busy
    <2>2. \A k \in Keys : slot'[k].version % 2 = IF Busy(k)' THEN 1 ELSE 0
      BY <1>0, <1>v, <2>1 DEF SlotInv
    <2>3. slot'[Key'].seq <= Current'.seq
      BY <1>0, <1>a, <1>f, <1>v, AtCurrent DEF SlotInv
    <2> QED BY <1>0, <1>a, <1>f, <1>v, <2>2, <2>3 DEF SlotInv
  <1>9. ApiInv'
    <2>1. api.key \in Keys
      BY <1>0 DEF Types, ApiType
    <2>2. CASE api.key = Key
      <3>1. slot[api.key].version % 2 = 1
        BY <1>0, <1>a, <2>1, <2>2 DEF SlotInv, Busy
      <3> QED BY <1>0, <1>u, <1>v, <2>1, <3>1 DEF ApiInv
    <2>3. CASE api.key # Key
      BY <1>0, <1>u, <1>v, <2>1, <2>3 DEF ApiInv
    <2> QED BY <2>2, <2>3
  <1> QED BY <1>0, <1>1, <1>2, <1>3, <1>4, <1>5, <1>6, <1>7, <1>8, <1>9, <1>u, RingStill DEF MInv

\* The quote is in the book: its number may leave the buffer.
LEMMA BookBackKeeps ==
    ASSUME MInv, BookBack
    PROVE  MInv'
  <1>0. /\ Types /\ RingInv /\ PassInv /\ LifeKnown /\ CopyInv
        /\ SlotInv /\ StatusInv /\ ApiInv /\ GenuineInv /\ CoverInv
    BY DEF MInv
  <1>u. /\ header' = header /\ record' = record /\ writer' = writer /\ cursor' = cursor
        /\ api' = api /\ UNCHANGED ringVars
    BY DEF BookBack, ringVars
  <1>a. /\ feed \in FeedType /\ feed.pc = "bookBack" /\ feed.buffer # <<>> /\ slot \in [Keys -> SlotType]
        /\ status \in StatusType /\ ~feed.failed
    BY <1>0 DEF Types, BookBack, PassInv, Clearing
  <1>s. status.gen = cursor.gen
    BY <1>0, <1>a DEF StatusInv, Booking
  <1>q. /\ Current.seq \in Nat /\ Current.seq # 0 /\ Current.seq \in Numbers /\ Key \in Keys /\ Key = Current.back.key
        /\ feed.gen # 0 /\ cursor.gen = feed.gen /\ (Present(feed.gen) => Genuine(Current.back, Current.seq))
        /\ Current.back \in Values /\ Current.back.gen >= feed.gen
    BY <1>a, AtCurrent
  <1> DEFINE c == Key
             q == Current
  <1>w. /\ slot' = [slot EXCEPT ![c].back = q.back, ![c].seq = q.seq, ![c].shown = TRUE, ![c].version = @ + 1]
        /\ status' = [status EXCEPT !.last = Max({@, q.seq})]
        /\ feed' = [feed EXCEPT !.pc = "book", !.buffer = Tail(@)]
    BY DEF BookBack
  <1>c. c \in Keys /\ c = Key /\ q = Current
    BY <1>q
  <1> HIDE DEF c, q
  <1>f. /\ feed'.gen = feed.gen /\ feed'.buffer = Tail(feed.buffer) /\ feed'.failed = feed.failed
        /\ feed'.pc = "book" /\ status'.gen = status.gen
    BY <1>a, <1>w DEF FeedType, StatusType
  <1>t. /\ Len(feed'.buffer) \in Nat /\ Len(feed'.buffer) <= Capacity
        /\ \A j \in 1 .. Len(feed'.buffer) : feed'.buffer[j].back # NoQuote /\ feed'.buffer[j].back.gen >= feed'.gen
        /\ Present(feed.gen) => \A j \in 1 .. Len(feed'.buffer) : Genuine(feed'.buffer[j].back, feed'.buffer[j].seq)
        /\ \A n : Buffered(n) => n = q.seq \/ Buffered(n)'
    BY <1>a, <1>c, <1>f, TailFacts
  <1>v. /\ slot' \in [Keys -> SlotType] /\ \A k \in Keys : k # c => slot'[k] = slot[k]
        /\ slot'[c].version = slot[c].version + 1 /\ slot'[c].shown = TRUE
        /\ slot'[c].back = q.back /\ slot'[c].seq = q.seq
    <2> DEFINE e == [slot[c] EXCEPT !.back = q.back, !.seq = q.seq, !.shown = TRUE, !.version = @ + 1]
    <2>1. slot[c] \in SlotType /\ q.back \in Values /\ q.seq \in 0 .. MaxSequence
      BY <1>a, <1>c, <1>q, Constants DEF Numbers
    <2>2. e.version = slot[c].version + 1 /\ e.shown = TRUE /\ e.back = q.back /\ e.seq = q.seq
      BY <2>1 DEF SlotType
    <2>3. slot[c].version + 1 \in Nat
      BY <2>1 DEF SlotType
    <2>4. e \in SlotType
      BY <2>1, <2>3 DEF SlotType
    <2>5. slot' = [slot EXCEPT ![c] = e]
      BY <1>a, <1>c, <1>w
    <2> HIDE DEF e
    <2>6. slot' \in [Keys -> SlotType] /\ slot'[c] = e /\ \A k \in Keys : k # c => slot'[k] = slot[k]
      BY <1>a, <1>c, <2>4, <2>5, SlotWrite
    <2> QED BY <2>2, <2>6
  <1>1. Types'
    <2>1. feed' \in FeedType
      <3>1. Tail(feed.buffer) \in Seq(Items)
        BY <1>a, AtCurrent
      <3> QED BY <1>a, <1>w, <3>1 DEF FeedType, FeedSteps
    <2>2. status' \in StatusType
      <3>1. status.last \in Int /\ q.seq \in Int /\ status.last \in 0 .. MaxSequence /\ q.seq \in 0 .. MaxSequence
        BY <1>a, <1>c, <1>q, Constants DEF StatusType, Numbers
      <3>2. Max({status.last, q.seq}) \in 0 .. MaxSequence
        BY <3>1, PairMax
      <3> QED BY <1>a, <1>w, <3>2 DEF StatusType
    <2> QED BY <1>0, <1>u, <1>v, <2>1, <2>2 DEF Types
  <1>2. PassInv'
    BY <1>u, <1>a, <1>q, <1>f, <1>t DEF PassInv, Reading, Clearing, Booking
  <1>3. LifeKnown'
    BY <1>0, <1>u, <1>f DEF LifeKnown, Present, Past, Reading
  <1>4. CopyInv'
    BY <1>f DEF CopyInv
  <1>5. StatusInv'
    <2>1. status'.gen # 0 /\ cursor'.gen # 0 /\ status'.gen = cursor'.gen
      BY <1>u, <1>s, <1>q, <1>f
    <2>2. ASSUME NEW k \in Keys, slot'[k].shown PROVE slot'[k].back.gen >= status'.gen
      <3>1. CASE k = c
        BY <1>c, <1>s, <1>q, <1>f, <1>v, <3>1
      <3>2. CASE k # c
        BY <1>0, <1>a, <1>f, <1>v, <2>2, <3>2 DEF StatusInv, Awaiting, Clearing
      <3> QED BY <3>1, <3>2
    <2> QED BY <2>1, <2>2 DEF StatusInv
  <1>6. GenuineInv'
    <2>1. ASSUME Present(cursor.gen), NEW k \in Keys, slot'[k].shown
          PROVE  slot'[k].back.key = k /\ Genuine(slot'[k].back, slot'[k].seq)
      <3>1. CASE k = c
        BY <1>c, <1>q, <1>v, <2>1, <3>1
      <3>2. CASE k # c
        BY <1>0, <1>a, <1>s, <1>v, <2>1, <3>2 DEF GenuineInv, Awaiting, Clearing
      <3> QED BY <3>1, <3>2
    <2> QED BY <1>u, <1>f, <1>t, <2>1 DEF GenuineInv, Present, Genuine, Past, InRing, Cell
  <1>7. CoverInv'
    <2> SUFFICES ASSUME Live, Present(cursor.gen), NEW n \in Numbers, InRing(n)
                 PROVE  Dealt(n)'
      BY <1>u DEF CoverInv, Live, Present, InRing, Cell
    <2> DEFINE k == record[Cell(n)].back.key
    <2>1. n <= cursor.seq => Buffered(n) \/ Booked(n)
      BY <1>0, <1>a DEF CoverInv, Dealt, Booking
    <2>2. k \in Keys /\ n \in Nat /\ slot[k].seq \in Nat /\ slot[c].seq \in Nat
      <3>1. k \in Keys
        BY <1>0, CellInCells, RingTypes, FeedTypes
      <3> QED BY <1>0, <1>c, <3>1, FeedTypes, Constants, SMTT(30) DEF Numbers
    <2>3. n = q.seq => Booked(n)'
      <3> SUFFICES ASSUME n = q.seq PROVE Booked(n)'
        OBVIOUS
      <3>1. record[Cell(n)].back = q.back
        BY <1>c, <1>q DEF Genuine
      <3>2. k = c
        BY <1>c, <1>q, <3>1
      <3> QED BY <1>u, <1>v, <2>2, <3>2 DEF Booked, Cell
    <2>4. Booked(n) => Booked(n)'
      <3>1. slot[c].seq <= q.seq
        BY <1>0, <1>a, <1>c DEF SlotInv
      <3>2. CASE k = c
        BY <1>u, <1>c, <1>q, <1>v, <2>2, <3>1, <3>2 DEF Booked, Cell
      <3>3. CASE k # c
        BY <1>u, <1>v, <2>2, <3>3 DEF Booked, Cell
      <3> QED BY <3>2, <3>3
    <2> QED BY <1>u, <1>f, <1>t, <2>1, <2>3, <2>4 DEF Dealt, Reading, Clearing, Booking
  <1>8. SlotInv'
    <2>1. \A k \in Keys : slot[k].version % 2 = (IF k = c THEN 1 ELSE 0) /\ (slot[k].seq # 0 => slot[k].shown)
      BY <1>0, <1>a, <1>c DEF SlotInv, Busy
    <2>2. slot[c].version \in Nat
      BY <1>0, <1>c, FeedTypes
    <2>3. slot'[c].version % 2 = 0
      BY <1>c, <1>v, <2>1, <2>2
    <2>4. \A k \in Keys : ~Busy(k)'
      BY <1>f DEF Busy
    <2>5. \A k \in Keys : slot'[k].version % 2 = IF Busy(k)' THEN 1 ELSE 0
      BY <1>v, <2>1, <2>3, <2>4
    <2> QED BY <1>f, <1>v, <2>1, <2>5 DEF SlotInv
  <1>9. ApiInv'
    <2>1. api.key \in Keys /\ api.before \in Nat /\ slot[api.key].version \in Nat
      BY <1>0, FeedTypes DEF Types, ApiType
    <2>2. CASE api.key = c
      BY <1>0, <1>u, <1>v, <2>1, <2>2 DEF ApiInv
    <2>3. CASE api.key # c
      BY <1>0, <1>u, <1>v, <2>1, <2>3 DEF ApiInv
    <2> QED BY <2>2, <2>3
  <1> QED BY <1>0, <1>1, <1>2, <1>3, <1>4, <1>5, <1>6, <1>7, <1>8, <1>9, <1>u, RingStill DEF MInv

LEMMA PassDoneKeeps ==
    ASSUME MInv, PassDone
    PROVE  MInv'
  <1>0. /\ Types /\ RingInv /\ PassInv /\ LifeKnown /\ CopyInv
        /\ SlotInv /\ StatusInv /\ ApiInv /\ GenuineInv /\ CoverInv
    BY DEF MInv
  <1>u. /\ header' = header /\ record' = record /\ writer' = writer /\ cursor' = cursor
        /\ slot' = slot /\ api' = api /\ UNCHANGED ringVars
    BY DEF PassDone, ringVars
  <1>f. /\ feed.pc = "book" /\ feed.buffer = <<>> /\ feed'.pc = "generation" /\ feed'.gen = 0
        /\ feed'.buffer = <<>> /\ feed'.failed = FALSE /\ status'.gen = cursor.gen
    BY DEF PassDone, NoPass
  <1>s. status.gen = cursor.gen
    BY <1>0, <1>f DEF StatusInv, Booking
  <1>1. Types'
    <2>1. NoPass \in FeedType
      BY Constants DEF NoPass, FeedType, FeedSteps
    <2>2. feed' \in FeedType
      BY <2>1 DEF PassDone, FeedType, FeedSteps
    <2>3. status' \in StatusType
      BY <1>0 DEF PassDone, StatusType, Types, CursorType
    <2> QED BY <1>0, <1>u, <2>2, <2>3 DEF Types
  <1>2. PassInv'
    <2>1. Len(feed'.buffer) = 0 /\ Capacity \in Nat /\ Capacity > 0
      BY <1>f, Constants
    <2> QED BY <1>f, <2>1 DEF PassInv, Reading, Clearing
  <1>3. LifeKnown'
    <2>1. \A i \in Cells : record[i].back.gen >= 0
      BY <1>0, RingTypes, FeedTypes, SMTT(30)
    <2> QED BY <1>0, <1>u, <1>f, <2>1, RingTypes DEF LifeKnown, Present, Past, Reading
  <1>4. CopyInv'
    BY <1>f DEF CopyInv
  <1>5. StatusInv'
    BY <1>0, <1>u, <1>f, <1>s DEF StatusInv, Awaiting, Clearing
  <1>6. GenuineInv'
    BY <1>0, <1>u, <1>f, <1>s DEF GenuineInv, Present, Awaiting, Clearing, Genuine, Past, InRing, Cell
  <1>7. CoverInv'
    <2> SUFFICES ASSUME Live, Present(cursor.gen), NEW n \in Numbers, InRing(n)
                 PROVE  Dealt(n)'
      BY <1>u DEF CoverInv, Live, Present, InRing, Cell
    <2>1. n <= cursor.seq => Buffered(n) \/ Booked(n)
      BY <1>0, <1>f DEF CoverInv, Dealt, Booking
    <2>2. ~Buffered(n)
      BY <1>f DEF Buffered
    <2>3. Booked(n) => Booked(n)'
      BY <1>u DEF Booked, Cell
    <2> QED BY <1>u, <1>f, <1>s, <2>1, <2>2, <2>3 DEF Dealt, Reading, Clearing, Booking
  <1> QED BY <1>0, <1>1, <1>2, <1>3, <1>4, <1>5, <1>6, <1>7, <1>u, <1>f, RingStill, SlotsStill DEF MInv

-----------------------------------------------------------------------------
(* A reader of the book *)

LEMMA ReadsKeep ==
    ASSUME MInv, ApiStep
    PROVE  MInv'
  <1>0. /\ Types /\ RingInv /\ PassInv /\ LifeKnown /\ CopyInv
        /\ SlotInv /\ StatusInv /\ ApiInv /\ GenuineInv /\ CoverInv
    BY DEF MInv
  <1>u. /\ header' = header /\ record' = record /\ writer' = writer /\ cursor' = cursor
        /\ feed' = feed /\ slot' = slot /\ status' = status /\ UNCHANGED ringVars
    BY DEF ApiStep, ReadBefore, ReadFront, ReadBack, ReadAfter, Answered, OnlyApi, ringVars, bookVars
  <1>a. /\ api \in ApiType
        /\ \A k \in Keys : /\ slot[k].version \in Nat /\ slot[k].front \in Values /\ slot[k].back \in Values
                           /\ slot[k].shown \in BOOLEAN
    BY <1>0, FeedTypes DEF Types
  <1>n. NoRead \in ApiType /\ NoRead.pc = "idle"
    BY Constants DEF NoRead, ApiType, ApiSteps
  <1>1. api' \in ApiType /\ ApiInv'
    <2>1. CASE ReadBefore
      <3>1. PICK k \in Keys : /\ slot[k].version % 2 = 0
                              /\ api' = [NoRead EXCEPT !.pc = "front", !.key = k, !.before = slot[k].version]
        BY <2>1 DEF ReadBefore
      <3>2. api' \in ApiType /\ api'.pc = "front" /\ api'.key = k /\ api'.before = slot[k].version
        BY <1>a, <1>n, <3>1 DEF ApiType, ApiSteps
      <3> QED BY <1>a, <1>u, <3>1, <3>2 DEF ApiInv
    <2>2. CASE ReadFront
      <3>1. api.pc = "front" /\ api' = [api EXCEPT !.pc = "back", !.front = slot[api.key].front]
        BY <2>2 DEF ReadFront
      <3>2. /\ api' \in ApiType /\ api'.pc = "back" /\ api'.key = api.key /\ api'.before = api.before
            /\ api'.front = slot[api.key].front
        BY <1>a, <3>1 DEF ApiType, ApiSteps
      <3> QED BY <1>0, <1>u, <3>1, <3>2 DEF ApiInv
    <2>3. CASE ReadBack
      <3>1. /\ api.pc = "back"
            /\ api' = [api EXCEPT !.pc = "after", !.back = slot[api.key].back, !.shown = slot[api.key].shown]
        BY <2>3 DEF ReadBack
      <3>2. api.key \in Keys
        BY <1>a DEF ApiType
      <3>3. /\ api' \in ApiType /\ api'.pc = "after" /\ api'.key = api.key /\ api'.before = api.before
            /\ api'.front = api.front /\ api'.back = slot[api.key].back /\ api'.shown = slot[api.key].shown
        BY <1>a, <3>1, <3>2 DEF ApiType, ApiSteps
      <3> QED BY <1>0, <1>u, <3>1, <3>3 DEF ApiInv
    <2>4. CASE ReadAfter \/ Answered
      <3>1. api' = NoRead \/ api' = [api EXCEPT !.pc = "answer", !.before = 0]
        BY <2>4 DEF ReadAfter, Answered
      <3>2. api' \in ApiType /\ api'.pc \in {"idle", "answer"}
        <4>1. CASE api' = NoRead
          BY <1>n, <4>1
        <4>2. CASE api' = [api EXCEPT !.pc = "answer", !.before = 0]
          BY <1>a, <4>2 DEF ApiType, ApiSteps
        <4> QED BY <3>1, <4>1, <4>2
      <3> QED BY <3>2 DEF ApiInv
    <2> QED BY <2>1, <2>2, <2>3, <2>4 DEF ApiStep
  <1>2. Types'
    BY <1>0, <1>u, <1>1 DEF Types
  <1>3. PassInv' /\ LifeKnown' /\ CopyInv'
    BY <1>0, <1>u DEF PassInv, LifeKnown, CopyInv, Present, Past, InRing, Cell
  <1>4. SlotInv' /\ StatusInv'
    BY <1>0, <1>u DEF SlotInv, StatusInv, Busy, Awaiting, Cleared, Key, Current
  <1>5. GenuineInv'
    BY <1>0, <1>u, SMTT(30) DEF GenuineInv, Present, Awaiting, Genuine, Past, InRing, Cell
  <1>6. CoverInv'
    BY <1>0, <1>u DEF CoverInv, Live, Present, InRing, Cell, Dealt, Booked, Buffered
  <1> QED BY <1>0, <1>u, <1>1, <1>2, <1>3, <1>4, <1>5, <1>6, RingStill DEF MInv
-----------------------------------------------------------------------------

LEMMA MInit == Init => MInv
  <1> SUFFICES ASSUME Init PROVE MInv
    OBVIOUS
  <1>c. /\ Capacity \in Nat /\ Capacity > 0 /\ MaxSequence \in Nat /\ MaxGenerations \in Nat
        /\ NoQuote \in Values /\ NoQuote.key \in Keys
        /\ Zero.committed = 0 /\ Zero.back = NoQuote
        /\ Zero \in [committed : 0 .. MaxSequence, seq : 0 .. MaxSequence, front : Values, back : Values]
    BY Constants
  <1>i. /\ header = [magic |-> FALSE, gen |-> 0, published |-> 0]
        /\ record = [i \in Cells |-> Zero]
        /\ writer = [pc |-> "down", gen |-> 0, seq |-> 0, at |-> 0, key |-> NoQuote.key]
        /\ cursor = [gen |-> 0, seq |-> 0] /\ feed = NoPass
        /\ slot = [k \in Keys |-> [version |-> 0, front |-> NoQuote, back |-> NoQuote, seq |-> 0, shown |-> FALSE]]
        /\ status = [mapped |-> FALSE, gen |-> 0, last |-> 0] /\ api = NoRead
    BY DEF Init, Cells
  <1>1. Types
    <2>1. feed \in FeedType
      BY <1>c, <1>i DEF NoPass, FeedType, FeedSteps
    <2>2. api \in ApiType
      BY <1>c, <1>i DEF NoRead, ApiType, ApiSteps
    <2>3. slot \in [Keys -> SlotType]
      BY <1>c, <1>i DEF SlotType
    <2>4. cursor \in CursorType /\ status \in StatusType
      BY <1>c, <1>i DEF CursorType, StatusType
    <2>5. record \in [Cells -> [committed : 0 .. MaxSequence, seq : 0 .. MaxSequence, front : Values, back : Values]]
      BY <1>c, <1>i
    <2>6. /\ header \in [magic : BOOLEAN, gen : 0 .. MaxGenerations, published : 0 .. MaxSequence]
          /\ writer \in [pc : WriterSteps, gen : 0 .. MaxGenerations, seq : 0 .. MaxSequence,
                         at : 0 .. Capacity, key : Keys]
      BY <1>c, <1>i DEF WriterSteps
    <2> QED BY <2>1, <2>2, <2>3, <2>4, <2>5, <2>6 DEF Types
  <1>w. header.gen = 0 /\ header.published = 0 /\ writer.pc = "down" /\ writer.gen = 0 /\ writer.seq = 0
    BY <1>i
  <1>r. \A i \in Cells : record[i].committed = 0 /\ record[i].back = NoQuote
    BY <1>c, <1>i
  <1>2. RingInv
    <2>1. WriterInv
      BY <1>w DEF WriterInv, Starting, Live, Overwriting, Past
    <2>2. RecordInv
      BY <1>w, <1>r DEF RecordInv
    <2>3. LifeInv /\ WindowInv
      BY <1>w DEF LifeInv, WindowInv, Settled, Live, Overwriting
    <2> QED BY <2>1, <2>2, <2>3 DEF RingInv
  <1>f. feed.pc = "open" /\ feed.gen = 0 /\ feed.buffer = <<>> /\ feed.failed = FALSE /\ Len(feed.buffer) = 0
    BY <1>i DEF NoPass
  <1>g. cursor.gen = 0 /\ status.gen = 0
    BY <1>i
  <1>3. PassInv
    BY <1>c, <1>f DEF PassInv, Reading, Clearing
  <1>4. LifeKnown /\ CopyInv
    BY <1>w, <1>r, <1>f, <1>g DEF LifeKnown, CopyInv, Present
  <1>s. \A k \in Keys : slot[k].version = 0 /\ slot[k].seq = 0 /\ ~slot[k].shown
    BY <1>i
  <1>5. SlotInv
    BY <1>s, <1>f DEF SlotInv, Busy
  <1>6. StatusInv /\ GenuineInv
    BY <1>s, <1>f, <1>g DEF StatusInv, GenuineInv, Present
  <1>7. ApiInv
    <2>1. api.pc = "idle"
      BY <1>i DEF NoRead
    <2> QED BY <2>1 DEF ApiInv
  <1>8. CoverInv
    BY <1>g DEF CoverInv, Present
  <1> QED BY <1>1, <1>2, <1>3, <1>4, <1>5, <1>6, <1>7, <1>8 DEF MInv

LEMMA MNext == MInv /\ [Next]_vars => MInv'
  <1> SUFFICES ASSUME MInv, [Next]_vars PROVE MInv'
    OBVIOUS
  <1>1. CASE PublishBegin \/ WriterStep \/ WriterDies
    BY <1>1, WriterKeeps DEF WriterActs
  <1>2. CASE FeedStep
    <2>1. CASE OpenFails
      <3>1. PassFails /\ UNCHANGED <<ringVars, api>> /\ feed.pc \in {"open"} \cup Reading
        BY <2>1 DEF OpenFails
      <3> QED BY <3>1, PassFailsKeeps
    <2> QED BY <1>2, <2>1, OpenReaderKeeps, LoadGenerationKeeps, LoadLatestKeeps, CheckCommittedKeeps,
               CopyKeeps, RecheckKeeps, CompareGenerationKeeps, ClearBeginKeeps, ClearEndKeeps,
               BookBeginKeeps, BookFrontKeeps, BookBackKeeps, PassDoneKeeps DEF FeedStep
  <1>3. CASE ApiStep
    BY <1>3, ReadsKeep
  <1>4. CASE UNCHANGED vars
    <2>0. /\ Types /\ RingInv /\ PassInv /\ LifeKnown /\ CopyInv
          /\ SlotInv /\ StatusInv /\ ApiInv /\ GenuineInv /\ CoverInv
      BY DEF MInv
    <2>u. /\ header' = header /\ record' = record /\ writer' = writer /\ cursor' = cursor
          /\ feed' = feed /\ slot' = slot /\ status' = status /\ api' = api /\ UNCHANGED ringVars
      BY <1>4 DEF vars, ringVars
    <2>1. Types' /\ PassInv' /\ LifeKnown' /\ CopyInv'
      BY <2>0, <2>u DEF Types, PassInv, LifeKnown, CopyInv, Present, Past, InRing, Cell
    <2>2. SlotInv' /\ StatusInv' /\ ApiInv'
      BY <2>0, <2>u DEF SlotInv, StatusInv, ApiInv, Busy, Awaiting, Cleared, Key, Current
    <2>3. GenuineInv'
      BY <2>0, <2>u, SMTT(30) DEF GenuineInv, Present, Awaiting, Genuine, Past, InRing, Cell
    <2>4. CoverInv'
      BY <2>0, <2>u DEF CoverInv, Live, Present, InRing, Cell, Dealt, Booked, Buffered
    <2> QED BY <2>0, <2>u, <2>1, <2>2, <2>3, <2>4, RingStill DEF MInv
  <1> QED BY <1>1, <1>2, <1>3, <1>4 DEF Next

\* The invariant of the ring, the feed and the book holds in every reachable state.
THEOREM BookInvariant == Spec => []MInv
  BY MInit, MNext, PTL DEF Spec

\* The feed takes a record only where the second look at it agrees with the first, so what it takes
\* is one quote of this life (read_available); and read_slot answers with the slot as it is, because
\* its version is the one from before the copy.
THEOREM NothingIsTorn == Spec => NothingTorn
  <1>1. MInv /\ [Next]_vars =>
            [Len(feed'.buffer) > Len(feed.buffer) /\ writer.gen = feed.gen =>
                Last(feed'.buffer).front = Last(feed'.buffer).back]_vars
    <2> SUFFICES ASSUME MInv, Next, Len(feed'.buffer) > Len(feed.buffer), writer.gen = feed.gen
                 PROVE  Last(feed'.buffer).front = Last(feed'.buffer).back
      OBVIOUS
    <2>0. /\ Types /\ RingInv /\ PassInv /\ LifeKnown /\ CopyInv /\ feed \in FeedType
          /\ feed.buffer \in Seq(Items) /\ Len(feed.buffer) \in Nat
      BY FeedTypes DEF MInv, Types
    <2>1. Recheck
      <3> SUFFICES ASSUME ~Recheck PROVE FALSE
        OBVIOUS
      <3>1. CASE PublishBegin \/ WriterStep \/ WriterDies \/ ApiStep
        <4>1. feed' = feed
          BY <2>0, <3>1, RingMoves DEF WriterActs, ApiStep, ReadBefore, ReadFront, ReadBack, ReadAfter, Answered, OnlyApi
        <4> QED BY <2>0, <4>1
      <3>2. CASE OpenFails \/ LoadGeneration \/ PassDone
        <4>1. feed'.buffer = <<>>
          BY <3>2 DEF OpenFails, PassFails, LoadGeneration, PassDone, NoPass
        <4>2. Len(feed'.buffer) = 0
          BY <4>1
        <4> QED BY <2>0, <4>2
      <3>3. CASE OpenReader \/ LoadLatest \/ CheckCommitted \/ CopyFront \/ CopyBack \/ CompareGeneration
        <4>1. feed'.buffer = feed.buffer
          BY <2>0, <3>3 DEF OpenReader, LoadLatest, CheckCommitted, CopyFront, CopyBack, CompareGeneration,
                            FeedGoto, Advance, FeedType
        <4> QED BY <2>0, <4>1
      <3>4. CASE ClearBegin \/ ClearEnd \/ BookFront \/ (BookBegin /\ ~OlderThanSlot)
        <4>1. feed'.buffer = feed.buffer
          BY <2>0, <3>4 DEF ClearBegin, ClearEnd, BookFront, BookBegin, FeedGoto, FeedType
        <4> QED BY <2>0, <4>1
      <3>5. CASE BookBack \/ (BookBegin /\ OlderThanSlot)
        <4>1. feed'.buffer = Tail(feed.buffer) /\ feed.buffer # <<>>
          BY <2>0, <3>5 DEF BookBack, BookBegin, FeedType, PassInv
        <4>2. Len(feed'.buffer) = Len(feed.buffer) - 1
          BY <4>1, AtCurrent
        <4> QED BY <2>0, <4>2
      <3> QED BY <3>1, <3>2, <3>3, <3>4, <3>5 DEF Next, FeedStep
    <2>2. /\ feed.pc = "recheck" /\ feed.pc \in Reading /\ feed.gen # 0 /\ Present(feed.gen)
          /\ feed.at \in Numbers /\ Cell(feed.at) \in Cells /\ feed.at # 0
      <3>1. feed.pc = "recheck" /\ feed.pc \in Reading
        BY <2>1 DEF Recheck, Reading
      <3>2. feed.gen # 0
        BY <2>0, <3>1 DEF PassInv
      <3> QED BY <2>0, <3>1, <3>2, AtNumber DEF Present
    <2>3. Unchanged /\ feed.back # NoQuote
      <3>1. ASSUME ~Unchanged PROVE FALSE
        <4>1. Advance(feed.buffer)
          BY <2>1, <3>1 DEF Recheck
        <4>2. feed'.buffer = feed.buffer
          BY <2>0, <4>1 DEF Advance, FeedType
        <4> QED BY <2>0, <4>2
      <3>2. ASSUME Unchanged, feed.back = NoQuote PROVE FALSE
        <4>1. PassFails
          BY <2>1, <3>2 DEF Recheck
        <4>2. feed'.buffer = <<>>
          BY <4>1 DEF PassFails, NoPass
        <4>3. Len(feed'.buffer) = 0
          BY <4>2
        <4> QED BY <2>0, <4>3
      <3> QED BY <3>1, <3>2
    <2>4. feed.front = feed.back
      <3>1. InRing(feed.at) /\ record[Cell(feed.at)].committed # 0
        BY <2>2, <2>3 DEF Unchanged, InRing
      <3>2. feed.front = record[Cell(feed.at)].front /\ feed.back = record[Cell(feed.at)].back
        BY <2>0, <2>2, <3>1 DEF CopyInv
      <3>3. record[Cell(feed.at)].front = record[Cell(feed.at)].back
        BY <2>0, <2>2, <3>1 DEF RingInv, RecordInv
      <3> QED BY <3>2, <3>3
    <2> DEFINE item == [front |-> feed.front, back |-> feed.back, seq |-> feed.at]
    <2>5. Advance(Append(feed.buffer, item))
      BY <2>1, <2>3 DEF Recheck
    <2>6. feed'.buffer = Append(feed.buffer, item)
      BY <2>0, <2>5 DEF Advance, FeedType
    <2>7. item \in Items /\ item.front = item.back
      BY <2>0, <2>2, <2>4, FeedTypes DEF Items
    <2> HIDE DEF item
    <2>8. Last(feed'.buffer) = item
      BY <2>0, <2>6, <2>7 DEF Last
    <2> QED BY <2>7, <2>8
  <1>2. MInv /\ [Next]_vars =>
            [api'.pc = "answer" /\ api.pc # "answer" =>
                /\ slot[api.key].shown
                /\ api.front = slot[api.key].front /\ api.back = slot[api.key].back]_vars
    <2> SUFFICES ASSUME MInv, Next, api'.pc = "answer", api.pc # "answer"
                 PROVE  /\ slot[api.key].shown
                        /\ api.front = slot[api.key].front /\ api.back = slot[api.key].back
      OBVIOUS
    <2>0. Types /\ RingInv /\ ApiInv /\ api \in ApiType
      BY DEF MInv, Types
    <2>1. api' # api
      OBVIOUS
    <2>2. ApiStep
      <3>1. ~(PublishBegin \/ WriterStep \/ WriterDies)
        BY <2>0, <2>1, RingMoves DEF WriterActs
      <3>2. ~FeedStep
        BY <2>1 DEF FeedStep, OpenReader, OpenFails, LoadGeneration, LoadLatest, CheckCommitted, CopyFront,
                    CopyBack, Recheck, CompareGeneration, ClearBegin, ClearEnd, BookBegin, BookFront, BookBack,
                    PassDone, OnlyFeed
      <3> QED BY <3>1, <3>2 DEF Next
    <2>3. ReadAfter
      <3>1. ~ReadBefore /\ ~Answered
        BY DEF ReadBefore, Answered, NoRead
      <3>2. ~ReadFront /\ ~ReadBack
        BY <2>0 DEF ReadFront, ReadBack, ApiType
      <3> QED BY <2>2, <3>1, <3>2 DEF ApiStep
    <2>4. api.pc = "after" /\ SameVersion /\ api.shown
      BY <2>3 DEF ReadAfter, NoRead
    <2> QED BY <2>0, <2>4 DEF ApiInv, SameVersion
  <1> QED BY <1>1, <1>2, BookInvariant, PTL DEF NothingTorn, QuoteIntact, AnswerIntact, Spec

\* A book at rest shows nothing of an earlier life of the writer than the one it knows, and when the
\* feed has caught up with a writer at rest, the newest quote of every key that the ring holds
\* (read_available passes over no number that is still in the ring).
THEOREM BookStaysSound == Spec => []BookIsSound
  <1>1. MInv => TypeOK
    <2> SUFFICES ASSUME MInv PROVE TypeOK
      OBVIOUS
    <2>0. Types /\ PassInv /\ SlotInv
      BY DEF MInv
    <2>1. header.gen \in 0 .. MaxGenerations /\ header.published \in 0 .. MaxSequence
      BY <2>0 DEF Types
    <2>2. \A i \in 0 .. Capacity - 1 :
            /\ record[i].committed \in 0 .. MaxSequence
            /\ record[i].front \in Quotes \cup {NoQuote} /\ record[i].back \in Quotes \cup {NoQuote}
      BY <2>0, RingTypes DEF Cells, Values
    <2>3. writer.pc \in WriterSteps /\ writer.seq \in 0 .. MaxSequence
      BY <2>0 DEF Types
    <2>4. feed.pc \in FeedSteps /\ Len(feed.buffer) <= Capacity
      BY <2>0, FeedTypes DEF PassInv
    <2>5. ASSUME NEW k \in Keys
          PROVE  /\ slot[k].version \in Nat /\ slot[k].shown \in BOOLEAN
                 /\ slot[k].version % 2 = 1 => feed.pc \in {"cleared", "bookFront", "bookBack"}
      BY <2>0, FeedTypes DEF SlotInv, Busy
    <2>6. api.pc \in ApiSteps
      BY <2>0 DEF Types, ApiType
    <2> QED BY <2>1, <2>2, <2>3, <2>4, <2>5, <2>6 DEF TypeOK
  <1>2. MInv => StaleQuotesInvalidated
    BY DEF MInv, StaleQuotesInvalidated, Resting, StatusInv, Awaiting, Clearing
  <1>3. MInv => BookIsCurrent
    <2> SUFFICES ASSUME MInv, Resting, writer.pc = "idle",
                        cursor = [gen |-> header.gen, seq |-> header.published],
                        NEW k \in Keys, NEW q \in Newest(k)
                 PROVE  slot[k].shown /\ slot[k].back = q
      BY DEF BookIsCurrent
    <2>0. Types /\ RingInv /\ GenuineInv /\ CoverInv
      BY DEF MInv
    <2> DEFINE S == {record[i].back : i \in {j \in 0 .. Capacity - 1 :
                        record[j].committed # 0 /\ record[j].back.key = k}}
    <2>1. q \in S /\ \A r \in S : r.seq <= q.seq
      BY DEF Newest
    <2>2. PICK i \in Cells : record[i].committed # 0 /\ record[i].back.key = k /\ record[i].back = q
      BY <2>1 DEF Cells
    <2> DEFINE n == record[i].committed
               s == slot[k].seq
    <2>3. n \in Numbers /\ n \in Nat /\ Cell(n) = i /\ InRing(n) /\ q.seq = n
      <3>1. n \in Numbers /\ n \in Nat
        BY <2>0, <2>2, RingTypes
      <3>2. Cell(n) = i /\ q.seq = n
        BY <2>0, <2>2 DEF RingInv, RecordInv
      <3> QED BY <3>1, <3>2 DEF InRing
    <2>4. /\ Live /\ header.gen = writer.gen /\ header.gen # 0 /\ header.published = writer.seq
          /\ Present(cursor.gen) /\ cursor.seq = writer.seq
      <3>1. Live
        BY DEF Live
      <3>2. header.gen = writer.gen /\ header.gen # 0 /\ header.published = writer.seq
        BY <2>0, <3>1 DEF RingInv, WriterInv
      <3> QED BY <3>1, <3>2 DEF Present
    <2>5. n <= cursor.seq
      <3>1. Past(n) /\ writer.seq \in Nat
        BY <2>0, <2>4, RingTypes DEF RingInv, LifeInv, Settled
      <3> QED BY <2>3, <2>4, <3>1 DEF Past
    <2>6. status.gen = cursor.gen /\ slot[k].shown /\ s >= n
      <3>1. Dealt(n)
        BY <2>0, <2>3, <2>4 DEF CoverInv
      <3>2. status.gen = cursor.gen /\ Booked(n)
        BY <2>5, <3>1 DEF Dealt, Resting
      <3> QED BY <2>2, <2>3, <3>2 DEF Booked
    <2>7. slot[k].back.key = k /\ Genuine(slot[k].back, s)
      BY <2>0, <2>4, <2>6 DEF GenuineInv, Awaiting, Clearing, Resting
    <2>8. s \in Numbers /\ s \in Nat /\ Cell(s) \in Cells /\ Past(s) /\ slot[k].back.seq = s
      BY <2>0, <2>7, CellInCells, RingTypes DEF Genuine
    <2>9. InRing(s)
      <3>1. writer.seq < n + Capacity
        BY <2>0, <2>2, <2>4 DEF RingInv, WindowInv
      <3>2. writer.seq < s + Capacity
        BY <2>0, <2>3, <2>6, <2>8, <3>1, RingTypes
      <3> QED BY <2>0, <2>4, <2>8, <3>2 DEF RingInv, WindowInv
    <2>10. record[Cell(s)].back = slot[k].back /\ record[Cell(s)].committed = s /\ s # 0
      BY <2>0, <2>7, <2>8, <2>9, RingTypes DEF Genuine, InRing
    <2>11. slot[k].back \in S
      BY <2>7, <2>8, <2>10 DEF Cells
    <2>12. s = n
      <3>1. s <= n
        BY <2>1, <2>3, <2>8, <2>11
      <3> HIDE DEF n, s
      <3> QED BY <2>3, <2>6, <2>8, <3>1
    <2>13. slot[k].back = q
      BY <2>2, <2>3, <2>10, <2>12
    <2> QED BY <2>6, <2>13
  <1>4. MInv => BookIsSound
    BY <1>1, <1>2, <1>3 DEF BookIsSound
  <1> QED BY <1>4, BookInvariant, PTL
==============================================================================
