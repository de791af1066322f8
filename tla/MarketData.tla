------------------------------ MODULE MarketData ------------------------------
(***************************************************************************)
(* From the market-data process to a price in the gateway: the writer of   *)
(* the memory-mapped ring, the feed thread that reads it without a lock    *)
(* and fills the quote book, and a thread that reads a quote from the book *)
(* (src/infrastructure/market_data_ring.cpp,                               *)
(* include/abex/infrastructure/market_data_feed.hpp,                       *)
(* src/application/market_data_book.cpp).                                  *)
(*                                                                         *)
(* A quote is named by the life of the writer that published it, its       *)
(* number and the slot of the book it belongs to; prices, times and texts  *)
(* are left out.  A record holds it in two parts, `front' (times and bid)  *)
(* and `back' (ask, venue and symbol), so that a reader can meet one part  *)
(* of one quote and one of another.  Accesses take effect in program       *)
(* order, as on x86.  The writer may die at any moment and be restarted    *)
(* (MarketDataProcess of apps/abex_server, or by hand).                    *)
(***************************************************************************)
EXTENDS Integers, Sequences, FiniteSets, FiniteSetsExt, SequencesExt

CONSTANTS Keys,            \* pairs of venue and symbol: the slots of the book
          Capacity,        \* capacity_ of the ring
          MaxSequence,     \* bound on the quotes of one life of the writer
          MaxGenerations   \* bound on the lives of the writer

ASSUME RingAssumption ==
    Capacity \in Nat \ {0} /\ MaxGenerations \in Nat /\ MaxSequence \in Nat /\ Keys # {}

VARIABLES
    header,     \* RingHeader: magic, generation, published_sequence
    record,     \* the RingRecords
    writer,     \* the writing process: where it is, its life, sequence_, the quote's key
    cursor,     \* MarketDataCursor of the feed
    feed,       \* the feed thread: where it is and what it has loaded
    slot,       \* quotes_ of the book
    status,     \* status_ of the book
    api         \* a reader of the book: where it is and what it has loaded

ringVars == <<header, record, writer>>
bookVars == <<slot, status>>
vars == <<header, record, writer, cursor, feed, slot, status, api>>

Quotes == [gen : 1 .. MaxGenerations, seq : 1 .. MaxSequence, key : Keys]
NoQuote == [gen |-> 0, seq |-> 0, key |-> CHOOSE k \in Keys : TRUE]
Zero == [committed |-> 0, seq |-> 0, front |-> NoQuote, back |-> NoQuote]
Cell(n) == (n - 1) % Capacity

WriterSteps == {"down", "zeroing", "magic", "generation", "idle",
                "invalidate", "front", "back", "commit", "publish"}
FeedSteps == {"open", "generation", "latest", "check", "front", "back", "recheck", "status",
              "clear", "cleared", "book", "bookFront", "bookBack"}
ApiSteps == {"idle", "front", "back", "after", "answer"}
NoPass == [pc |-> "open", gen |-> 0, latest |-> 0, at |-> 0, seq |-> 0,
           front |-> NoQuote, back |-> NoQuote, buffer |-> <<>>, todo |-> {}, failed |-> FALSE]

NoRead == [pc |-> "idle", key |-> NoQuote.key, before |-> 0, front |-> NoQuote,
           back |-> NoQuote, shown |-> FALSE]

\* The types of the state; a slot is being written when its version is odd.
TypeOK ==
    /\ header.gen \in 0 .. MaxGenerations /\ header.published \in 0 .. MaxSequence
    /\ \A i \in 0 .. Capacity - 1 :
        /\ record[i].committed \in 0 .. MaxSequence
        /\ record[i].front \in Quotes \cup {NoQuote} /\ record[i].back \in Quotes \cup {NoQuote}
    /\ writer.pc \in WriterSteps /\ writer.seq \in 0 .. MaxSequence
    /\ feed.pc \in FeedSteps /\ Len(feed.buffer) <= Capacity
    /\ \A k \in Keys : /\ slot[k].version \in Nat /\ slot[k].shown \in BOOLEAN
                       /\ slot[k].version % 2 = 1 => feed.pc \in {"cleared", "bookFront", "bookBack"}
    /\ api.pc \in ApiSteps

Init ==
    /\ header = [magic |-> FALSE, gen |-> 0, published |-> 0]
    /\ record = [i \in 0 .. Capacity - 1 |-> Zero]
    /\ writer = [pc |-> "down", gen |-> 0, seq |-> 0, at |-> 0, key |-> NoQuote.key]
    /\ cursor = [gen |-> 0, seq |-> 0]
    /\ feed = NoPass
    /\ slot = [k \in Keys |-> [version |-> 0, front |-> NoQuote, back |-> NoQuote,
                               seq |-> 0, shown |-> FALSE]]
    /\ status = [mapped |-> FALSE, gen |-> 0, last |-> 0]
    /\ api = NoRead
-----------------------------------------------------------------------------
(* MarketDataRingWriter *)

Others == UNCHANGED <<cursor, feed, slot, status, api>>
WriterGoto(pc) == writer' = [writer EXCEPT !.pc = pc]
Target == Cell(writer.seq)
Quote == [gen |-> writer.gen, seq |-> writer.seq, key |-> writer.key]

\* The constructor: the file is locked, mapped and wiped, the header first.
WriterStart ==
    /\ writer.pc = "down" /\ writer.gen < MaxGenerations
    /\ header' = [magic |-> FALSE, gen |-> 0, published |-> 0]
    /\ writer' = [writer EXCEPT !.pc = "zeroing", !.gen = @ + 1, !.seq = 0, !.at = 0]
    /\ UNCHANGED record /\ Others
Wipe ==
    /\ writer.pc = "zeroing"
    /\ record' = [record EXCEPT ![writer.at] = Zero]
    /\ writer' = [writer EXCEPT !.at = @ + 1,
                                !.pc = IF writer.at + 1 = Capacity THEN "magic" ELSE @]
    /\ UNCHANGED header /\ Others
WriteMagic ==
    /\ writer.pc = "magic"
    /\ header' = [header EXCEPT !.magic = TRUE, !.published = 0]
    /\ WriterGoto("generation")
    /\ UNCHANGED record /\ Others
\* The generation is stored last; two lives of the writer never have the same one.
WriteGeneration ==
    /\ writer.pc = "generation"
    /\ header' = [header EXCEPT !.gen = writer.gen]
    /\ WriterGoto("idle")
    /\ UNCHANGED record /\ Others

\* publish: one quote of a call
PublishBegin ==
    /\ writer.pc = "idle" /\ writer.seq < MaxSequence
    /\ \E k \in Keys : writer' = [writer EXCEPT !.pc = "invalidate", !.seq = @ + 1, !.key = k]
    /\ UNCHANGED <<header, record>> /\ Others
Invalidate_Skipped ==
    /\ writer.pc = "invalidate"
    /\ WriterGoto("front")
    /\ UNCHANGED <<header, record>> /\ Others
Invalidate ==
    /\ writer.pc = "invalidate"
    /\ record' = [record EXCEPT ![Target].committed = 0]
    /\ WriterGoto("front")
    /\ UNCHANGED header /\ Others
WriteFront ==
    /\ writer.pc = "front"
    /\ record' = [record EXCEPT ![Target].seq = writer.seq, ![Target].front = Quote]
    /\ WriterGoto("back")
    /\ UNCHANGED header /\ Others
WriteBack ==
    /\ writer.pc = "back"
    /\ record' = [record EXCEPT ![Target].back = Quote]
    /\ WriterGoto("commit")
    /\ UNCHANGED header /\ Others
Commit ==
    /\ writer.pc = "commit"
    /\ record' = [record EXCEPT ![Target].committed = writer.seq]
    /\ WriterGoto("publish")
    /\ UNCHANGED header /\ Others
PublishSequence ==
    /\ writer.pc = "publish"
    /\ header' = [header EXCEPT !.published = writer.seq]
    /\ WriterGoto("idle")
    /\ UNCHANGED record /\ Others
WriterDies ==
    /\ writer.pc # "down" /\ writer.gen < MaxGenerations
    /\ WriterGoto("down")
    /\ UNCHANGED <<header, record>> /\ Others

WriterStep ==
    \/ WriterStart \/ Wipe \/ WriteMagic \/ WriteGeneration
    \/ Invalidate \/ WriteFront \/ WriteBack \/ Commit \/ PublishSequence
-----------------------------------------------------------------------------
(* MarketDataRingReader and MarketDataRingFeed::run *)

FeedGoto(pc) == feed' = [feed EXCEPT !.pc = pc]
OnlyFeed == UNCHANGED <<ringVars, cursor, bookVars, api>>

\* set_ring_status clears the book between two generations.
ClearsSlots(g) == g # 0 /\ status.gen # 0 /\ g # status.gen

\* The handler of exceptions: the reader is dropped, and the next poll maps the file again.
PassFails ==
    /\ status' = [mapped |-> FALSE, gen |-> cursor.gen, last |-> cursor.seq]
    /\ feed' = [NoPass EXCEPT !.pc = IF ClearsSlots(cursor.gen) THEN "clear" ELSE "open",
                              !.todo = IF ClearsSlots(cursor.gen) THEN Keys ELSE {},
                              !.failed = ClearsSlots(cursor.gen)]
    /\ UNCHANGED <<cursor, slot>>

\* The reader maps the file; a header without magic is an exception.
OpenReader ==
    /\ feed.pc = "open" /\ header.magic
    /\ FeedGoto("generation")
    /\ OnlyFeed
OpenFails ==
    /\ feed.pc = "open" /\ ~header.magic
    /\ PassFails
    /\ UNCHANGED <<ringVars, api>>

LoadGeneration ==
    /\ feed.pc = "generation"
    /\ feed' = [NoPass EXCEPT !.pc = "latest", !.gen = header.gen]
    /\ OnlyFeed

\* Where the reading starts: a new generation and a number beyond the latest reset the cursor.
ResetCursor_SameGeneration(g, latest) == cursor
ResetCursor(g, latest) ==
    IF cursor.gen # g \/ cursor.seq > latest THEN [gen |-> g, seq |-> 0] ELSE cursor
FirstRead(c, latest) ==
    Max({c.seq + 1, IF latest > Capacity THEN latest - Capacity + 1 ELSE 1})

LoadLatest ==
    /\ feed.pc = "latest"
    /\ IF feed.gen = 0 THEN FeedGoto("status") /\ UNCHANGED cursor
       ELSE LET c == ResetCursor(feed.gen, header.published) IN
            /\ cursor' = c
            /\ feed' = [feed EXCEPT !.latest = header.published,
                          !.at = FirstRead(c, header.published),
                          !.pc = IF header.published <= c.seq THEN "status" ELSE "check"]
    /\ UNCHANGED <<ringVars, bookVars, api>>

\* The next number, or the end of read_available: the cursor moves to the last number processed.
Processed_Reloaded == header.published
Processed == feed.latest
Advance(buffer) ==
    IF feed.at < feed.latest
    THEN feed' = [feed EXCEPT !.at = @ + 1, !.pc = "check", !.buffer = buffer]
         /\ UNCHANGED cursor
    ELSE feed' = [feed EXCEPT !.pc = "status", !.buffer = buffer]
         /\ cursor' = [gen |-> feed.gen, seq |-> Processed]

CheckCommitted ==
    /\ feed.pc = "check"
    /\ IF record[Cell(feed.at)].committed = feed.at THEN FeedGoto("front") /\ UNCHANGED cursor
       ELSE Advance(feed.buffer)
    /\ UNCHANGED <<ringVars, bookVars, api>>
CopyFront ==
    /\ feed.pc = "front"
    /\ feed' = [feed EXCEPT !.pc = "back", !.seq = record[Cell(feed.at)].seq,
                            !.front = record[Cell(feed.at)].front]
    /\ OnlyFeed
CopyBack ==
    /\ feed.pc = "back"
    /\ feed' = [feed EXCEPT !.pc = "recheck", !.back = record[Cell(feed.at)].back]
    /\ OnlyFeed

\* The copy is kept only if the record was the same before and after it.
Unchanged == record[Cell(feed.at)].committed = feed.at /\ feed.seq = feed.at
\* decode_venue throws on the venue of a record that was wiped.  Quotes are valid: a writer publishes
\* no other, so the valid_quote filter drops nothing here.
Recheck ==
    /\ feed.pc = "recheck"
    /\ CASE ~Unchanged -> Advance(feed.buffer) /\ UNCHANGED bookVars
         [] Unchanged /\ feed.back = NoQuote -> PassFails
         [] OTHER -> /\ Advance(Append(feed.buffer, [front |-> feed.front, back |-> feed.back,
                                                    seq |-> feed.at]))
                     /\ UNCHANGED bookVars
    /\ UNCHANGED <<ringVars, api>>

\* The feed compares the generation of its cursor with the one of the book.
CompareGeneration ==
    /\ feed.pc = "status"
    /\ IF cursor.gen # status.gen
       THEN /\ feed' = [feed EXCEPT !.pc = IF ClearsSlots(cursor.gen) THEN "clear" ELSE "book",
                                    !.todo = Keys]
            /\ status' = [mapped |-> TRUE, gen |-> cursor.gen, last |-> 0]
       ELSE FeedGoto("book") /\ UNCHANGED status
    /\ UNCHANGED <<ringVars, cursor, slot, api>>

\* clear_slots, one slot: its version is odd while it is emptied.
ClearBegin ==
    /\ feed.pc = "clear"
    /\ IF feed.todo = {}
       THEN /\ feed' = [feed EXCEPT !.pc = IF feed.failed THEN "open" ELSE "book", !.failed = FALSE]
            /\ UNCHANGED slot
       ELSE LET k == CHOOSE k \in feed.todo : TRUE IN
            /\ slot' = [slot EXCEPT ![k].version = @ + 1, ![k].shown = FALSE]
            /\ FeedGoto("cleared")
    /\ UNCHANGED <<ringVars, cursor, status, api>>
ClearEnd ==
    /\ feed.pc = "cleared"
    /\ LET k == CHOOSE k \in feed.todo : TRUE IN
        /\ slot' = [slot EXCEPT ![k].version = @ + 1, ![k].seq = 0]
        /\ feed' = [feed EXCEPT !.pc = "clear", !.todo = @ \ {k}]
    /\ UNCHANGED <<ringVars, cursor, status, api>>
-----------------------------------------------------------------------------
(* MarketDataBook::publish, called by the feed for each quote it has read *)

Current == Head(feed.buffer)
Key == Current.back.key
OlderThanSlot == slot[Key].seq > Current.seq

BookBegin ==
    /\ feed.pc = "book" /\ feed.buffer # <<>>
    /\ IF OlderThanSlot
       THEN feed' = [feed EXCEPT !.buffer = Tail(@)] /\ UNCHANGED slot
       ELSE slot' = [slot EXCEPT ![Key].version = @ + 1] /\ FeedGoto("bookFront")
    /\ UNCHANGED <<ringVars, cursor, status, api>>
BookFront ==
    /\ feed.pc = "bookFront"
    /\ slot' = [slot EXCEPT ![Key].front = Current.front]
    /\ FeedGoto("bookBack")
    /\ UNCHANGED <<ringVars, cursor, status, api>>
\* The rest of the fields, the second step of version, and the status.
BookBack ==
    /\ feed.pc = "bookBack"
    /\ slot' = [slot EXCEPT ![Key].back = Current.back, ![Key].seq = Current.seq,
                            ![Key].shown = TRUE, ![Key].version = @ + 1]
    /\ status' = [status EXCEPT !.last = Max({@, Current.seq})]
    /\ feed' = [feed EXCEPT !.pc = "book", !.buffer = Tail(@)]
    /\ UNCHANGED <<ringVars, cursor, api>>
\* The last statement of a pass, and the sleep.
PassDone ==
    /\ feed.pc = "book" /\ feed.buffer = <<>>
    /\ status' = [mapped |-> TRUE, gen |-> cursor.gen, last |-> cursor.seq]
    /\ feed' = [NoPass EXCEPT !.pc = "generation"]
    /\ UNCHANGED <<ringVars, cursor, slot, api>>

FeedStep ==
    \/ OpenReader \/ OpenFails \/ LoadGeneration \/ LoadLatest
    \/ CheckCommitted \/ CopyFront \/ CopyBack \/ Recheck
    \/ CompareGeneration \/ ClearBegin \/ ClearEnd
    \/ BookBegin \/ BookFront \/ BookBack \/ PassDone
-----------------------------------------------------------------------------
(* MarketDataBook::read_slot *)

OnlyApi == UNCHANGED <<ringVars, cursor, feed, bookVars>>
ReadBefore ==
    /\ api.pc = "idle"
    /\ \E k \in Keys : /\ slot[k].version % 2 = 0
                       /\ api' = [NoRead EXCEPT !.pc = "front", !.key = k,
                                                !.before = slot[k].version]
    /\ OnlyApi
ReadFront ==
    /\ api.pc = "front"
    /\ api' = [api EXCEPT !.pc = "back", !.front = slot[api.key].front]
    /\ OnlyApi
ReadBack ==
    /\ api.pc = "back"
    /\ api' = [api EXCEPT !.pc = "after", !.back = slot[api.key].back, !.shown = slot[api.key].shown]
    /\ OnlyApi
SameVersion == slot[api.key].version = api.before
\* A slot that changed is read again; an empty one has no quote.
ReadAfter ==
    /\ api.pc = "after"
    /\ api' = IF SameVersion /\ api.shown THEN [api EXCEPT !.pc = "answer", !.before = 0]
              ELSE NoRead
    /\ OnlyApi
Answered ==
    /\ api.pc = "answer"
    /\ api' = NoRead
    /\ OnlyApi

ApiStep == ReadBefore \/ ReadFront \/ ReadBack \/ ReadAfter \/ Answered
Next == PublishBegin \/ WriterStep \/ WriterDies \/ FeedStep \/ ApiStep

Spec == Init /\ [][Next]_vars
\* The feed polls for ever; nobody is obliged to publish or to restart the writer.
FairSpec == Spec /\ WF_vars(FeedStep)
-----------------------------------------------------------------------------
\* What the feed takes from the ring is one quote and not parts of two, although the writer of
\* another process overwrites the record meanwhile (committed_sequence before and after the copy),
\* unless the writer was restarted and has reused the number during the pass.
QuoteIntact ==
    [][Len(feed'.buffer) > Len(feed.buffer) /\ writer.gen = feed.gen =>
          Last(feed'.buffer).front = Last(feed'.buffer).back]_vars

\* What a reader of the book gets is a quote the feed published, never half of it and never one
\* the feed has cleared meanwhile (the version of a slot before and after the copy).
AnswerIntact ==
    [][api'.pc = "answer" /\ api.pc # "answer" =>
          /\ slot[api.key].shown
          /\ api.front = slot[api.key].front /\ api.back = slot[api.key].back]_vars

\* Neither the ring nor the book ever yields parts of two quotes.
NothingTorn == QuoteIntact /\ AnswerIntact

Resting == feed.pc = "generation"
Newest(k) ==
    LET S == {record[i].back : i \in {j \in 0 .. Capacity - 1 :
                  record[j].committed # 0 /\ record[j].back.key = k}}
    IN  {q \in S : \A r \in S : r.seq <= q.seq}

\* A feed that has caught up with a writer at rest shows the newest quote the ring holds of every
\* key: none is skipped, whatever was overwritten or wiped while it read (read_available, publish).
BookIsCurrent ==
    Resting /\ writer.pc = "idle" /\ cursor = [gen |-> header.gen, seq |-> header.published] =>
        \A k \in Keys : \A q \in Newest(k) : slot[k].shown /\ slot[k].back = q

\* Generation tracking invalidates what an earlier life of the writer left in the book
\* (set_ring_status, clear_slots).
StaleQuotesInvalidated ==
    Resting => \A k \in Keys : slot[k].shown => slot[k].back.gen >= status.gen

\* The book at rest shows the newest quotes of this life of the writer, and none of an earlier one.
BookIsSound == TypeOK /\ BookIsCurrent /\ StaleQuotesInvalidated

\* The feed reaches the last number a life of the writer publishes, or that life has ended.
FeedCatchesUp ==
    \A g \in 1 .. MaxGenerations :
        (header.gen = g /\ header.published = MaxSequence)
            ~> (header.gen # g \/ cursor = [gen |-> g, seq |-> MaxSequence])
===============================================================================
