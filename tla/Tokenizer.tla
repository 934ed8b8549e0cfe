----------------------------- MODULE Tokenizer -----------------------------
(***************************************************************************)
(* The tokenizer (crates/mbo-tokenizer/src/lib.rs) over the order book it  *)
(* keeps, and the tool that runs it over day files (tools/mbo-tokenize):   *)
(* a record becomes [action] [side] [price] [size], the price in ticks     *)
(* from the mid of the book before the record, a clear becomes one token,  *)
(* the last record of a batch adds a commit, and a file is framed by begin *)
(* and end. One tokenizer, and one book, goes through all the files.       *)
(*                                                                         *)
(* Tokens are the numbers of the source, whose vocabulary has PriceRange   *)
(* = 50. Prices are fixed-point numbers and TickSize is in the same unit.  *)
(* The stream itself is not kept: what the last step appended is.          *)
(***************************************************************************)
EXTENDS BookBuilder, Sequences

CONSTANTS
  PriceRange,   (* ticks from the mid that have a token                     *)
  TickSize      (* fixed-point units in a tick                              *)

ASSUME TokenizerAssumption ==
  /\ PriceRange \in Nat \ {0} /\ TickSize \in Nat \ {0}
  /\ \A p \in Prices : p % TickSize = 0  (* the exchange quotes whole ticks *)

VARIABLES
  stage,     (* of the tool: "between" files, in a "file", "written", "failed" *)
  record,    (* history: the record of the last step, or None               *)
  tokens,    (* what the last step appended to the stream                   *)
  stats      (* TokenizerStats                                              *)

tool == <<stage, record, tokens, stats>>
all  == <<vars, tool>>

-----------------------------------------------------------------------------
(* The vocabulary. *)

BOS    == 1
EOS    == 2
COMMIT == 3

EncodeAction == [A |-> 4, C |-> 5, M |-> 6, T |-> 7, F |-> 8, R |-> 9]

EncodeSide(s) == CASE s = "B" -> 10 [] s = "A" -> 11 [] OTHER -> 12

FarNeg    == 13
PriceZero == 14 + PriceRange
FarPos    == PriceZero + PriceRange + 1
NoRef     == FarPos + 1

EncodePrice(ticks) ==
  IF ticks < -PriceRange THEN FarNeg
  ELSE IF ticks > PriceRange THEN FarPos
  ELSE PriceZero + ticks

(* Rounded to the nearest, halves away from zero. *)
Rounded(n, d) == IF n >= 0 THEN (2 * n + d) \div (2 * d) ELSE -((d - 2 * n) \div (2 * d))

TickDelta(price, mid) == Rounded(price - mid, TickSize)

(* The sizes at which a bucket begins. *)
Buckets == <<0, 1, 2, 4, 8, 16, 32, 64, 128>>
Size0   == NoRef + 1

EncodeSize(n) == Size0 + Cardinality({i \in 2 .. 9 : Buckets[i] <= n})

(* decode_action, decode_side, decode_price, decode_size.                   *)
DecodeAction(t) == CHOOSE a \in DOMAIN EncodeAction : EncodeAction[a] = t
DecodeSide(t)   == CHOOSE s \in {"B", "A", "N"} : EncodeSide(s) = t
DecodePrice(t)  ==
  [delta |-> CASE t = FarNeg -> "FarNeg" [] t = FarPos -> "FarPos"
               [] t = NoRef -> "NoRef" [] OTHER -> "Ticks",
   ticks |-> t - PriceZero]
DecodeSize(t)   == Buckets[t - Size0 + 1]

-----------------------------------------------------------------------------
(* One record. *)

(* The half of an integer, towards zero. *)
Half(n) == IF n >= 0 THEN n \div 2 ELSE -((-n) \div 2)

(* current_mid_fixed. *)
Mid(top) ==
  IF \E s \in Sides : top[s] = None THEN None
  ELSE Half(top["B"].price + top["A"].price)

PriceToken(e, mid) ==
  IF mid = None THEN NoRef ELSE EncodePrice(TickDelta(e.price, mid))

Known(e) == e.action \in DOMAIN EncodeAction

Body(e, mid) ==
  IF e.action = "R" THEN <<EncodeAction["R"]>>
  ELSE <<EncodeAction[e.action], EncodeSide(e.side), PriceToken(e, mid), EncodeSize(e.size)>>

EmitUnknown(e, mid) ==  (* mutant: a record of an unknown action commits too *)
  (IF Known(e) THEN Body(e, mid) ELSE <<>>) \o IF e.last THEN <<COMMIT>> ELSE <<>>

(* An action that has no token appends nothing, not even a commit.          *)
Emit(e, mid) ==
  IF ~Known(e) THEN <<>>
  ELSE Body(e, mid) \o IF e.last THEN <<COMMIT>> ELSE <<>>

NoStats == [processed |-> 0, skipped |-> 0, emitted |-> 0, commits |-> 0,
            actions |-> [a \in DOMAIN EncodeAction |-> 0],
            farNeg |-> 0, farPos |-> 0, noRef |-> 0,
            prices |-> 0, sizes |-> [b \in 1 .. 9 |-> 0]]

One(P) == IF P THEN 1 ELSE 0

(* The histogram of prices is kept as its total. *)
Counted(e, mid, out) ==
  LET priced == Known(e) /\ e.action # "R"
      price  == PriceToken(e, mid)
  IN  [stats EXCEPT
         !.processed = @ + 1,
         !.emitted   = @ + Len(out),
         !.commits   = @ + One(Known(e) /\ e.last),
         !.actions   = [a \in DOMAIN @ |-> @[a] + One(a = e.action)],
         !.farNeg    = @ + One(priced /\ price = FarNeg),
         !.farPos    = @ + One(priced /\ price = FarPos),
         !.noRef     = @ + One(priced /\ price = NoRef),
         !.prices    = @ + One(priced /\ price # NoRef),
         !.sizes     = [b \in 1 .. 9 |-> @[b] + One(priced /\ EncodeSize(e.size) = Size0 + b - 1)]]

Encode(e, mid) ==
  LET out == Emit(e, mid)
  IN  /\ record' = e
      /\ tokens' = out
      /\ stats' = Counted(e, mid, out)

(* feed_event: the mid is that of the book before the record.               *)
FeedEventAfter(e) ==  (* mutant: the book is updated first *)
  stage = "file" /\ ProcessEvent(e) /\ Encode(e, Mid(Top(levels'))) /\ UNCHANGED stage

FeedEvent(e) ==
  stage = "file" /\ ProcessEvent(e) /\ Encode(e, Mid(Top(levels))) /\ UNCHANGED stage

SkipInstrument ==
  /\ stage = "file"
  /\ record' = None
  /\ tokens' = <<>>
  /\ stats' = [stats EXCEPT !.skipped = @ + 1]
  /\ UNCHANGED <<vars, stage>>

(* price_in_range_pct: the records it counts as in range. *)
InRange(st) == st.processed - st.farNeg - st.farPos - st.noRef

-----------------------------------------------------------------------------
(* The tool: files one after the other into one stream, which is written    *)
(* when the last one is through. A file that does not decode ends it.       *)

TokenizerInit ==
  /\ Init
  /\ stage = "between" /\ record = None /\ tokens = <<>> /\ stats = NoStats

OpenFile ==
  /\ stage = "between"
  /\ stage' = "file" /\ tokens' = <<BOS>> /\ record' = None
  /\ UNCHANGED <<vars, stats>>

CloseFile ==
  /\ stage = "file"
  /\ stage' = "between" /\ tokens' = <<EOS>> /\ record' = None
  /\ UNCHANGED <<vars, stats>>

DecodeError ==
  /\ stage \in {"between", "file"}
  /\ stage' = "failed" /\ tokens' = <<>> /\ record' = None
  /\ UNCHANGED <<vars, stats>>

Write ==
  /\ stage = "between"
  /\ stage' = "written" /\ tokens' = <<>> /\ record' = None
  /\ UNCHANGED <<vars, stats>>

TokenizerNext ==
  \/ \E e \in Feed : FeedEvent(e)
  \/ SkipInstrument
  \/ OpenFile
  \/ CloseFile
  \/ DecodeError
  \/ Write

TokenizerSpec == TokenizerInit /\ [][TokenizerNext]_all

-----------------------------------------------------------------------------
(* A reader that knows the book before a record gets the record back from   *)
(* its tokens: its action, its side, the bucket of its size, and its price  *)
(* to the tick, or on which side of the range it lies; no reference is      *)
(* given exactly when a side of that book was empty, and a commit follows   *)
(* exactly when the batch ends.                                             *)
Reads(out, e, mid) ==
  /\ DecodeAction(out[1]) = e.action
  /\ e.action # "R" =>
       /\ DecodeSide(out[2]) = e.side
       /\ \A k \in 1 .. 9 : Buckets[k] <= e.size <=> Buckets[k] <= DecodeSize(out[4])
       /\ LET d == DecodePrice(out[3])
          IN  /\ d.delta = "NoRef" <=> mid = None
              /\ d.delta = "FarNeg" => e.price < mid - PriceRange * TickSize
              /\ d.delta = "FarPos" => e.price > mid + PriceRange * TickSize
              /\ d.delta = "Ticks" => {p \in Prices : TickDelta(p, mid) = d.ticks} = {e.price}
  /\ Len(out) = (IF e.action = "R" THEN 1 ELSE 4) + One(e.last)
  /\ e.last => out[Len(out)] = COMMIT

EventRecovered ==
  [][record' # None /\ Known(record') => Reads(tokens', record', Mid(Top(levels)))]_all

(* The records by size, and by action, added up. *)
Sized(st) ==
  LET n == st.sizes
  IN  n[1] + n[2] + n[3] + n[4] + n[5] + n[6] + n[7] + n[8] + n[9]

Acted(st) ==
  LET n == st.actions
  IN  n["A"] + n["C"] + n["M"] + n["T"] + n["F"] + n["R"]

(* The numbers the tool reports are those of the stream it writes: every    *)
(* record with a price is in one bucket of sizes and one of prices or has   *)
(* no reference, the tokens are four for each of them, one for each clear   *)
(* and one for each commit, a commit in the stream is one of the book, and  *)
(* the count of prices in range, a difference of unsigned numbers, is not   *)
(* negative.                                                                *)
Describes(st) ==
  LET priced == Sized(st)
      clears == st.actions["R"]
  IN  /\ priced = st.prices + st.noRef
      /\ Acted(st) = priced + clears
      /\ st.emitted = 4 * priced + clears + st.commits
      /\ InRange(st) >= st.prices - st.farNeg - st.farPos
      /\ st.prices - st.farNeg - st.farPos >= 0

StatsDescribeStream ==
  [][/\ Describes(stats')
     /\ record' # None => stats'.emitted = stats.emitted + Len(tokens')
     /\ stats'.commits > stats.commits <=> tokens' # <<>> /\ tokens'[Len(tokens')] = COMMIT
     /\ stats'.commits > stats.commits => batch'.closed]_all
=============================================================================
