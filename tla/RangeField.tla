----------------------------- MODULE RangeField ------------------------------
(***************************************************************************)
(* A field of the range packet of a port, such as its source port or its     *)
(* TTL.  Filling a transmit pool steps it once for every mbuf, in an integer *)
(* with more room than the field has; the user moves the bounds in between.  *)
(***************************************************************************)
EXTENDS Naturals

CONSTANTS
  FieldSize,   \* the values a field has: 2 ^ 8 or 2 ^ 16
  Room,        \* the values of the integer it is stepped in
  MaxInc       \* the largest increment

ASSUME RangeAssumption ==
  /\ FieldSize \in Nat \ {0} /\ MaxInc \in Nat \ {0}
  /\ Room \in Nat /\ Room >= FieldSize + MaxInc

FieldValues == 0 .. FieldSize - 1

VARIABLES
  range,      \* start, min, max and inc of the field, in range_info_t
  value,      \* the field in seq_pkt[RANGE_PKT]
  \* history
  lap,        \* values since the field was last at min, under the same range
  lapLength   \* packets since then

rangeVars == <<range, value, lap, lapLength>>

RangeTypeOK ==
  /\ range \in [start : FieldValues, min : FieldValues, max : FieldValues, inc : 0 .. MaxInc]
  /\ value \in FieldValues /\ lap \subseteq FieldValues /\ lapLength \in Nat

RangeInit ==
  /\ range = [start |-> 0, min |-> 0, max |-> FieldSize - 1, inc |-> 1]
  /\ value = 0 /\ lap = {} /\ lapLength = 0

\* range <port> <field> start, min, max or inc: one of the four at a time
SetRange == \E part \in {"start", "min", "max", "inc"}, n \in FieldValues :
  /\ part = "inc" => n <= MaxInc
  /\ range' = [range EXCEPT ![part] = n]
  /\ lap' = {} /\ lapLength' = 0 /\ UNCHANGED value

\* mutant of SteppedTo: the sum is kept in the field itself
SumInField(v) == (v + range.inc) % FieldSize

SteppedTo(v) == (v + range.inc) % Room

Successor ==
  CASE range.inc = 0 -> range.start
    [] range.inc # 0 /\ SteppedTo(value) < range.min -> range.max
    [] range.inc # 0 /\ SteppedTo(value) >= range.min /\ SteppedTo(value) > range.max -> range.min
    [] OTHER -> SteppedTo(value)

\* mempool_setup_cb of one more mbuf
BuildNext ==
  /\ value' = Successor
  /\ \/ value' = range.min /\ lap' = {value'} /\ lapLength' = 1
     \/ value' # range.min /\ lap # {} /\ lap' = lap \cup {value'} /\ lapLength' = lapLength + 1
     \/ value' # range.min /\ lap = {} /\ UNCHANGED <<lap, lapLength>>
  /\ UNCHANGED range

RangeNext == SetRange \/ BuildNext

RangeSpec == RangeInit /\ [][RangeNext]_rangeVars
-----------------------------------------------------------------------------
\* min and what whole steps from it reach
Lattice == {v \in range.min .. range.max : range.inc # 0 /\ (v - range.min) % range.inc = 0}

(* However the bounds lie in the field, from min the packets go through every *)
(* value of the range once and come back to min: no value is missed, and none *)
(* comes twice in a lap.                                                      *)
LapsComplete == [][BuildNext /\ lap # {} /\ range.min <= range.max /\ range.inc # 0 =>
  /\ value' = range.min => lap = Lattice
  /\ value' \in lap => value' = range.min]_rangeVars
=============================================================================
