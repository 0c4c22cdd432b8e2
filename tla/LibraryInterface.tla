--------------------------- MODULE LibraryInterface ---------------------------
(***************************************************************************)
(* The functions of include/ as a caller sees them: the calls that can be  *)
(* made, and what each may leave in the RAM and as its result.  A byte is  *)
(* a set of bits.                                                          *)
(***************************************************************************)
EXTENDS Integers

CONSTANTS
  Bits,        \* the bits of a byte that are told apart
  Buffer,      \* number of bytes that a caller keeps in buffers, from address 0 on
  RamSize      \* number of bytes of the RAM

(* The registers of an event unit that the system does not have: their     *)
(* addresses are those of RAM that nothing else uses.                      *)
IER == Buffer
ICP == Buffer + 1
SCR == Buffer + 2

ASSUME RamAssumption == Buffer \in Nat /\ RamSize \in Nat /\ SCR < RamSize
ASSUME BitsAssumption == "b0" \in Bits

Addresses == 0..(RamSize - 1)
Nowhere   == [f |-> "none"]

TC_CRYPTO_FAIL == 0
Void           == -1    \* what a function without a result leaves

(* ---- the calls ----------------------------------------------------------*)
(* Ranges of the buffer, and the functions that work on them.              *)
Fits(a, len) == a + len <= Buffer

Copies ==
  { c \in [f : {"memcpy", "_copy"}, to : 0..Buffer, from : 0..Buffer, len : 0..Buffer, to_len : 0..Buffer] :
      /\ Fits(c.to, c.len) /\ Fits(c.from, c.len)
      /\ c.to_len = c.len \/ (c.f = "_copy" /\ c.to_len = c.len - 1) }

Fills ==
  { c \in [f : {"memset", "_set", "_set_secure"}, to : 0..Buffer, val : SUBSET Bits, len : 0..Buffer] :
      Fits(c.to, c.len) }

Comparisons ==
  { c \in [f : {"_compare"}, a : 0..Buffer, b : 0..Buffer, len : 0..Buffer] :
      Fits(c.a, c.len) /\ Fits(c.b, c.len) }

Periphs   == [f : {"int_periph_enable", "int_periph_disable", "int_periph_clear"}, periph : Bits]
Waits     == [f : {"sleep_busy"}, len : 0..Buffer]
Simple    == [f : {"sleep", "int_enable", "int_disable", "get_core_id", "get_core_num"}]
CsrWrites == [f : {"csrw"}, value : BOOLEAN]

Calls == Copies \cup Fills \cup Comparisons \cup Periphs \cup Waits \cup Simple \cup CsrWrites

(* ---- what they promise ---------------------------------------------------*)
In(a, to, len) == a \in to..(to + len - 1)

(* A forward copy repeats itself where its target begins inside its source.*)
Overruns(c) == c.to \in (c.from + 1)..(c.from + c.len - 1)

Copied(m, c, k) ==
  [a \in Addresses |-> IF In(a, c.to, k) THEN m[c.from + a - c.to] ELSE m[a]]
Filled(m, c, k) == [a \in Addresses |-> IF In(a, c.to, k) THEN c.val ELSE m[a]]

Equal(m, c) == \A k \in 0..(c.len - 1) : m[c.a + k] = m[c.b + k]

Refused(c) == c.f = "_copy" /\ c.len > c.to_len

(* The memory m2 that a call may leave of m, and its result.               *)
Leaves(c, m, m2) ==
  CASE Refused(c) -> m2 = m
    [] c.f \in {"memcpy", "_copy"} /\ ~Refused(c) ->
         IF Overruns(c) THEN \A a \in Addresses : In(a, c.to, c.len) \/ m2[a] = m[a]
         ELSE m2 = Copied(m, c, c.len)
    [] c.f \in {"memset", "_set", "_set_secure"} -> m2 = Filled(m, c, c.len)
    [] c.f = "int_periph_enable"  -> m2 = [m EXCEPT ![IER] = @ \cup {c.periph}]
    [] c.f = "int_periph_disable" -> m2 = [m EXCEPT ![IER] = @ \ {c.periph}]
    [] c.f = "int_periph_clear"   -> m2 = [m EXCEPT ![ICP] = @ \cup {c.periph}]
    [] c.f = "sleep"              -> m2 = [m EXCEPT ![SCR] = {"b0"}]
    [] OTHER                      -> m2 = m

Answers(c, m, r) ==
  CASE c.f \in {"memcpy", "memset"} -> r = c.to
    [] c.f = "_copy"                -> r = IF Refused(c) THEN TC_CRYPTO_FAIL ELSE c.len
    [] c.f = "_compare"             -> (r = 0) <=> Equal(m, c)
    [] c.f \in {"get_core_id", "get_core_num"} -> r = 0
    [] OTHER                        -> r = Void
==============================================================================
