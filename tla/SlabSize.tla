------------------------------ MODULE SlabSize ------------------------------
(***************************************************************************)
(* The size classes of the kernel heap, src/mm/mm.c: pure functions of the *)
(* class number or of the size of an object.                               *)
(***************************************************************************)
EXTENDS Integers

PAGE_SIZE == 4096
SLAB_MAX == 16
SlabTypes == 0..(SLAB_MAX - 1)

(* 1 << n for the shifts that occur here.                                  *)
Bit(n) == <<1, 2, 4, 8, 16, 32, 64, 128, 256, 512, 1024, 2048, 4096, 8192>>[n + 1]

(* An enum slab_type is unsigned: one less than 0 is its largest value, of *)
(* which only two things matter, that it is no class and that its low four *)
(* bits are ones.                                                          *)
UINT_MAX == 65535
Decrement(type) == IF type = 0 THEN UINT_MAX ELSE type - 1

slab_size(type) ==
  LET low == type % 16
      shift == low \div 2 + 4
      sz == Bit(shift) + (IF low % 2 = 1 THEN Bit(shift - 1) ELSE 0)
  IN  CASE sz <= 1024 -> sz
        [] sz > 1024 /\ sz + 512 <= 2048 -> sz + 512
        [] OTHER -> sz + 1024

(* The smallest power of two that is not below sz; the bit tricks make 0   *)
(* of 0.  mm_alloc has asserted that sz is below 4096.                     *)
ceil_to_power_of_2(sz) ==
  IF sz = 0 THEN 0
  ELSE Bit(CHOOSE k \in 0..12 : sz <= Bit(k) /\ (k = 0 \/ Bit(k - 1) < sz))

(* How often n can be halved until it is 0.                                *)
Halvings(n) == CHOOSE k \in 0..13 : n < Bit(k) /\ (k = 0 \/ Bit(k - 1) <= n)

(* The class the search settles on, before the assertion that it is one.   *)
(* The search starts at 1 for 16 bytes and goes up by one class for every  *)
(* doubling of the size, while the classes double every second step.       *)
get_slab_from_size(sz) ==
  LET type == Halvings(ceil_to_power_of_2(sz) \div 16)
  IN  IF slab_size(Decrement(type)) >= sz THEN Decrement(type) ELSE type
=============================================================================
