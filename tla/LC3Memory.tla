----------------------------- MODULE LC3Memory -----------------------------
(***************************************************************************)
(* The Memory class (src/src/memory.cpp).  The array of 2^16 words is held *)
(* as a function on the addresses written since the last clear_memory:     *)
(* every other location still holds the zero that memory.fill(0) put       *)
(* there.  Addresses are uint16_t, so every read and write is in range.    *)
(***************************************************************************)
EXTENDS LC3Word, Sequences

IsMemory(m) == /\ DOMAIN m \subseteq Word
               /\ m \in [DOMAIN m -> Word]

ClearMemory == [a \in {} |-> 0]

ReadMem(m, address) == IF address \in DOMAIN m THEN m[address] ELSE 0

WriteMem(m, address, value) ==
    [a \in DOMAIN m \cup {address} |-> IF a = address THEN value ELSE m[a]]

\* The locations Memory::load_program stores to: a word that would fall past
\* the last location is dropped, it does not wrap to address 0.
Covered(data, start_addr) ==
    (start_addr .. (start_addr + Len(data) - 1)) \cap Word

LoadMem(m, data, start_addr) ==
    [a \in DOMAIN m \cup Covered(data, start_addr) |->
        IF a \in Covered(data, start_addr)
        THEN data[(a - start_addr) + 1]
        ELSE m[a]]

=============================================================================
