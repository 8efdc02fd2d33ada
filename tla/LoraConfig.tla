------------------------------ MODULE LoraConfig ------------------------------
(***************************************************************************)
(* Where the radio is tuned to: the slot a channel name falls into, the    *)
(* slot's frequency and the synthesiser's word for it, and what else of    *)
(* the modem follows from the preset.  src/src/radio/lora_config.c.        *)
(*                                                                         *)
(* The code's floats hold whole kilohertz exactly, so the numbers here are *)
(* kilohertz.  A name is the sequence of its bytes.                        *)
(***************************************************************************)
EXTENDS Naturals, Sequences

LORA_US_FREQ_START  == 902000
LORA_US_FREQ_END    == 928000
LORA_STD_SPACING    == 0
LORA_STD_PADDING    == 0
LORA_LONGFAST_BW    == 250
LORA_LONGFAST_SF    == 11
LongFast            == <<76, 111, 110, 103, 70, 97, 115, 116>>

\* djb2 in 32 bits, kept as two halves of 16.
HashStep(hash, c) ==
    LET lo == hash.lo * 33 + c
    IN  [hi |-> (hash.hi * 33 + lo \div 65536) % 65536, lo |-> lo % 65536]

LoraHash(name) ==
    LET hash[i \in 0 .. Len(name)] ==
            IF i = 0 THEN [hi |-> 0, lo |-> 5381] ELSE HashStep(hash[i - 1], name[i])
    IN  hash[Len(name)]

SlotWidth(spacing, padding, bw) == spacing + 2 * padding + bw

\* lroundf of the quotient.
NumFreqSlots(start, end, spacing, padding, bw) ==
    LET width == SlotWidth(spacing, padding, bw)
    IN  IF width = 0 THEN 0 ELSE (2 * (end - start + spacing) + width) \div (2 * width)

SlotFrequency(start, spacing, padding, bw, slot) ==
    start + bw \div 2 + padding + slot * SlotWidth(spacing, padding, bw)

UsNumSlots == NumFreqSlots(LORA_US_FREQ_START, LORA_US_FREQ_END,
                           LORA_STD_SPACING, LORA_STD_PADDING, LORA_LONGFAST_BW)

\* A seeded fault: a slot number that counts from one.
SlotFromOne(name) ==
    LET hash == LoraHash(name)
    IN  1 + (((hash.hi % UsNumSlots) * (65536 % UsNumSlots) + hash.lo) % UsNumSlots)

\* The hash modulo the slots, half by half.
UsSlot(name) ==
    LET hash == LoraHash(name)
    IN  ((hash.hi % UsNumSlots) * (65536 % UsNumSlots) + hash.lo) % UsNumSlots

UsFrequency(slot) ==
    SlotFrequency(LORA_US_FREQ_START, LORA_STD_SPACING, LORA_STD_PADDING, LORA_LONGFAST_BW, slot)

\* freq_hz * 2^25 / 32 MHz, which is khz * 131072 / 125, rounded down.
FreqToPll(khz) == (khz \div 125) * 131072 + ((khz % 125) * 131072) \div 125

\* A symbol of 2^sf / bw milliseconds lasts 16 or longer.
LdroRequired(sf, bw) == bw > 0 /\ 2 ^ sf >= 16 * bw

=============================================================================
