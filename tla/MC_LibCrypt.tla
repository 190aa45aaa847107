----------------------------- MODULE MC_LibCrypt -----------------------------
EXTENDS LibCrypt

MCLbaStart == -150

\* tracks that end before the bases, between a base and its twin (16020,
\* 44165), just past the last twin (44168) and well past it
MCTrackSizes == {13000, 16020, 44165, 44168, 300000}

\* the .subcode slots of the pairs of the bases with indices in S
PairSlots(S) ==
  UNION { { LIBCRYPT_SECTORS_BASE[k] - MCLbaStart,
            LIBCRYPT_SECTORS_BASE[k] + LIBCRYPT_SECTORS_SHIFT - MCLbaStart } : k \in S }

\* no protection; 8, 16 (first or second half) or 32 broken pairs; 16
\* pairs with one twin intact; 16 bases broken one sector off
MCSubBad ==
  { {}, PairSlots(1 .. 8), PairSlots(1 .. 16), PairSlots(17 .. 32), PairSlots(1 .. 32),
    PairSlots(1 .. 16) \ {LIBCRYPT_SECTORS_BASE[3] + LIBCRYPT_SECTORS_SHIFT - MCLbaStart},
    { s + 1 : s \in PairSlots(1 .. 16) } }

====
