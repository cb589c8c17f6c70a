---------------------------- MODULE ClockDivider ----------------------------
(***************************************************************************)
(* The bit arithmetic of mmc_host_init and mmc_select_voltage in the       *)
(* original payload: uffs, the clock divider and the bus width.  A word of *)
(* the OCR or of a register is the set of its bits that are 1.             *)
(***************************************************************************)
EXTENDS Integers

CONSTANTS f_max, f_min  \* MSDC_MAX_SCLK, MSDC_MIN_SCLK

Low(x, n) == {b \in x : b < n}
ShiftRight(x, n) == {b - n : b \in x \ Low(x, n)}

\* The number of the lowest bit, from 1; 0 for no bit.
uffs(x) ==
  LET s16 == IF Low(x, 16) = {} THEN 16 ELSE 0
      s8 == s16 + IF Low(ShiftRight(x, s16), 8) = {} THEN 8 ELSE 0
      s4 == s8 + IF Low(ShiftRight(x, s8), 4) = {} THEN 4 ELSE 0
      s2 == s4 + IF Low(ShiftRight(x, s4), 2) = {} THEN 2 ELSE 0
      s1 == s2 + IF Low(ShiftRight(x, s2), 1) = {} THEN 1 ELSE 0
  IN IF x = {} THEN 0 ELSE s1 + 1

\* The lowest offered voltage the host has, and the one above it.
mmc_select_voltage(ocr_avail, ocr) ==
  LET common == ocr \cap ocr_avail
      bit == uffs(common)
  IN IF bit = 0 THEN {} ELSE common \cap {bit - 1, bit}

\* sdr_set_field: val, shifted to the lowest bit of the field.
SetField(reg, field, val) == (reg \ field) \cup {b + uffs(field) - 1 : b \in val}

SDC_CFG_BUSWIDTH == {16, 17}

msdc_config_bus(reg, width) ==
  SetField(reg, SDC_CFG_BUSWIDTH, CASE width = 4 -> {0} [] width = 8 -> {1} [] OTHER -> {})

\* Mutant: the quotient is rounded down.
Divisor_RoundedDown(src_clk, hz) == src_clk \div (4 * hz)

Divisor(src_clk, hz) == (src_clk + ((4 * hz) - 1)) \div (4 * hz)

\* Mode 1 has no divisor, divisor 0 halves the clock.
msdc_config_clock(src_clk, asked) ==
  LET hz == IF asked >= f_max THEN f_max ELSE IF asked < f_min THEN f_min ELSE asked
  IN IF hz >= src_clk THEN [mode |-> 1, div |-> 0, sclk |-> src_clk]
     ELSE IF hz >= src_clk \div 2 THEN [mode |-> 0, div |-> 0, sclk |-> src_clk \div 2]
     ELSE LET div == Divisor(src_clk, hz)
          IN [mode |-> 0, div |-> div, sclk |-> (src_clk \div 4) \div div]

-----------------------------------------------------------------------------

\* What the source clock is divided by.
Factor(c) == IF c.mode = 1 THEN 1 ELSE IF c.div = 0 THEN 2 ELSE 4 * c.div

\* The clock is the source clock divided by the smallest factor there is that makes it
\* not faster than asked for (or than the slowest allowed), and the divisor fits its 12
\* bits.
ClockFits(src_clk, asked) ==
  LET c == msdc_config_clock(src_clk, asked)
      limit == IF asked < f_min THEN f_min ELSE IF asked > f_max THEN f_max ELSE asked
      factors == {1, 2} \cup {4 * d : d \in 1..(c.div + 1)}
  IN /\ c.sclk = src_clk \div Factor(c) /\ c.sclk <= limit
     /\ \A f \in factors : f < Factor(c) => src_clk > limit * f
     /\ c.div < 4096

\* The voltages chosen are offered by both, neighbours, and include the lowest such.
VoltageFits(ocr_avail, ocr) ==
  LET v == mmc_select_voltage(ocr_avail, ocr)
  IN /\ v \subseteq ocr \cap ocr_avail
     /\ \A b \in ocr \cap ocr_avail : \E low \in v : low <= b
     /\ \A a, b \in v : a - b <= 1

\* Setting the field leaves the rest of the register alone, and sets one bit of it.
FieldFits(reg, width) ==
  LET set == msdc_config_bus(reg, width)
  IN /\ set \ SDC_CFG_BUSWIDTH = reg \ SDC_CFG_BUSWIDTH
     /\ \A a, b \in set \cap SDC_CFG_BUSWIDTH : a = b
=============================================================================
