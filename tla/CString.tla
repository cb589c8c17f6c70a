------------------------------ MODULE CString ------------------------------
(***************************************************************************)
(* The memory and string functions of libc.c (the same file in both        *)
(* payloads).  A string is a sequence of bytes that ends with its only 0;  *)
(* TLC stops at any access behind it.  Addresses are positions in mem.     *)
(***************************************************************************)
EXTENDS Integers, Sequences

\* The memory after each turn, of which four have a look at the end in between.
memset(mem, dst, c, n) ==
  LET after[k \in Nat] ==
        IF k = 0 THEN mem ELSE [after[k - 1] EXCEPT ![dst + k - 1] = c % 256]
  IN after[n]

strlen(str) ==
  LET from[s \in Nat] == IF str[s] = 0 THEN s - 1 ELSE from[s + 1]
  IN from[1]

\* The memory after each turn of the loops that copy, the lowest address first.
Copied(mem, to, from) ==
  LET after[k \in Nat] ==
        IF k = 0 THEN mem
        ELSE [after[k - 1] EXCEPT ![to + k - 1] = after[k - 1][from + k - 1]]
  IN after

\* Until a 0 has been copied.
strcpy(mem, to, from) ==
  LET after == Copied(mem, to, from)
      last == CHOOSE k \in 0..Len(mem) :
                after[k][from + k] = 0 /\ \A j \in 0..(k - 1) : after[j][from + j] # 0
  IN after[last + 1]

strcmp(s1, s2) ==
  LET from[k \in Nat] ==
        IF s1[k] # s2[k] THEN s1[k] - s2[k] ELSE IF s1[k] = 0 THEN 0 ELSE from[k + 1]
  IN from[1]

\* Mutant: the count is looked at before the end of the string.
strncmp_PastEnd(s1, s2, n) ==
  LET from[k \in Nat] ==
        IF s1[k] # s2[k] THEN s1[k] - s2[k]
        ELSE IF s1[k] = 0 \/ k > n THEN 0 ELSE from[k + 1]
  IN IF n = 0 THEN 0 ELSE from[1]

strncmp(s1, s2, n) ==
  LET from[k \in Nat] ==
        IF s1[k] # s2[k] THEN s1[k] - s2[k]
        ELSE IF s1[k] = 0 \/ k = n THEN 0 ELSE from[k + 1]
  IN IF n = 0 THEN 0 ELSE from[1]

memcpy(mem, dest, src, n) == Copied(mem, dest, src)[n]

\* Of n bytes of s1 from i, until the first difference.
memcmp(s1, i, s2, n) ==
  LET from[k \in Nat] ==
        IF k = n THEN 0
        ELSE IF s1[i + k] # s2[k + 1] THEN s1[i + k] - s2[k + 1] ELSE from[k + 1]
  IN from[0]

\* The position of s2 in s1, or 0.
strstr(s1, s2) ==
  LET n == strlen(s2)
      from[k \in Nat] ==
        IF s1[k] = 0 THEN 0 ELSE IF memcmp(s1, k, s2, n) = 0 THEN k ELSE from[k + 1]
  IN from[1]

-----------------------------------------------------------------------------
(* What the functions promise                                              *)

Sign(n) == IF n < 0 THEN -1 ELSE IF n > 0 THEN 1 ELSE 0

\* The order of a and b within their first n bytes.
Order(a, b, n) ==
  LET differ == {k \in 1..n : k \in DOMAIN a /\ k \in DOMAIN b /\ a[k] # b[k]}
  IN IF differ = {} THEN 0
     ELSE LET k == CHOOSE k \in differ : \A j \in differ : k <= j IN Sign(a[k] - b[k])

Occurs(a, b, k) == \A j \in 1..(Len(b) - 1) : k + j - 1 \in DOMAIN a /\ a[k + j - 1] = b[j]

\* Of strings a and b.  An empty b is not found in an empty a.
ComparesRight(a, b, n) ==
  /\ strlen(a) = Len(a) - 1
  /\ Sign(strcmp(a, b)) = Order(a, b, Len(a))
  /\ Sign(strncmp(a, b, n)) = Order(a, b, n)
  /\ LET r == strstr(a, b)
     IN IF r = 0 THEN \A k \in 1..(Len(a) - 1) : ~Occurs(a, b, k)
        ELSE Occurs(a, b, r) /\ \A k \in 1..(r - 1) : ~Occurs(a, b, k)

\* Of memory.  memcpy onto a part of its source that is still to come repeats
\* what lies before that part.
CopiesRight(mem, to, from, n) ==
  /\ LET copied == memcpy(mem, to, from, n)
         period == IF from < to /\ to < from + n THEN to - from ELSE n + 1
     IN \A q \in DOMAIN mem :
          copied[q] = IF q \in to..(to + n - 1) THEN mem[from + ((q - to) % period)] ELSE mem[q]
  /\ \A q \in DOMAIN mem :
       memset(mem, to, n, n)[q] = IF q \in to..(to + n - 1) THEN n % 256 ELSE mem[q]

StringCopiedRight(mem, to, from) ==
  LET n == CHOOSE k \in 0..Len(mem) : mem[from + k] = 0 /\ \A j \in 0..(k - 1) : mem[from + j] # 0
  IN to \notin from..(from + n) /\ from \notin to..(to + n) =>
       \A q \in DOMAIN mem :
         strcpy(mem, to, from)[q] = IF q \in to..(to + n) THEN mem[from + q - to] ELSE mem[q]
=============================================================================
