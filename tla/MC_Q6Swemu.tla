---------------------------- MODULE MC_Q6Swemu ----------------------------
(* Blocks of two pages: tuples on both sides of every bound of the query,  *)
(* numerics with zero digits at either end, tuples that end with a word    *)
(* and with the page.                                                      *)
EXTENDS Q6Swemu

T(q, e, d, s, n) == [qty |-> q, ext |-> e, dsc |-> d, tax |-> 0, shp |-> s, text |-> n]

\* In the first page any two of these ...
First ==
  {T(2399, 1234567, 5, -2191, 0), T(100, 100000000, 7, -1827, 5), T(0, 0, 6, -2000, 2),
   T(2400, 4, 5, -2191, 1)}

\* ... in the second any one of these.
Second ==
  {T(q, 2000050, 6, -2191, 3) : q \in {1, 100, 2399, 2400, 1000000}}
    \cup {T(100, e, 6, -2191, 3) : e \in {0, 5, 1000000, 123400000, -4200, -7}}
    \cup {T(100, 301, d, -2191, 4) : d \in {0, 4, 5, 7, 8, 10, 50, 100}}
    \cup {T(100, 301, 6, s, 7) : s \in {-2192, -2191, -1827, -1826, 0, 300}}
    \cup {T(100, 301, 6, -2000, n) : n \in 0 .. 10}

\* Three tuples that fill the page to its last byte, or leave one.
PackedLen(p) == 2 + FoldLeft(LAMBDA n, t : n + Len(TupleBytes(t)), 0, p)
Full == {p \in [1 .. 3 -> First] : PackedLen(p) \in PAGE_SZ - 1 .. PAGE_SZ}

UpTo(S, n) == UNION {[1 .. i -> S] : i \in 0 .. n}
TwoPages == {<<p, q>> : p \in UpTo(First, 2) \cup Full, q \in UpTo(Second, 1)}

\* None; one that makes lengths negative; one that reads as 128 bytes from the
\* beginning of the page; one that points behind the line pointers.
SomeHints == {0, 65536, 16777216, 22}

===========================================================================
