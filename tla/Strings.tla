------------------------------ MODULE Strings -------------------------------
(***************************************************************************)
(* The string operations of genstring.c, and general_get_field of          *)
(* general.c.  A string is a sequence of one-character strings without its *)
(* terminator; for base64 it is a sequence of numbers, a char being signed *)
(* (-128 .. 127) as it is on the compilers the library is built with.      *)
(* Behind the terminator may be anything: what an operation reads there is *)
(* a parameter or, in a buffer its callers have zeroed, a terminator.      *)
(***************************************************************************)
EXTENDS Integers, Sequences, FiniteSetsExt

NULL == <<"NULL">>
Space == {" ", "\t", "\n"}

\* The first place from "from" on whose character is not in P.
Skip(s, from, P) ==
  Min({i \in from .. Len(s) : s[i] \notin P} \cup {Len(s) + 1})

From(s, i) == SubSeq(s, i, Len(s))

gen_left_strim(s) == From(s, Skip(s, 1, Space))

gen_right_strim(s) ==
  SubSeq(s, 1, Max({i \in 1 .. Len(s) : s[i] \notin Space} \cup {0}))

gen_strim(s) == gen_left_strim(gen_right_strim(s))

\* base moves to every character that follows a slash; slashes at the end
\* stay with the component before them.
gen_path_last_component(path) ==
  LET base == Skip(path, 1, {"/"})
      starts == {p \in base + 1 .. Len(path) : path[p] # "/" /\ path[p - 1] = "/"}
  IN IF path = <<>> THEN NULL ELSE From(path, Max(starts \cup {base}))

-----------------------------------------------------------------------------
(* gen_foreach_field, all calls of one pass that nothing interrupts; what  *)
(* a call acquires and releases is in Foreach.                             *)

\* The first place from "from" on that holds the key, or the terminator.
KeyFrom(s, from, key) == Min({i \in from .. Len(s) : s[i] = key} \cup {Len(s) + 1})

\* The copy of the line loses a newline at its end.
Copied(line) ==
  IF line # <<>> /\ line[Len(line)] = "\n" THEN SubSeq(line, 1, Len(line) - 1) ELSE line

\* Mutant: one separator is skipped, then blanks.
FieldBeginOneKey(s, from, key) ==
  Skip(s, IF from <= Len(s) /\ s[from] = key THEN from + 1 ELSE from, {" ", "\t"})

\* Blanks and separators are skipped in any order.
FieldBegin(s, from, key) == Skip(s, from, {" ", "\t", key})

\* ptr[k]: where node->ptr stands after k calls.  A call whose field would be
\* empty ends the pass.
gen_foreach_field(line, key) ==
  LET s == Copied(line)
      ptr[k \in 0 .. Len(s)] ==
        IF k = 0 THEN 1 ELSE KeyFrom(s, FieldBegin(s, ptr[k - 1], key), key)
      begin(k) == FieldBegin(s, ptr[k - 1], key)
      served == {k \in 1 .. Len(s) : begin(k) < ptr[k]}
  IN [k \in 1 .. Cardinality(served) |-> SubSeq(s, begin(k), ptr[k] - 1)]

-----------------------------------------------------------------------------
(* base64.  A code is a sequence of places in base64_table, with PadChar   *)
(* for '='; Outside is what a lookup beyond the table gives.               *)

PadChar == 64
Outside == -1

\* A lookup whose result '=' overwrites is not recorded, wherever it goes.
Lookup(n) == IF n \in 0 .. 63 THEN n ELSE Outside

\* high | low of two ints whose bits do not overlap unless low is negative.
Or(high, low) == IF low < 0 THEN low ELSE high + low

\* Mutant: the padding is left out after two bytes.
PadsOne(n) == IF n % 3 = 1 THEN 2 ELSE 0

Pads(n) == CASE n % 3 = 1 -> 2 [] n % 3 = 2 -> 1 [] OTHER -> 0

\* "past" is the char behind the terminator of str.
gen_base64_encode(str, past) ==
  LET n == Len(str)
      len == 4 * ((n + 2) \div 3)
      c(j) == IF j < n THEN str[j + 1] ELSE IF j = n THEN 0 ELSE past
      code(i) ==
        LET j == 3 * (i \div 4) IN
        CASE i % 4 = 0 -> c(j) \div 4
          [] i % 4 = 1 -> Or(16 * (c(j) % 4), c(j + 1) \div 16)
          [] i % 4 = 2 -> Or(4 * (c(j + 1) % 16), c(j + 2) \div 64)
          [] i % 4 = 3 -> c(j + 2) % 64
  IN [k \in 1 .. len |-> IF k > len - Pads(n) THEN PadChar ELSE Lookup(code(k - 1))]

\* The buffer has str_len + 1 bytes, zeroed; every group of four writes three
\* bytes.  "out" is the string the caller finds, "over" how many bytes were
\* written behind the buffer.
gen_base64_decode(code) ==
  LET len == Len(code)
      str_len == 3 * (len \div 4) -
        (IF \E i \in 1 .. len - 1 : code[i] = PadChar /\ code[i + 1] = PadChar THEN 2
         ELSE IF \E i \in 1 .. len : code[i] = PadChar THEN 1 ELSE 0)
      table(i) == IF code[i] = PadChar THEN 0 ELSE code[i]
      written == 3 * (len \div 4)
      byte(k) ==
        LET i == 4 * ((k - 1) \div 3) + 1 IN
        CASE k % 3 = 1 -> 4 * table(i) + table(i + 1) \div 16
          [] k % 3 = 2 -> (16 * table(i + 1) + table(i + 2) \div 4) % 256
          [] k % 3 = 0 -> (64 * table(i + 2) + table(i + 3)) % 256
      end == Min({k \in 1 .. written : byte(k) = 0} \cup {written + 1})
  IN [out |-> [k \in 1 .. end - 1 |-> byte(k)],
      over |-> Max({0, written - (str_len + 1)})]

-----------------------------------------------------------------------------
(* general_get_field, with the key ' ' of all its callers.                 *)

\* The newline is looked for at pstr[buflen - 1] after pstr has skipped the
\* leading spaces, so it is only found in a line that has none.
Chopped(line) ==
  LET n == Len(line)
      lead == Skip(line, 1, {" "})
  IN IF n > 0 /\ lead = 1 /\ line[n] = "\n" THEN SubSeq(line, 1, n - 1)
     ELSE From(line, lead)

Separator(s, from) == KeyFrom(s, from, " ")

\* Mutant: a separator is followed by the next field at once.
NextFieldAtOnce(s, sep) == sep + 1

NextField(s, sep) == Skip(s, sep + 1, {" ", "\t"})

\* start[k]: where field k begins, 0 if there is none.  The loop's own step
\* passes the first character of every field but the first untested.
Starts(s, fieldnum) ==
  LET start[k \in 1 .. fieldnum] ==
        IF k = 1 THEN 1
        ELSE LET last == start[k - 1]
                 sep == Separator(s, IF k = 2 THEN 1 ELSE last + 1)
             IN IF last = 0 \/ sep > Len(s) THEN 0 ELSE NextField(s, sep)
  IN start

general_get_field(line, fieldnum) ==
  LET s == Chopped(line)
      start == Starts(s, fieldnum)
  IN IF s = <<>> THEN <<>>
     ELSE [k \in 1 .. fieldnum |->
             IF start[k] = 0 THEN NULL
             ELSE SubSeq(s, start[k], Separator(s, start[k]) - 1)]

=============================================================================
