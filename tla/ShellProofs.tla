---------------------------- MODULE ShellProofs ----------------------------
(***************************************************************************)
(* Proofs about Shell for every size of the screen, of the line and of the  *)
(* table of commands.                                                       *)
(***************************************************************************)
EXTENDS Shell, SequenceTheorems, FiniteSetTheorems, WellFoundedInduction, TLAPS

-----------------------------------------------------------------------------
(* Loops *)

(* What holds at 0 and is kept by each step up to n holds up to n.           *)
LEMMA UpTo ==
    ASSUME NEW S, NEW n \in Nat, 0 \in S,
           \A i \in 0..(n - 1) : i \in S => i + 1 \in S
    PROVE  \A i \in 0..n : i \in S
<1> SUFFICES ASSUME ~ (\A i \in 0..n : i \in S) PROVE FALSE
  OBVIOUS
<1> DEFINE B == {i \in 0..n : i \notin S}
<1>1. B # {} /\ B \subseteq Nat
  OBVIOUS
<1>2. PICK x \in B : \A y \in B : ~ (<<y, x>> \in OpToRel(<, Nat))
  BY <1>1, WFMin, NatLessThanWellFounded, Zenon
<1>3. x \in 0..n /\ x \notin S /\ x # 0
  OBVIOUS
<1>4. x - 1 \in 0..(n - 1)
  BY <1>3
<1>5. x - 1 \notin S
  <2>1. x - 1 \in S => (x - 1) + 1 \in S
    BY <1>4
  <2>2. (x - 1) + 1 = x
    BY <1>3
  <2> QED BY <1>3, <2>1, <2>2
<1>6. x - 1 \in B
  BY <1>4, <1>5
<1>7. <<x - 1, x>> \notin OpToRel(<, Nat)
  BY <1>2, <1>6, Zenon
<1>8. /\ <<x - 1, x>> \in Nat \X Nat /\ <<x - 1, x>>[1] = x - 1 /\ <<x - 1, x>>[2] = x
      /\ x - 1 < x
  BY <1>3
<1>9. <<x - 1, x>> \in OpToRel(<, Nat)
  BY <1>8 DEF OpToRel
<1> QED BY <1>7, <1>9

(* The least slot of some.                                                   *)
LEMMA MinIsElement ==
    ASSUME NEW S, S \subseteq Nat, S # {}
    PROVE  Min(S) \in S /\ \A y \in S : Min(S) <= y
<1>1. PICK x \in S : \A y \in S : ~ (<<y, x>> \in OpToRel(<, Nat))
  BY WFMin, NatLessThanWellFounded, Zenon
<1>2. ASSUME NEW y \in S PROVE x <= y
  <2>1. x \in Nat /\ y \in Nat /\ <<y, x>> \notin OpToRel(<, Nat)
    BY <1>1
  <2>2. <<y, x>> \in Nat \X Nat /\ <<y, x>>[1] = y /\ <<y, x>>[2] = x
    BY <2>1
  <2>3. y < x => <<y, x>> \in OpToRel(<, Nat)
    BY <2>2 DEF OpToRel
  <2>4. ~ (y < x)
    BY <2>1, <2>3, Zenon
  <2>5. x \in Nat /\ y \in Nat
    OBVIOUS
  <2> QED BY <2>4, <2>5
<1> QED BY <1>1, <1>2 DEF Min

(* The values of a variable that a loop starts at base and takes through     *)
(* Op at each step.                                                          *)
Runs(f, T, n, base, Op) ==
    /\ f \in [0..n -> T] /\ f[0] = base
    /\ \A i \in 1..n : f[i] = Op[<<f[i - 1], i>>]

LEMMA Loop ==
    ASSUME NEW T, NEW n \in Nat, NEW base \in T, NEW Op \in [T \X (1..n) -> T]
    PROVE  \E f : Runs(f, T, n, base, Op)
<1> DEFINE S == {k \in 0..n : \E f : Runs(f, T, k, base, Op)}
<1> USE DEF Runs
<1>1. 0 \in S
  <2> DEFINE f == [i \in 0..0 |-> base]
  <2>1. Runs(f, T, 0, base, Op)
    OBVIOUS
  <2>2. 0 \in 0..n
    OBVIOUS
  <2> HIDE DEF f
  <2> QED BY <2>1, <2>2
<1>2. ASSUME NEW k \in 0..(n - 1), k \in S PROVE k + 1 \in S
  <2>1. PICK f : Runs(f, T, k, base, Op)
    BY <1>2
  <2>2. k \in Nat /\ k + 1 \in 1..n /\ k + 1 \in 0..n
    OBVIOUS
  <2> DEFINE v == Op[<<f[k], k + 1>>]
             g == [i \in 0..(k + 1) |-> IF i = k + 1 THEN v ELSE f[i]]
  <2>3. v \in T
    <3>1. f[k] \in T
      BY <2>1, <2>2
    <3> QED BY <2>2, <3>1
  <2>4. g \in [0..(k + 1) -> T]
    <3> HIDE DEF v
    <3>1. \A i \in 0..(k + 1) : i = k + 1 \/ i \in 0..k
      BY <2>2
    <3> QED BY <2>1, <2>3, <3>1
  <2>5. g[0] = base
    BY <2>1, <2>2
  <2>6. ASSUME NEW i \in 1..(k + 1) PROVE g[i] = Op[<<g[i - 1], i>>]
    <3>1. i - 1 \in 0..k /\ i \in 0..(k + 1)
      BY <2>2
    <3>2. g[i - 1] = f[i - 1]
      BY <2>2, <3>1
    <3>3. CASE i = k + 1
      <4>1. g[i] = v /\ f[i - 1] = f[k]
        BY <3>1, <3>3
      <4> QED BY <3>2, <3>3, <4>1
    <3>4. CASE i # k + 1
      <4>1. i \in 1..k
        BY <2>2, <3>4
      <4>2. g[i] = f[i]
        BY <3>1, <3>4
      <4> HIDE DEF g, v
      <4> QED BY <2>1, <3>2, <4>1, <4>2
    <3> QED BY <3>3, <3>4
  <2>7. Runs(g, T, k + 1, base, Op)
    <3> HIDE DEF g
    <3> QED BY <2>4, <2>5, <2>6
  <2> QED BY <2>2, <2>7
<1>3. n \in S
  <2> HIDE DEF S
  <2>1. \A i \in 0..n : i \in S
    BY <1>1, <1>2, UpTo
  <2> QED BY <2>1
<1> QED BY <1>3

-----------------------------------------------------------------------------
(* The screen *)

Cells == 0..(Memory - 1)

(* What the shell finds and leaves: nothing on the screen behind the cursor. *)
Tidy(s) ==
    /\ s = [cells |-> s.cells, cursor |-> s.cursor]
    /\ s.cells = [i \in Cells |-> s.cells[i]] /\ s.cursor \in Nat
    /\ \A i \in OnScreen : i >= s.cursor => s.cells[i] = BLANK

LEMMA OnScreenIsThere == OnScreen \subseteq Cells
<1>1. MAX_COLS * MAX_ROWS \in Nat
  <2>1. \A a, b \in Nat : a * b \in Nat
    OBVIOUS
  <2> QED BY <2>1, ScreenAssumption
<1> DEFINE z == MAX_COLS * MAX_ROWS
<1>2. z \in Nat /\ Memory >= z /\ Memory \in Int
  BY <1>1, ScreenAssumption
<1> HIDE DEF z
<1>3. 0..(z - 1) \subseteq 0..(Memory - 1)
  BY <1>2
<1> QED BY <1>3 DEF z, OnScreen, Cells

(* A character that is not a backspace leaves the screen tidy; one that is   *)
(* not a new line either goes where the cursor is.                           *)
LEMMA CharPrinted ==
    ASSUME NEW s, Tidy(s), NEW c, c # BACKSPACE
    PROVE  /\ Tidy(print_char(s, c))
           /\ \A i \in Cells : print_char(s, c).cells[i] \in {s.cells[i], c}
           /\ c # NEWLINE =>
                /\ print_char(s, c).cursor = s.cursor + 1
                /\ \A i \in Cells : i # s.cursor => print_char(s, c).cells[i] = s.cells[i]
                /\ s.cursor \in Cells => print_char(s, c).cells[s.cursor] = c
<1>1. /\ s = [cells |-> s.cells, cursor |-> s.cursor]
      /\ s.cells = [i \in Cells |-> s.cells[i]] /\ s.cursor \in Nat
      /\ \A i \in OnScreen : i \in Int /\ i \in Cells
      /\ \A i \in OnScreen : i >= s.cursor => s.cells[i] = BLANK
  BY OnScreenIsThere DEF Tidy, OnScreen
<1>2. CASE c = NEWLINE
  <2> DEFINE m == (s.cursor \div MAX_COLS + 1) * MAX_COLS
             t == print_char(s, c)
  <2>1. t = [s EXCEPT !.cursor = m]
    BY <1>2 DEF print_char
  <2>2. t = [cells |-> s.cells, cursor |-> m]
    BY <1>1, <2>1
  <2>3. m \in Nat /\ m >= s.cursor
    <3> DEFINE q == s.cursor \div MAX_COLS
               r == s.cursor % MAX_COLS
    <3>4. s.cursor \in Nat /\ MAX_COLS \in Nat \ {0}
      BY <1>1, ScreenAssumption
    <3>5. \A i \in Nat, k \in Nat \ {0} :
             i \div k \in Nat /\ i % k \in 0..(k - 1) /\ (i \div k) * k + (i % k) = i
      OBVIOUS
    <3>1. /\ q \in Nat /\ r \in 0..(MAX_COLS - 1) /\ MAX_COLS \in Nat \ {0}
          /\ q * MAX_COLS + r = s.cursor
      BY <3>4, <3>5
    <3>2. \A a, k \in Nat : a * k \in Nat /\ (a + 1) * k = a * k + k
      OBVIOUS
    <3> DEFINE b == q * MAX_COLS
    <3>3. b \in Nat /\ m = b + MAX_COLS /\ b + r = s.cursor
      <4> HIDE DEF q, r
      <4> QED BY <3>1, <3>2
    <3> HIDE DEF q, r, b, m
    <3> QED BY <3>1, <3>3
  <2>4. t.cells = s.cells /\ t.cursor = m
    BY <2>2
  <2> HIDE DEF m, t
  <2>5. \A i \in OnScreen : i >= t.cursor => t.cells[i] = BLANK
    BY <1>1, <2>3, <2>4
  <2>6. t = [cells |-> t.cells, cursor |-> t.cursor]
    BY <2>2, <2>4
  <2>7. Tidy(t)
    BY <1>1, <2>3, <2>4, <2>5, <2>6 DEF Tidy
  <2> QED BY <1>2, <2>4, <2>7 DEF t
<1>3. CASE c # NEWLINE
  <2> DEFINE t == print_char(s, c)
             u == [s.cells EXCEPT ![s.cursor] = c]
  <2>1. t = [s EXCEPT !.cells[s.cursor] = c, !.cursor = @ + 1]
    BY <1>3 DEF print_char
  <2>2. t = [cells |-> u, cursor |-> s.cursor + 1]
    BY <1>1, <2>1
  <2>3. t.cells = u /\ t.cursor = s.cursor + 1
    BY <2>2
  <2>4. /\ u = [i \in Cells |-> u[i]]
        /\ \A i \in Cells : i # s.cursor => u[i] = s.cells[i]
        /\ s.cursor \in Cells => u[s.cursor] = c
    BY <1>1
  <2> HIDE DEF t, u
  <2>5. \A i \in OnScreen : i >= t.cursor => t.cells[i] = BLANK
    BY <1>1, <2>3, <2>4
  <2>6. t = [cells |-> t.cells, cursor |-> t.cursor]
    BY <2>2, <2>3
  <2>7. Tidy(t)
    BY <1>1, <2>3, <2>4, <2>5, <2>6 DEF Tidy
  <2>8. \A i \in Cells : t.cells[i] \in {s.cells[i], c}
    BY <2>3, <2>4
  <2> QED BY <1>3, <2>3, <2>4, <2>7, <2>8 DEF t
<1> QED BY <1>2, <1>3

(* Screens whose cells hold characters of C.                                 *)
Screens(C) == [cells : [Cells -> C], cursor : Nat]

LEMMA CharStaysInScreens ==
    ASSUME NEW C, NEW s \in Screens(C), NEW c \in C
    PROVE  print_char(s, c) \in Screens(C)
<1>1. s.cells \in [Cells -> C] /\ s.cursor \in Nat /\ s = [cells |-> s.cells, cursor |-> s.cursor]
  BY DEF Screens
<1>2. CASE c = NEWLINE
  <2> DEFINE m == (s.cursor \div MAX_COLS + 1) * MAX_COLS
  <2>1. m \in Nat
    <3>1. MAX_COLS \in Nat \ {0}
      BY ScreenAssumption
    <3>2. \A i \in Nat, k \in Nat \ {0} : i \div k \in Nat
      OBVIOUS
    <3>3. s.cursor \div MAX_COLS + 1 \in Nat
      BY <1>1, <3>1, <3>2
    <3>4. \A a, k \in Nat : a * k \in Nat
      OBVIOUS
    <3> QED BY <3>1, <3>3, <3>4
  <2>2. print_char(s, c) = [s EXCEPT !.cursor = m]
    <3>1. c # BACKSPACE
      BY <1>2 DEF BACKSPACE, NEWLINE
    <3> QED BY <1>2, <3>1 DEF print_char
  <2> HIDE DEF m
  <2>3. print_char(s, c) = [cells |-> s.cells, cursor |-> m]
    BY <1>1, <2>2
  <2> QED BY <1>1, <2>1, <2>3 DEF Screens
<1>3. CASE c = BACKSPACE
  <2> DEFINE m == IF s.cursor > 0 THEN s.cursor - 1 ELSE s.cursor
  <2>1. m \in Nat
    BY <1>1
  <2>2. print_char(s, c) = [s EXCEPT !.cursor = m]
    <3>1. c # NEWLINE
      BY <1>3 DEF BACKSPACE, NEWLINE
    <3>2. print_char(s, c) = [s EXCEPT !.cursor = IF s.cursor > 0 THEN s.cursor - 1 ELSE s.cursor]
      BY <1>3, <3>1, Zenon DEF print_char
    <3> QED BY <3>2
  <2> HIDE DEF m
  <2>3. print_char(s, c) = [cells |-> s.cells, cursor |-> m]
    BY <1>1, <2>2
  <2> QED BY <1>1, <2>1, <2>3 DEF Screens
<1>4. CASE c # NEWLINE /\ c # BACKSPACE
  <2> DEFINE u == [s.cells EXCEPT ![s.cursor] = c]
  <2>1. print_char(s, c) = [s EXCEPT !.cells[s.cursor] = c, !.cursor = @ + 1]
    BY <1>4 DEF print_char
  <2>2. print_char(s, c) = [cells |-> u, cursor |-> s.cursor + 1]
    BY <1>1, <2>1
  <2>3. u \in [Cells -> C]
    BY <1>1
  <2>4. s.cursor + 1 \in Nat
    BY <1>1
  <2> HIDE DEF u
  <2> QED BY <2>2, <2>3, <2>4 DEF Screens
<1> QED BY <1>2, <1>3, <1>4

(* The steps of print_string over screens of a kind that every character of  *)
(* the text keeps.                                                           *)
LEMMA Printing ==
    ASSUME NEW T, NEW s \in T, NEW text, Len(text) \in Nat,
           \A t \in T, k \in 1..Len(text) : print_char(t, text[k]) \in T
    PROVE  \E f : /\ f \in [0..Len(text) -> T]
                 /\ f[0] = s /\ f[Len(text)] = print_string(s, text)
                 /\ \A n \in 1..Len(text) : f[n] = print_char(f[n - 1], text[n])
<1> DEFINE N == Len(text)
           Op == [p \in T \X (1..N) |-> print_char(p[1], text[p[2]])]
           Unfold(f) == [n \in 0..N |-> IF n = 0 THEN s ELSE print_char(f[n - 1], text[n])]
<1>3. Op \in [T \X (1..N) -> T]
  <2>1. \A p \in T \X (1..N) : p[1] \in T /\ p[2] \in 1..N
    OBVIOUS
  <2> QED BY <2>1
<1>4. PICK f : f \in [0..N -> T] /\ f[0] = s /\ \A i \in 1..N : f[i] = Op[<<f[i - 1], i>>]
  <2>1. N \in Nat
    OBVIOUS
  <2> HIDE DEF Op, N
  <2>2. \E f : Runs(f, T, N, s, Op)
    BY <1>3, <2>1, Loop
  <2> QED BY <2>2 DEF Runs
<1>5. ASSUME NEW n \in 1..N PROVE f[n] = print_char(f[n - 1], text[n])
  <2>1. n - 1 \in 0..N
    OBVIOUS
  <2>2. <<f[n - 1], n>> \in T \X (1..N)
    BY <1>4, <2>1
  <2>3. <<f[n - 1], n>>[1] = f[n - 1] /\ <<f[n - 1], n>>[2] = n
    OBVIOUS
  <2> QED BY <1>4, <2>2, <2>3
<1> HIDE DEF Op
<1>6. f = Unfold(f)
  <2>1. \A n \in 0..N : n = 0 \/ n \in 1..N
    OBVIOUS
  <2>2. \A n \in 0..N : f[n] = IF n = 0 THEN s ELSE print_char(f[n - 1], text[n])
    BY <1>4, <1>5, <2>1
  <2> HIDE DEF N
  <2> QED BY <1>4, <2>2
<1> DEFINE g == CHOOSE h : h = Unfold(h)
<1>7. g = Unfold(g)
  BY <1>6
<1>8. print_string(s, text) = g[N]
  BY DEF print_string
<1> HIDE DEF g
<1>9. DOMAIN g = 0..N /\ g[0] = s /\ \A n \in 1..N : g[n] = print_char(g[n - 1], text[n])
  <2>1. \A n \in 0..N : g[n] = IF n = 0 THEN s ELSE print_char(g[n - 1], text[n])
    BY <1>7
  <2>2. \A n \in 1..N : n \in 0..N /\ n # 0
    OBVIOUS
  <2>3. 0 \in 0..N
    OBVIOUS
  <2>4. DOMAIN g = 0..N
    BY <1>7
  <2> QED BY <2>1, <2>2, <2>3, <2>4
<1>10. \A n \in 0..N : n \in {m \in 0..N : g[m] \in T}
  <2> DEFINE S == {m \in 0..N : g[m] \in T}
  <2>1. 0 \in S
    BY <1>9
  <2>2. ASSUME NEW i \in 0..(N - 1), i \in S PROVE i + 1 \in S
    <3>1. i + 1 \in 1..N /\ i + 1 \in 0..N /\ (i + 1) - 1 = i
      OBVIOUS
    <3>2. g[i + 1] = print_char(g[i], text[i + 1])
      BY <1>9, <3>1
    <3>3. g[i] \in T
      BY <2>2
    <3> QED BY <3>1, <3>2, <3>3
  <2> HIDE DEF S, N
  <2>3. \A n \in 0..N : n \in S
    BY <2>1, <2>2, UpTo DEF N
  <2> QED BY <2>3 DEF S
<1>11. g \in [0..N -> T]
  <2>1. g = [n \in 0..N |-> g[n]]
    BY <1>7, <1>9
  <2> QED BY <1>10, <2>1
<1> QED BY <1>8, <1>9, <1>11

(* A text without backspaces, printed on a tidy screen.                      *)
LEMMA PrintsTidily ==
    ASSUME NEW s, Tidy(s), NEW text, Len(text) \in Nat,
           \A k \in 1..Len(text) : text[k] # BACKSPACE
    PROVE  /\ Tidy(print_string(s, text))
           /\ (\A k \in 1..Len(text) : text[k] # NEWLINE) =>
                print_string(s, text).cursor = s.cursor + Len(text)
<1> DEFINE N == Len(text)
           C == {s.cells[i] : i \in Cells} \cup {text[k] : k \in 1..N}
           T == {t \in Screens(C) : Tidy(t)}
<1>1. s \in T
  <2>1. s.cells = [i \in Cells |-> s.cells[i]] /\ s = [cells |-> s.cells, cursor |-> s.cursor]
        /\ s.cursor \in Nat
    BY DEF Tidy
  <2>2. s.cells \in [Cells -> C]
    BY <2>1
  <2> HIDE DEF C
  <2>3. s \in Screens(C)
    BY <2>1, <2>2 DEF Screens
  <2> QED BY <2>3
<1>2. ASSUME NEW t \in T, NEW n \in 1..N PROVE print_char(t, text[n]) \in T
  BY CharPrinted, CharStaysInScreens
<1>3. PICK f : /\ f \in [0..N -> T]
               /\ f[0] = s /\ f[N] = print_string(s, text)
               /\ \A n \in 1..N : f[n] = print_char(f[n - 1], text[n])
  <2> HIDE DEF T
  <2> QED BY <1>1, <1>2, Printing
<1>4. \A n \in 0..N : Tidy(f[n])
  BY <1>3
<1>5. ASSUME \A k \in 1..N : text[k] # NEWLINE
      PROVE  \A n \in 0..N : n \in {m \in 0..N : f[m].cursor = s.cursor + m}
  <2> DEFINE S == {m \in 0..N : f[m].cursor = s.cursor + m}
  <2>1. s.cursor \in Nat /\ N \in Nat
    BY DEF Tidy
  <2>2. 0 \in S
    BY <1>3, <2>1
  <2>3. ASSUME NEW i \in 0..(N - 1), i \in S PROVE i + 1 \in S
    <3>1. i + 1 \in 1..N /\ i + 1 \in 0..N /\ (i + 1) - 1 = i /\ i \in 0..N
      OBVIOUS
    <3>2. f[i + 1] = print_char(f[i], text[i + 1])
      BY <1>3, <3>1
    <3>3. f[i + 1].cursor = f[i].cursor + 1
      BY <1>4, <1>5, <3>1, <3>2, CharPrinted
    <3>4. f[i].cursor = s.cursor + i
      BY <2>3
    <3>5. f[i + 1].cursor = s.cursor + (i + 1)
      <4>1. i \in Nat
        OBVIOUS
      <4>2. \A a, b \in Nat : (a + b) + 1 = a + (b + 1)
        OBVIOUS
      <4>3. (s.cursor + i) + 1 = s.cursor + (i + 1)
        BY <2>1, <4>1, <4>2, Zenon
      <4> QED BY <3>3, <3>4, <4>3, Zenon
    <3> QED BY <3>1, <3>5
  <2> HIDE DEF S, N
  <2>4. \A n \in 0..N : n \in S
    BY <2>1, <2>2, <2>3, UpTo
  <2> QED BY <2>4 DEF S
<1>6. N \in 0..N
  OBVIOUS
<1> QED BY <1>3, <1>4, <1>5, <1>6

(* The texts of one and of three characters that the editor prints.          *)
LEMMA TidyIsScreen ==
    ASSUME NEW s, Tidy(s), NEW R
    PROVE  \E C : R \subseteq C /\ s \in Screens(C)
<1> DEFINE C == {s.cells[i] : i \in Cells} \cup R
<1>1. s.cells = [i \in Cells |-> s.cells[i]] /\ s = [cells |-> s.cells, cursor |-> s.cursor]
      /\ s.cursor \in Nat
  BY DEF Tidy
<1>2. s.cells \in [Cells -> C]
  BY <1>1
<1>3. R \subseteq C
  OBVIOUS
<1> HIDE DEF C
<1>4. s \in Screens(C)
  BY <1>1, <1>2 DEF Screens
<1> QED BY <1>3, <1>4

LEMMA OneChar ==
    ASSUME NEW s, Tidy(s), NEW c
    PROVE  print_string(s, <<c>>) = print_char(s, c)
<1>1. PICK C : {c} \subseteq C /\ s \in Screens(C)
  BY TidyIsScreen
<1> DEFINE text == <<c>>
<1>2. Len(text) = 1 /\ text[1] = c /\ 1..1 = {1}
  OBVIOUS
<1> HIDE DEF text
<1>3. \A t \in Screens(C), k \in 1..Len(text) : print_char(t, text[k]) \in Screens(C)
  BY <1>1, <1>2, CharStaysInScreens
<1>4. Len(text) \in Nat
  BY <1>2
<1>5. PICK f : /\ f[0] = s /\ f[Len(text)] = print_string(s, text)
               /\ \A n \in 1..Len(text) : f[n] = print_char(f[n - 1], text[n])
  BY <1>1, <1>3, <1>4, Printing
<1>6. f[1] = print_char(f[0], c)
  BY <1>2, <1>5
<1> QED BY <1>2, <1>5, <1>6 DEF text

LEMMA ThreeChars ==
    ASSUME NEW s, Tidy(s), NEW a, NEW b, NEW c
    PROVE  print_string(s, <<a, b, c>>) = print_char(print_char(print_char(s, a), b), c)
<1>1. PICK C : {a, b, c} \subseteq C /\ s \in Screens(C)
  BY TidyIsScreen
<1> DEFINE text == <<a, b, c>>
<1>2. Len(text) = 3 /\ text[1] = a /\ text[2] = b /\ text[3] = c
  OBVIOUS
<1> HIDE DEF text
<1>3. ASSUME NEW t \in Screens(C), NEW k \in 1..Len(text) PROVE print_char(t, text[k]) \in Screens(C)
  <2>1. k = 1 \/ k = 2 \/ k = 3
    BY <1>2
  <2>2. text[k] \in C
    BY <1>1, <1>2, <2>1
  <2> QED BY <2>2, CharStaysInScreens
<1>4. Len(text) \in Nat
  BY <1>2
<1>5. PICK f : /\ f[0] = s /\ f[Len(text)] = print_string(s, text)
               /\ \A n \in 1..Len(text) : f[n] = print_char(f[n - 1], text[n])
  BY <1>1, <1>3, <1>4, Printing
<1>6. /\ 1 \in 1..Len(text) /\ 2 \in 1..Len(text) /\ 3 \in 1..Len(text)
      /\ 1 - 1 = 0 /\ 2 - 1 = 1 /\ 3 - 1 = 2
  BY <1>2
<1>7. /\ f[1] = print_char(f[0], a) /\ f[2] = print_char(f[1], b)
      /\ f[3] = print_char(f[2], c)
  BY <1>2, <1>5, <1>6
<1> QED BY <1>2, <1>5, <1>7, Zenon DEF text

(* A text without backspaces.                                                *)
Plain(text) == \E S : BACKSPACE \notin S /\ text \in Seq(S)

LEMMA PrintsPlain ==
    ASSUME NEW s, Tidy(s), NEW text, Plain(text)
    PROVE  Tidy(print_string(s, text))
<1>1. PICK S : BACKSPACE \notin S /\ text \in Seq(S)
  BY DEF Plain
<1>2. Len(text) \in Nat
  BY <1>1
<1>3. \A k \in 1..Len(text) : text[k] \in S
  BY <1>1, ElementOfSeq
<1> QED BY <1>1, <1>2, <1>3, PrintsTidily

LEMMA PlainConcat ==
    ASSUME NEW a, Plain(a), NEW b, Plain(b)
    PROVE  Plain(a \o b)
<1>1. PICK S : BACKSPACE \notin S /\ a \in Seq(S)
  BY DEF Plain
<1>2. PICK R : BACKSPACE \notin R /\ b \in Seq(R)
  BY DEF Plain
<1>3. a \in Seq(S \cup R) /\ b \in Seq(S \cup R)
  <2>1. S \subseteq S \cup R /\ R \subseteq S \cup R
    OBVIOUS
  <2> QED BY <1>1, <1>2, <2>1, SeqMonotonic
<1>4. a \o b \in Seq(S \cup R)
  BY <1>3, ConcatProperties
<1>5. BACKSPACE \notin S \cup R
  BY <1>1, <1>2
<1> QED BY <1>4, <1>5 DEF Plain

LEMMA PlainLine ==
    ASSUME NEW a, Plain(a)
    PROVE  Plain(a \o <<NEWLINE>>)
<1>1. <<NEWLINE>> \in Seq({NEWLINE}) /\ BACKSPACE \notin {NEWLINE}
  BY DEF NEWLINE, BACKSPACE
<1>2. Plain(<<NEWLINE>>)
  BY <1>1 DEF Plain
<1> QED BY <1>2, PlainConcat

LEMMA TextsArePlain ==
    /\ \A text \in {Prompt, Unknown, Message} :
         Plain(text) /\ Len(text) \in Nat
    /\ \A k \in 1..Len(Prompt) : Prompt[k] # BACKSPACE /\ Prompt[k] # NEWLINE
<1>1. ASSUME NEW text \in {Prompt, Unknown, Message} PROVE Plain(text) /\ Len(text) \in Nat
  <2>1. /\ text \in Seq(Range(text) \ {NEWLINE, BACKSPACE})
        /\ BACKSPACE \notin Range(text) \ {NEWLINE, BACKSPACE}
    BY ShellAssumption
  <2> DEFINE S == Range(text) \ {NEWLINE, BACKSPACE}
  <2>2. text \in Seq(S) /\ BACKSPACE \notin S
    BY <2>1
  <2> HIDE DEF S
  <2> QED BY <2>2 DEF Plain
<1>2. \A k \in 1..Len(Prompt) : Prompt[k] \in Range(Prompt) \ {NEWLINE, BACKSPACE}
  <2> DEFINE S == Range(Prompt) \ {NEWLINE, BACKSPACE}
  <2>1. Prompt \in Seq(S)
    BY ShellAssumption
  <2> HIDE DEF S
  <2>2. \A k \in 1..Len(Prompt) : Prompt[k] \in S
    BY <2>1, ElementOfSeq
  <2> QED BY <2>2 DEF S
<1> QED BY <1>1, <1>2

LEMMA ClearedIsTidy ==
    ASSUME NEW s, s.cells = [i \in Cells |-> s.cells[i]]
    PROVE  Tidy(clear_screen(s))
<1> DEFINE t == clear_screen(s)
           u == [i \in Cells |-> IF i \in OnScreen THEN BLANK ELSE s.cells[i]]
<1>1. DOMAIN s.cells = Cells
  OBVIOUS
<1>2. t = [cells |-> u, cursor |-> 0]
  BY <1>1 DEF clear_screen
<1>3. t.cells = u /\ t.cursor = 0
  BY <1>2
<1>4. \A i \in OnScreen : u[i] = BLANK
  BY OnScreenIsThere
<1>5. u = [i \in Cells |-> u[i]]
  OBVIOUS
<1> HIDE DEF t, u
<1>6. t = [cells |-> t.cells, cursor |-> t.cursor]
  BY <1>2, <1>3
<1>7. Tidy(t)
  BY <1>3, <1>4, <1>5, <1>6 DEF Tidy
<1> QED BY <1>7 DEF t

-----------------------------------------------------------------------------
(* The line buffer and its words *)

Kept == Chars \ {NEWLINE, BACKSPACE}
Places == 0..(BufSize - 1)
Buffers == {b \in [Places -> Kept \cup {NUL}] : b[BufSize - 1] = NUL}

LEMMA TextRead ==
    ASSUME NEW buf \in Buffers, NEW p \in Places
    PROVE  /\ TextAt(buf, p) \in Seq(Kept \cup {NUL})
           /\ Len(TextAt(buf, p)) \in 0..(BufSize - 1 - p)
<1> DEFINE ends == {i \in DOMAIN buf : i >= p /\ buf[i] = NUL}
           m == Min(ends)
<1>1. BufSize \in Nat \ {0} /\ p \in Nat
  BY ShellAssumption DEF Places
<1>2. buf \in [Places -> Kept \cup {NUL}] /\ DOMAIN buf = Places
  BY DEF Buffers
<1>3. BufSize - 1 \in ends /\ ends \subseteq Nat
  BY <1>1, <1>2 DEF Buffers, Places
<1>4. m \in ends
  <2> HIDE DEF ends
  <2> QED BY <1>3, MinIsElement
<1>5. m \in Places /\ m >= p
  BY <1>2, <1>4
<1>6. m - p \in Nat /\ m - p \in 0..(BufSize - 1 - p)
  BY <1>1, <1>5 DEF Places
<1> DEFINE n == m - p
<1>7. TextAt(buf, p) = [k \in 1..n |-> buf[p + k - 1]]
  BY DEF TextAt
<1>8. \A k \in 1..n : buf[p + k - 1] \in Kept \cup {NUL}
  <2>1. \A k \in 1..n : p + k - 1 \in Places
    BY <1>1, <1>5 DEF Places
  <2> QED BY <1>2, <2>1
<1> HIDE DEF n, m, ends
<1>9. n \in Nat /\ n \in 0..(BufSize - 1 - p)
  BY <1>6 DEF n
<1>10. TextAt(buf, p) \in [1..n -> Kept \cup {NUL}]
  BY <1>7, <1>8
<1>11. TextAt(buf, p) \in Seq(Kept \cup {NUL})
  BY <1>9, <1>10
<1>12. Len(TextAt(buf, p)) = n
  BY <1>9, <1>7
<1> QED BY <1>9, <1>11, <1>12

LEMMA KeptIsPlain ==
    ASSUME NEW text \in Seq(Kept \cup {NUL})
    PROVE  Plain(text)
<1>1. BACKSPACE \notin Kept \cup {NUL}
  BY DEF Kept, BACKSPACE, NUL
<1> QED BY <1>1 DEF Plain

(* What the loop of command_run has when it comes to a character.            *)
Scans == [buf : Buffers, argv : Seq(Places), inside : BOOLEAN]

LEMMA ScanStays ==
    ASSUME NEW t \in Scans, NEW p \in 0..(BufSize - 2)
    PROVE  Scan(t, p) \in Scans
<1>1. /\ t = [buf |-> t.buf, argv |-> t.argv, inside |-> t.inside]
      /\ t.buf \in Buffers /\ t.argv \in Seq(Places) /\ t.inside \in BOOLEAN
  BY DEF Scans
<1>2. p \in Places /\ p # BufSize - 1
  BY ShellAssumption DEF Places
<1>3. CASE t.inside /\ t.buf[p] = BLANK
  <2> DEFINE b == [t.buf EXCEPT ![p] = NUL]
  <2>1. Scan(t, p) = [t EXCEPT !.buf[p] = NUL, !.inside = FALSE]
    BY <1>3, Zenon DEF Scan
  <2>2. Scan(t, p) = [buf |-> b, argv |-> t.argv, inside |-> FALSE]
    BY <1>1, <2>1
  <2>3. b \in Buffers
    <3>1. t.buf \in [Places -> Kept \cup {NUL}] /\ t.buf[BufSize - 1] = NUL
      BY <1>1 DEF Buffers
    <3>2. b \in [Places -> Kept \cup {NUL}]
      BY <3>1
    <3>3. BufSize - 1 \in Places
      BY ShellAssumption DEF Places
    <3>4. b[BufSize - 1] = NUL
      BY <1>2, <3>1, <3>3
    <3> HIDE DEF b
    <3> QED BY <3>2, <3>4 DEF Buffers
  <2> HIDE DEF b
  <2> QED BY <1>1, <2>2, <2>3 DEF Scans
<1>4. CASE ~ (t.inside /\ t.buf[p] = BLANK)
           /\ (~ t.inside /\ t.buf[p] # BLANK /\ Len(t.argv) < MAX_ARGS)
  <2> DEFINE a == Append(t.argv, p)
  <2>1. Scan(t, p) = [t EXCEPT !.argv = a, !.inside = TRUE]
    BY <1>4 DEF Scan
  <2>2. Scan(t, p) = [buf |-> t.buf, argv |-> a, inside |-> TRUE]
    BY <1>1, <2>1
  <2>3. a \in Seq(Places)
    BY <1>1, <1>2, AppendProperties
  <2> HIDE DEF a
  <2> QED BY <1>1, <2>2, <2>3 DEF Scans
<1>5. CASE /\ ~ (t.inside /\ t.buf[p] = BLANK)
           /\ ~ (~ t.inside /\ t.buf[p] # BLANK /\ Len(t.argv) < MAX_ARGS)
  BY <1>5, Zenon DEF Scan
<1> QED BY <1>3, <1>4, <1>5

(* The steps of the loop.                                                    *)
LEMMA Parsing ==
    ASSUME cmd_buf \in Buffers
    PROVE  LET N == Len(TextAt(cmd_buf, 0))
           IN  \E f : /\ f \in [0..N -> Scans]
                      /\ f[0] = [buf |-> cmd_buf, argv |-> <<>>, inside |-> FALSE]
                      /\ f[N] = Parsed
                      /\ \A n \in 1..N : f[n] = Scan(f[n - 1], n - 1)
<1> DEFINE N == Len(TextAt(cmd_buf, 0))
           s == [buf |-> cmd_buf, argv |-> <<>>, inside |-> FALSE]
           Op == [p \in Scans \X (1..N) |-> Scan(p[1], p[2] - 1)]
           Unfold(f) == [n \in 0..N |-> IF n = 0 THEN s ELSE Scan(f[n - 1], n - 1)]
<1>1. N \in 0..(BufSize - 1)
  <2>1. 0 \in Places
    BY ShellAssumption DEF Places
  <2>2. BufSize - 1 - 0 = BufSize - 1
    BY ShellAssumption
  <2> QED BY <2>1, <2>2, TextRead
<1>2. s \in Scans
  BY DEF Scans
<1>3. Op \in [Scans \X (1..N) -> Scans]
  <2>1. ASSUME NEW p \in Scans \X (1..N) PROVE Scan(p[1], p[2] - 1) \in Scans
    <3>1. p[1] \in Scans /\ p[2] \in 1..N
      OBVIOUS
    <3>2. p[2] - 1 \in 0..(BufSize - 2)
      <4> HIDE DEF N
      <4> QED BY <1>1, <3>1, ShellAssumption
    <3> QED BY <3>1, <3>2, ScanStays
  <2> HIDE DEF N
  <2> QED BY <2>1
<1>4. PICK f : f \in [0..N -> Scans] /\ f[0] = s /\ \A i \in 1..N : f[i] = Op[<<f[i - 1], i>>]
  <2>1. N \in Nat
    BY <1>1
  <2> HIDE DEF Op, N, s
  <2>2. \E f : Runs(f, Scans, N, s, Op)
    BY <1>2, <1>3, <2>1, Loop
  <2> QED BY <2>2 DEF Runs
<1> HIDE DEF N, s
<1>5. ASSUME NEW n \in 1..N PROVE f[n] = Scan(f[n - 1], n - 1)
  <2>1. n - 1 \in 0..N
    BY <1>1
  <2>2. <<f[n - 1], n>> \in Scans \X (1..N)
    BY <1>4, <2>1
  <2>3. <<f[n - 1], n>>[1] = f[n - 1] /\ <<f[n - 1], n>>[2] = n
    OBVIOUS
  <2> QED BY <1>4, <2>2, <2>3
<1> HIDE DEF Op
<1>6. f = Unfold(f)
  <2>1. \A n \in 0..N : n = 0 \/ n \in 1..N
    BY <1>1
  <2>2. \A n \in 0..N : f[n] = IF n = 0 THEN s ELSE Scan(f[n - 1], n - 1)
    BY <1>4, <1>5, <2>1
  <2> QED BY <1>4, <2>2
<1> DEFINE g == CHOOSE h : h = Unfold(h)
<1>7. g = Unfold(g)
  BY <1>6
<1>8. Parsed = g[N]
  BY DEF Parsed, N, s
<1> HIDE DEF g
<1>9. DOMAIN g = 0..N /\ g[0] = s /\ \A n \in 1..N : g[n] = Scan(g[n - 1], n - 1)
  <2>1. \A n \in 0..N : g[n] = IF n = 0 THEN s ELSE Scan(g[n - 1], n - 1)
    BY <1>7
  <2>2. \A n \in 1..N : n \in 0..N /\ n # 0
    BY <1>1
  <2>3. 0 \in 0..N
    BY <1>1
  <2>4. DOMAIN g = 0..N
    BY <1>7
  <2> QED BY <2>1, <2>2, <2>3, <2>4
<1>10. \A n \in 0..N : n \in {m \in 0..N : g[m] \in Scans}
  <2> DEFINE S == {m \in 0..N : g[m] \in Scans}
  <2>1. 0 \in S
    BY <1>1, <1>2, <1>9
  <2>2. ASSUME NEW i \in 0..(N - 1), i \in S PROVE i + 1 \in S
    <3>1. i + 1 \in 1..N /\ i + 1 \in 0..N /\ (i + 1) - 1 = i /\ i \in 0..(BufSize - 2)
      BY <1>1, ShellAssumption
    <3>2. g[i + 1] = Scan(g[i], i)
      BY <1>9, <3>1
    <3>3. g[i] \in Scans
      BY <2>2
    <3>4. g[i + 1] \in Scans
      BY <3>1, <3>2, <3>3, ScanStays
    <3> QED BY <3>1, <3>4
  <2> HIDE DEF S
  <2>3. \A n \in 0..N : n \in S
    BY <1>1, <2>1, <2>2, UpTo
  <2> QED BY <2>3 DEF S
<1>11. g \in [0..N -> Scans]
  <2>1. g = [n \in 0..N |-> g[n]]
    BY <1>7, <1>9
  <2> QED BY <1>10, <2>1
<1> QED BY <1>8, <1>9, <1>11 DEF N, s

LEMMA ParsedTyped ==
    ASSUME cmd_buf \in Buffers
    PROVE  Parsed \in Scans
<1> DEFINE N == Len(TextAt(cmd_buf, 0))
<1>1. PICK f : f \in [0..N -> Scans] /\ f[N] = Parsed
  BY Parsing
<1>2. N \in 0..N
  <2>1. 0 \in Places
    BY ShellAssumption DEF Places
  <2> QED BY <2>1, TextRead
<1> HIDE DEF N
<1> QED BY <1>1, <1>2

(* The words that command_run hands on.                                      *)
LEMMA Words ==
    ASSUME cmd_buf \in Buffers
    PROVE  argv \in Seq(Seq(Kept \cup {NUL}))
<1>1. Parsed \in Scans
  BY ParsedTyped
<1>2. /\ Parsed.buf \in Buffers /\ Parsed.argv \in Seq(Places)
      /\ Len(Parsed.argv) \in Nat
  BY <1>1 DEF Scans
<1>3. \A k \in 1..Len(Parsed.argv) : TextAt(Parsed.buf, Parsed.argv[k]) \in Seq(Kept \cup {NUL})
  <2>1. \A k \in 1..Len(Parsed.argv) : Parsed.argv[k] \in Places
    BY <1>2, ElementOfSeq
  <2> QED BY <1>2, <2>1, TextRead
<1> DEFINE n == Len(Parsed.argv)
           W == Seq(Kept \cup {NUL})
<1>4. argv = [k \in 1..n |-> TextAt(Parsed.buf, Parsed.argv[k])]
  BY DEF argv
<1>5. n \in Nat /\ argv \in [1..n -> W]
  <2> HIDE DEF W
  <2> QED BY <1>2, <1>3, <1>4 DEF W
<1> HIDE DEF n, W
<1>6. argv \in Seq(W)
  BY <1>5
<1> QED BY <1>6 DEF W

LEMMA JoinedIsPlain ==
    ASSUME NEW words \in Seq(Seq(Kept \cup {NUL}))
    PROVE  Plain(Joined(words))
<1> DEFINE N == Len(words)
           K == Kept \cup {NUL, BLANK}
           T == Seq(K)
           Step(x, n) == x \o (IF x = <<>> THEN <<>> ELSE <<BLANK>>) \o words[n]
           Op == [p \in T \X (1..N) |-> Step(p[1], p[2])]
           Unfold(f) == [n \in 0..N |-> IF n = 0 THEN <<>> ELSE Step(f[n - 1], n)]
<1>1. N \in Nat
  OBVIOUS
<1>2. <<>> \in T
  OBVIOUS
<1>3. ASSUME NEW x \in T, NEW n \in 1..N PROVE Step(x, n) \in T
  <2>1. words[n] \in T
    <3>1. words[n] \in Seq(Kept \cup {NUL})
      <4> DEFINE W == Seq(Kept \cup {NUL})
      <4>1. words \in Seq(W)
        OBVIOUS
      <4> HIDE DEF W
      <4>2. words[n] \in W
        BY <4>1, ElementOfSeq
      <4> QED BY <4>2 DEF W
    <3>2. Kept \cup {NUL} \subseteq K
      OBVIOUS
    <3> HIDE DEF K
    <3> QED BY <3>1, <3>2, SeqMonotonic
  <2> DEFINE y == IF x = <<>> THEN <<>> ELSE <<BLANK>>
  <2>2. y \in T
    <3>1. BLANK \in K
      OBVIOUS
    <3> HIDE DEF K
    <3>2. <<BLANK>> \in Seq(K) /\ <<>> \in Seq(K)
      BY <3>1
    <3> QED BY <3>2
  <2> HIDE DEF y, K
  <2>3. x \o y \in T
    BY <2>2, ConcatProperties
  <2>4. (x \o y) \o words[n] \in T
    BY <2>1, <2>3, ConcatProperties
  <2> QED BY <2>4 DEF y
<1> HIDE DEF Step
<1>4. Op \in [T \X (1..N) -> T]
  <2>1. \A p \in T \X (1..N) : p[1] \in T /\ p[2] \in 1..N
    OBVIOUS
  <2> HIDE DEF T, N
  <2> QED BY <1>3, <2>1
<1> HIDE DEF T
<1>5. PICK f : f \in [0..N -> T] /\ f[0] = <<>> /\ \A i \in 1..N : f[i] = Op[<<f[i - 1], i>>]
  <2> HIDE DEF Op, N
  <2>1. \E f : Runs(f, T, N, <<>>, Op)
    BY <1>1, <1>2, <1>4, Loop
  <2> QED BY <2>1 DEF Runs
<1> HIDE DEF N
<1>6. ASSUME NEW n \in 1..N PROVE f[n] = Step(f[n - 1], n)
  <2>1. n - 1 \in 0..N
    BY <1>1
  <2>2. <<f[n - 1], n>> \in T \X (1..N)
    BY <1>5, <2>1
  <2>3. <<f[n - 1], n>>[1] = f[n - 1] /\ <<f[n - 1], n>>[2] = n
    OBVIOUS
  <2> QED BY <1>5, <2>2, <2>3
<1> HIDE DEF Op
<1>7. f = Unfold(f)
  <2>1. \A n \in 0..N : n = 0 \/ n \in 1..N
    BY <1>1
  <2>2. \A n \in 0..N : f[n] = IF n = 0 THEN <<>> ELSE Step(f[n - 1], n)
    BY <1>5, <1>6, <2>1
  <2> QED BY <1>5, <2>2
<1> DEFINE g == CHOOSE h : h = Unfold(h)
<1>8. g = Unfold(g)
  BY <1>7
<1>9. Joined(words) = g[N] \o <<NEWLINE>>
  BY DEF Joined, Step, N
<1> HIDE DEF g
<1>10. \A n \in 0..N : n \in {m \in 0..N : g[m] \in T}
  <2> DEFINE S == {m \in 0..N : g[m] \in T}
  <2>1. \A n \in 0..N : g[n] = IF n = 0 THEN <<>> ELSE Step(g[n - 1], n)
    BY <1>8
  <2>2. 0 \in S
    BY <1>1, <1>2, <2>1
  <2>3. ASSUME NEW i \in 0..(N - 1), i \in S PROVE i + 1 \in S
    <3>1. i + 1 \in 1..N /\ i + 1 \in 0..N /\ (i + 1) - 1 = i /\ i + 1 # 0
      BY <1>1
    <3>2. g[i + 1] = Step(g[i], i + 1)
      BY <2>1, <3>1
    <3>3. g[i] \in T
      BY <2>3
    <3>4. g[i + 1] \in T
      BY <1>3, <3>1, <3>2, <3>3
    <3> QED BY <3>1, <3>4
  <2> HIDE DEF S
  <2>4. \A n \in 0..N : n \in S
    BY <1>1, <2>2, <2>3, UpTo
  <2> QED BY <2>4 DEF S
<1>11. Plain(g[N])
  <2>1. g[N] \in Seq(K)
    BY <1>1, <1>10 DEF T
  <2>2. BACKSPACE \notin K
    BY DEF Kept, BACKSPACE, NUL, BLANK
  <2> HIDE DEF K
  <2> QED BY <2>1, <2>2 DEF Plain
<1> QED BY <1>9, <1>11, PlainLine

-----------------------------------------------------------------------------
(* The shell *)

Typed ==
    /\ pc \in {"prompt", "edit", "run"}
    /\ cmd_buf \in Buffers /\ cmd_idx \in Places
    /\ Tidy(screen)

\* A line starts where it has room, and the screen shows it.
Edited ==
    pc = "edit" =>
      /\ start \in 0..(LastPrompt + Len(Prompt))
      /\ screen.cursor = start + cmd_idx
      /\ \A k \in 1..cmd_idx : screen.cells[start + k - 1] = cmd_buf[k - 1]

Inv == Typed /\ Edited

LEMMA InitInv == Init => Inv
<1> SUFFICES ASSUME Init PROVE Inv
  OBVIOUS
<1>1. BufSize \in Nat \ {0}
  BY ShellAssumption
<1>2. Empty \in Buffers /\ 0 \in Places
  BY <1>1 DEF Empty, Buffers, Places
<1>3. Tidy(Cleared)
  <2> DEFINE s == [cells |-> [i \in 0..(Memory - 1) |-> FOREIGN], cursor |-> 0]
  <2>1. s.cells = [i \in Cells |-> s.cells[i]]
    BY DEF Cells
  <2> HIDE DEF s
  <2>2. Tidy(clear_screen(s))
    BY <2>1, ClearedIsTidy
  <2> QED BY <2>2 DEF Cleared, s
<1>4. Plain(Message \o <<NEWLINE>>)
  BY TextsArePlain, PlainLine
<1>5. Tidy(screen)
  BY <1>3, <1>4, PrintsPlain DEF Init
<1> QED BY <1>2, <1>5 DEF Init, Inv, Typed, Edited

LEMMA PromptInv ==
    ASSUME Inv, prompt
    PROVE  Inv'
<1>1. /\ pc' = "edit" /\ cmd_buf' = Empty /\ cmd_idx' = 0
      /\ start' = screen.cursor + Len(Prompt)
      /\ screen' = print_string(screen, Prompt)
      /\ screen.cursor <= LastPrompt
  BY DEF prompt, Prints
<1>2. BufSize \in Nat \ {0} /\ LastPrompt \in Nat
  BY ShellAssumption
<1>3. Empty \in Buffers /\ 0 \in Places
  BY <1>2 DEF Empty, Buffers, Places
<1>4. Tidy(screen) /\ screen.cursor \in Nat
  BY DEF Inv, Typed, Tidy
<1>5. Tidy(screen') /\ screen'.cursor = screen.cursor + Len(Prompt) /\ Len(Prompt) \in Nat
  <2>1. Len(Prompt) \in Nat
    BY TextsArePlain
  <2>2. \A k \in 1..Len(Prompt) : Prompt[k] # BACKSPACE /\ Prompt[k] # NEWLINE
    BY TextsArePlain
  <2> QED BY <1>1, <1>4, <2>1, <2>2, PrintsTidily
<1>6. start' \in 0..(LastPrompt + Len(Prompt)) /\ screen'.cursor = start' + 0
  BY <1>1, <1>2, <1>4, <1>5
<1>7. Typed'
  BY <1>1, <1>3, <1>5 DEF Typed
<1>8. Edited'
  BY <1>1, <1>6 DEF Edited
<1> QED BY <1>7, <1>8 DEF Inv

LEMMA NewLineInv ==
    ASSUME Inv, new_line
    PROVE  Inv'
<1>1. /\ pc' = "run" /\ cmd_idx' = cmd_idx
      /\ cmd_buf' = [cmd_buf EXCEPT ![cmd_idx] = NUL]
      /\ screen' = print_string(screen, <<NEWLINE>>)
  BY DEF new_line, Prints
<1>2. Tidy(screen')
  <2>1. <<NEWLINE>> \in Seq({NEWLINE}) /\ BACKSPACE \notin {NEWLINE}
    BY DEF NEWLINE, BACKSPACE
  <2>2. Plain(<<NEWLINE>>)
    BY <2>1 DEF Plain
  <2> QED BY <1>1, <2>2, PrintsPlain DEF Inv, Typed
<1>3. cmd_buf' \in Buffers
  <2>1. cmd_buf \in [Places -> Kept \cup {NUL}] /\ cmd_buf[BufSize - 1] = NUL
        /\ BufSize - 1 \in Places
    BY ShellAssumption DEF Inv, Typed, Buffers, Places
  <2>2. cmd_buf' \in [Places -> Kept \cup {NUL}]
    BY <1>1, <2>1
  <2>3. cmd_buf'[BufSize - 1] = NUL
    BY <1>1, <2>1
  <2> QED BY <2>2, <2>3 DEF Buffers
<1>4. Typed' /\ Edited'
  BY <1>1, <1>2, <1>3 DEF Inv, Typed, Edited
<1> QED BY <1>4 DEF Inv

LEMMA RunInv ==
    ASSUME Inv, command_run
    PROVE  Inv'
<1>1. pc' = "prompt" /\ cmd_idx' = cmd_idx /\ cmd_buf' = Parsed.buf
  BY DEF command_run
<1>2. cmd_buf \in Buffers /\ Tidy(screen) /\ screen.cells = [i \in Cells |-> screen.cells[i]]
  BY DEF Inv, Typed, Tidy
<1>3. cmd_buf' \in Buffers
  BY <1>1, <1>2, ParsedTyped DEF Scans
<1> DEFINE W == Seq(Kept \cup {NUL})
<1>4. argv \in Seq(W)
  BY <1>2, Words
<1>5. Tidy(screen')
  <2>1. CASE screen' = screen
    BY <1>2, <2>1
  <2>2. CASE argv # <<>> /\ Prints(Unknown \o argv[1] \o <<NEWLINE>>)
    <3>1. argv[1] \in W
      <4> HIDE DEF W
      <4> QED BY <1>4, <2>2
    <3>2. Plain(argv[1])
      BY <3>1, KeptIsPlain
    <3>3. Plain(Unknown \o argv[1] \o <<NEWLINE>>)
      BY <3>2, TextsArePlain, PlainConcat, PlainLine
    <3> QED BY <1>2, <2>2, <3>3, PrintsPlain DEF Prints
  <2>3. CASE argv # <<>> /\ Prints(Joined(Tail(argv)))
    <3>1. Tail(argv) \in Seq(W)
      <4> HIDE DEF W
      <4> QED BY <1>4, <2>3, HeadTailProperties
    <3>2. Plain(Joined(Tail(argv)))
      BY <3>1, JoinedIsPlain
    <3> QED BY <1>2, <2>3, <3>2, PrintsPlain DEF Prints
  <2>4. CASE screen' = clear_screen(screen)
    BY <1>2, <2>4, ClearedIsTidy
  <2>5. CASE Prints(Message \o <<NEWLINE>>)
    <3>1. Plain(Message \o <<NEWLINE>>)
      BY TextsArePlain, PlainLine
    <3> QED BY <1>2, <2>5, <3>1, PrintsPlain DEF Prints
  <2> QED BY <2>1, <2>2, <2>3, <2>4, <2>5 DEF command_run
<1>6. Typed' /\ Edited'
  BY <1>1, <1>3, <1>5 DEF Inv, Typed, Edited
<1> QED BY <1>6 DEF Inv

\* A line has room in the memory behind the screen.
LEMMA LineHasRoom ==
    ASSUME Inv, pc = "edit"
    PROVE  /\ start \in Nat /\ cmd_idx \in Nat /\ screen.cursor = start + cmd_idx
           /\ screen.cursor \in Cells
<1>1. /\ start \in 0..(LastPrompt + Len(Prompt)) /\ screen.cursor = start + cmd_idx
      /\ cmd_idx \in 0..(BufSize - 1)
  BY DEF Inv, Typed, Edited, Places
<1>2. /\ Len(Prompt) \in Nat /\ Len(Unknown) \in Nat /\ Len(Message) \in Nat
      /\ LastPrompt \in Nat /\ BufSize \in Nat /\ Memory \in Nat /\ MAX_COLS \in Nat
      /\ LastPrompt + 4 * MAX_COLS + 2 * BufSize + Len(Prompt) + Len(Unknown) + Len(Message)
           < Memory
  BY TextsArePlain, ShellAssumption, ScreenAssumption
<1>3. start + cmd_idx \in 0..(Memory - 1)
  <2> DEFINE p == Len(Prompt)
             u == Len(Unknown)
             g == Len(Message)
  <2> HIDE DEF p, u, g
  <2>1. /\ p \in Nat /\ u \in Nat /\ g \in Nat
        /\ LastPrompt + 4 * MAX_COLS + 2 * BufSize + p + u + g < Memory
        /\ start \in 0..(LastPrompt + p)
    BY <1>1, <1>2 DEF p, u, g
  <2> QED BY <1>1, <1>2, <2>1
<1> QED BY <1>1, <1>3 DEF Cells

LEMMA EraseInv ==
    ASSUME Inv, erase
    PROVE  Inv'
<1>1. /\ pc = "edit" /\ pc' = pc /\ cmd_buf' = cmd_buf /\ start' = start
      /\ cmd_idx > 0 /\ cmd_idx' = cmd_idx - 1
      /\ screen' = print_string(screen, <<BACKSPACE, BLANK, BACKSPACE>>)
  BY DEF erase, Prints
<1>2. /\ Tidy(screen) /\ cmd_idx \in Places /\ cmd_buf \in Buffers
      /\ \A k \in 1..cmd_idx : screen.cells[start + k - 1] = cmd_buf[k - 1]
      /\ start \in 0..(LastPrompt + Len(Prompt))
  BY <1>1 DEF Inv, Typed, Edited
<1> DEFINE q == screen.cursor
           u == [screen.cells EXCEPT ![q - 1] = BLANK]
           s1 == [cells |-> screen.cells, cursor |-> q - 1]
           s2 == [cells |-> u, cursor |-> q]
           s3 == [cells |-> u, cursor |-> q - 1]
<1>3. /\ start \in Nat /\ cmd_idx \in Nat /\ q = start + cmd_idx
      /\ q \in Cells /\ q > 0 /\ q - 1 \in Cells
  <2>1. /\ start \in Nat /\ cmd_idx \in Nat /\ q = start + cmd_idx /\ q \in Cells
    BY <1>1, LineHasRoom
  <2>2. Memory \in Nat
    BY ScreenAssumption
  <2> HIDE DEF q
  <2> QED BY <1>1, <2>1, <2>2 DEF Cells
<1>4. /\ screen = [cells |-> screen.cells, cursor |-> q]
      /\ screen.cells = [i \in Cells |-> screen.cells[i]]
      /\ \A i \in OnScreen : i >= q => screen.cells[i] = BLANK
  BY <1>2 DEF Tidy
<1>5. ASSUME NEW s, NEW x, s = [cells |-> x, cursor |-> q]
      PROVE  print_char(s, BACKSPACE) = [cells |-> x, cursor |-> q - 1]
  <2>1. BACKSPACE # NEWLINE
    BY DEF BACKSPACE, NEWLINE
  <2>2. print_char(s, BACKSPACE) =
          [s EXCEPT !.cursor = IF s.cursor > 0 THEN s.cursor - 1 ELSE s.cursor]
    BY <2>1, Zenon DEF print_char
  <2>3. s.cursor = q
    BY <1>5
  <2> HIDE DEF q
  <2>4. (IF s.cursor > 0 THEN s.cursor - 1 ELSE s.cursor) = q - 1
    BY <1>3, <2>3
  <2>5. print_char(s, BACKSPACE) = [s EXCEPT !.cursor = q - 1]
    BY <2>2, <2>4, Zenon
  <2> QED BY <1>5, <2>5
<1>6. print_char(s1, BLANK) = s2
  <2>1. BLANK # NEWLINE /\ BLANK # BACKSPACE
    BY DEF BLANK, NEWLINE, BACKSPACE
  <2>2. print_char(s1, BLANK) = [s1 EXCEPT !.cells[s1.cursor] = BLANK, !.cursor = @ + 1]
    BY <2>1 DEF print_char
  <2>3. s1.cursor = q - 1 /\ s1.cells = screen.cells
    OBVIOUS
  <2>4. print_char(s1, BLANK) = [cells |-> u, cursor |-> (q - 1) + 1]
    BY <2>2, <2>3
  <2>5. (q - 1) + 1 = q
    <3> HIDE DEF q
    <3> QED BY <1>3
  <2> QED BY <2>4, <2>5, Zenon
<1>7. print_char(screen, BACKSPACE) = s1 /\ print_char(s2, BACKSPACE) = s3
  <2>1. s2 = [cells |-> u, cursor |-> q]
    OBVIOUS
  <2> HIDE DEF u, q
  <2> QED BY <1>4, <1>5, <2>1
<1>8. screen' = s3
  <2> HIDE DEF s1, s2, s3, q, u
  <2>1. screen' = print_char(print_char(print_char(screen, BACKSPACE), BLANK), BACKSPACE)
    <3>1. Tidy(screen)
      BY <1>2
    <3>2. print_string(screen, <<BACKSPACE, BLANK, BACKSPACE>>)
            = print_char(print_char(print_char(screen, BACKSPACE), BLANK), BACKSPACE)
      BY <3>1, ThreeChars
    <3> QED BY <1>1, <3>2, Zenon
  <2> QED BY <1>6, <1>7, <2>1
<1>9. screen'.cells = u /\ screen'.cursor = q - 1
  BY <1>8
<1>10. /\ u = [i \in Cells |-> u[i]] /\ u[q - 1] = BLANK
       /\ \A i \in Cells : i # q - 1 => u[i] = screen.cells[i]
  BY <1>3, <1>4
<1> HIDE DEF u
<1>11. Tidy(screen')
  <2>1. \A i \in OnScreen : i >= q - 1 => u[i] = BLANK
    <3>1. ASSUME NEW i \in OnScreen, i >= q - 1 PROVE u[i] = BLANK
      <4>1. i \in Cells /\ i \in Int
        BY OnScreenIsThere DEF OnScreen
      <4>2. i = q - 1 \/ i >= q
        <5> HIDE DEF q
        <5> QED BY <1>3, <3>1, <4>1
      <4> QED BY <1>4, <1>10, <4>1, <4>2
    <3> QED BY <3>1
  <2>2. screen' = [cells |-> screen'.cells, cursor |-> screen'.cursor]
    BY <1>8, <1>9
  <2>3. screen'.cursor \in Nat
    BY <1>3, <1>9 DEF Cells
  <2> HIDE DEF q
  <2> QED BY <1>9, <1>10, <2>1, <2>2, <2>3 DEF Tidy
<1>12. cmd_idx' \in Places /\ cmd_buf' \in Buffers
  <2>1. BufSize \in Nat
    BY ShellAssumption
  <2>2. cmd_idx' \in Places
    BY <1>1, <1>2, <2>1 DEF Places
  <2> QED BY <1>1, <1>2, <2>2
<1>13. screen'.cursor = start' + cmd_idx'
  <2> HIDE DEF q
  <2> QED BY <1>1, <1>3, <1>9
<1>14. ASSUME NEW k \in 1..cmd_idx' PROVE screen'.cells[start' + k - 1] = cmd_buf'[k - 1]
  <2> HIDE DEF q
  <2>1. /\ k \in 1..cmd_idx /\ start + k - 1 # q - 1 /\ start + k - 1 \in Cells
    <3>1. Memory \in Nat
      BY ScreenAssumption
    <3> QED BY <1>1, <1>3, <3>1 DEF Cells
  <2> QED BY <1>1, <1>2, <1>9, <1>10, <2>1
<1>15. Typed' /\ Edited'
  BY <1>1, <1>2, <1>11, <1>12, <1>13, <1>14 DEF Inv, Typed, Edited
<1> QED BY <1>15 DEF Inv

LEMMA InsertInv ==
    ASSUME Inv, NEW c \in Kept, insert(c)
    PROVE  Inv'
<1>1. /\ pc = "edit" /\ pc' = pc /\ start' = start
      /\ cmd_idx < BufSize - 1 /\ cmd_idx' = cmd_idx + 1
      /\ cmd_buf' = [cmd_buf EXCEPT ![cmd_idx] = c]
      /\ screen' = print_string(screen, <<c>>)
  BY DEF insert, Prints
<1>2. /\ Tidy(screen) /\ cmd_idx \in Places /\ cmd_buf \in Buffers
      /\ \A k \in 1..cmd_idx : screen.cells[start + k - 1] = cmd_buf[k - 1]
      /\ start \in 0..(LastPrompt + Len(Prompt))
  BY <1>1 DEF Inv, Typed, Edited
<1>3. /\ start \in Nat /\ cmd_idx \in Nat /\ screen.cursor = start + cmd_idx
      /\ screen.cursor \in Cells /\ BufSize \in Nat /\ Memory \in Nat
  BY <1>1, LineHasRoom, ShellAssumption, ScreenAssumption
<1>4. c # NEWLINE /\ c # BACKSPACE
  BY DEF Kept
<1>5. screen' = print_char(screen, c)
  BY <1>1, <1>2, OneChar
<1>6. /\ Tidy(screen') /\ screen'.cursor = screen.cursor + 1
      /\ \A i \in Cells : i # screen.cursor => screen'.cells[i] = screen.cells[i]
      /\ screen'.cells[screen.cursor] = c
  BY <1>2, <1>3, <1>4, <1>5, CharPrinted
<1>7. cmd_idx' \in Places
  BY <1>1, <1>3 DEF Places
<1>8. cmd_buf \in [Places -> Kept \cup {NUL}] /\ cmd_buf[BufSize - 1] = NUL
  BY <1>2 DEF Buffers
<1>9. cmd_buf' \in Buffers
  <2>1. cmd_buf' \in [Places -> Kept \cup {NUL}]
    BY <1>1, <1>8
  <2>2. BufSize - 1 \in Places
    BY ShellAssumption DEF Places
  <2>3. cmd_buf'[BufSize - 1] = NUL
    BY <1>1, <1>3, <1>8, <2>2
  <2> QED BY <2>1, <2>3 DEF Buffers
<1>10. screen'.cursor = start' + cmd_idx'
  BY <1>1, <1>3, <1>6
<1>11. ASSUME NEW k \in 1..cmd_idx' PROVE screen'.cells[start' + k - 1] = cmd_buf'[k - 1]
  <2>1. CASE k = cmd_idx'
    <3>1. start' + k - 1 = screen.cursor /\ k - 1 = cmd_idx
      BY <1>1, <1>3, <2>1
    <3>2. cmd_buf'[cmd_idx] = c
      BY <1>1, <1>2, <1>8
    <3> QED BY <1>6, <3>1, <3>2
  <2>2. CASE k # cmd_idx'
    <3>1. /\ k \in 1..cmd_idx /\ start + k - 1 # screen.cursor /\ start + k - 1 \in Cells
          /\ k - 1 \in Places /\ k - 1 # cmd_idx
      BY <1>1, <1>3, <2>2 DEF Cells, Places
    <3>2. cmd_buf'[k - 1] = cmd_buf[k - 1]
      BY <1>1, <1>8, <3>1
    <3> QED BY <1>1, <1>2, <1>6, <3>1, <3>2
  <2> QED BY <2>1, <2>2
<1>12. Typed' /\ Edited'
  BY <1>1, <1>2, <1>6, <1>7, <1>9, <1>10, <1>11 DEF Inv, Typed, Edited
<1> QED BY <1>12 DEF Inv

LEMMA NextInv == Inv /\ [Next]_vars => Inv'
<1> SUFFICES ASSUME Inv, [Next]_vars PROVE Inv'
  OBVIOUS
<1>1. CASE prompt
  BY <1>1, PromptInv
<1>2. CASE command_run
  BY <1>2, RunInv
<1>3. ASSUME NEW c \in Chars, getc(c) PROVE Inv'
  <2>1. CASE new_line
    BY <2>1, NewLineInv
  <2>2. CASE erase
    BY <2>2, EraseInv
  <2>3. CASE c \notin {NEWLINE, BACKSPACE, DEL} /\ insert(c)
    <3>1. c \in Kept
      BY <2>3 DEF Kept
    <3> QED BY <2>3, <3>1, InsertInv
  <2> QED BY <1>3, <2>1, <2>2, <2>3 DEF getc
<1>4. CASE UNCHANGED vars
  BY <1>4 DEF vars, Inv, Typed, Edited, Tidy
<1> QED BY <1>1, <1>2, <1>3, <1>4 DEF Next

LEMMA InvShows == Inv => EchoShowsLine
<1> SUFFICES ASSUME Inv, pc = "edit" PROVE EchoShowsLine
  BY DEF EchoShowsLine
<1>1. /\ Tidy(screen) /\ cmd_idx \in Nat /\ start \in Nat
      /\ screen.cursor = start + cmd_idx
      /\ \A k \in 1..cmd_idx : screen.cells[start + k - 1] = cmd_buf[k - 1]
  <2>1. Len(Prompt) \in Nat /\ LastPrompt \in Nat
    BY TextsArePlain, ShellAssumption DEF Plain
  <2> QED BY <2>1, LineHasRoom DEF Inv, Typed, Edited
<1>2. line = [k \in 1..cmd_idx |-> cmd_buf[k - 1]]
  BY DEF line
<1>3. ASSUME NEW i \in OnScreen, i >= start, i < start + cmd_idx
      PROVE  screen.cells[i] = line[i - start + 1]
  <2>1. i \in Int
    BY DEF OnScreen
  <2>2. i - start + 1 \in 1..cmd_idx /\ start + (i - start + 1) - 1 = i
    BY <1>1, <1>3, <2>1
  <2> QED BY <1>1, <1>2, <2>2
<1>4. ASSUME NEW i \in OnScreen, i >= start, ~(i < start + cmd_idx)
      PROVE  screen.cells[i] = BLANK
  <2>1. i \in Int /\ i >= screen.cursor
    BY <1>1, <1>4 DEF OnScreen
  <2> QED BY <1>1, <2>1 DEF Tidy
<1> QED BY <1>1, <1>3, <1>4 DEF EchoShowsLine

\* As far as the line lies on the screen, the screen shows it behind the prompt,
\* and nothing behind it, for every size of screen and line and every sequence of
\* keys and commands (kernel.c, print_string and the echo and cls commands).
THEOREM ShowsTheLine == Spec => []EchoShowsLine
<1> QED BY InitInv, NextInv, InvShows, PTL DEF Spec

-----------------------------------------------------------------------------
(* The words that are run *)

(* A text in a buffer ends at the first NUL.                                 *)
LEMMA TextEnds ==
    ASSUME NEW buf \in Buffers, NEW p \in Places, NEW e \in Places,
           p <= e, buf[e] = NUL, \A i \in p..(e - 1) : buf[i] # NUL
    PROVE  TextAt(buf, p) = [k \in 1..(e - p) |-> buf[p + k - 1]]
<1> DEFINE ends == {i \in DOMAIN buf : i >= p /\ buf[i] = NUL}
           m == Min(ends)
<1>1. BufSize \in Nat /\ p \in Nat /\ e \in Nat
  BY ShellAssumption DEF Places
<1>2. DOMAIN buf = Places
  BY DEF Buffers
<1>3. e \in ends /\ ends \subseteq Nat
  BY <1>1, <1>2 DEF Places
<1>4. m \in ends /\ m <= e
  <2> HIDE DEF ends
  <2> QED BY <1>3, MinIsElement
<1>5. m \in Nat /\ m >= p /\ buf[m] = NUL
  BY <1>3, <1>4
<1>6. m = e
  <2> HIDE DEF m
  <2>1. m \in p..(e - 1) \/ m = e
    BY <1>1, <1>4, <1>5
  <2> QED BY <1>5, <2>1
<1>7. TextAt(buf, p) = [k \in 1..(m - p) |-> buf[p + k - 1]]
  BY DEF TextAt
<1> HIDE DEF m
<1> QED BY <1>6, <1>7

(* There is one.                                                             *)
LEMMA TextHasEnd ==
    ASSUME NEW buf \in Buffers, NEW p \in Places
    PROVE  \E e \in Places : /\ p <= e /\ buf[e] = NUL
                             /\ \A i \in p..(e - 1) : buf[i] # NUL
<1> DEFINE ends == {i \in Places : i >= p /\ buf[i] = NUL}
           m == Min(ends)
<1>1. BufSize \in Nat \ {0} /\ p \in Nat
  BY ShellAssumption DEF Places
<1>2. BufSize - 1 \in ends /\ ends \subseteq Nat
  BY <1>1 DEF Buffers, Places
<1>3. m \in ends /\ \A y \in ends : m <= y
  <2> HIDE DEF ends
  <2> QED BY <1>2, MinIsElement
<1>4. m \in Places /\ p <= m /\ buf[m] = NUL
  BY <1>3
<1> HIDE DEF m
<1>5. ASSUME NEW i \in p..(m - 1) PROVE buf[i] # NUL
  <2>1. i \in Places /\ i >= p /\ ~ (m <= i)
    BY <1>1, <1>4 DEF Places
  <2>2. i \notin ends
    <3> HIDE DEF ends
    <3> QED BY <1>3, <2>1
  <2> QED BY <2>1, <2>2
<1> QED BY <1>4, <1>5

\* The line that command_run finds, and its end.
Line == TextAt(cmd_buf, 0)
End  == Len(Line)

LEMMA LineFacts ==
    ASSUME cmd_buf \in Buffers
    PROVE  /\ End \in Places /\ End \in Nat /\ cmd_buf[End] = NUL
           /\ Line = [k \in 1..End |-> cmd_buf[k - 1]]
           /\ \A i \in 0..(End - 1) : i \in Places /\ cmd_buf[i] # NUL
<1>1. 0 \in Places /\ BufSize \in Nat
  BY ShellAssumption DEF Places
<1>2. PICK e \in Places : 0 <= e /\ cmd_buf[e] = NUL /\ \A i \in 0..(e - 1) : cmd_buf[i] # NUL
  BY <1>1, TextHasEnd
<1>3. Line = [k \in 1..(e - 0) |-> cmd_buf[0 + k - 1]]
  BY <1>1, <1>2, TextEnds DEF Line
<1>4. e \in Nat /\ e - 0 = e
  BY <1>1 DEF Places
<1>5. Line = [k \in 1..e |-> cmd_buf[k - 1]]
  <2>1. \A k \in 1..e : 0 + k - 1 = k - 1
    BY <1>4
  <2> QED BY <1>3, <1>4, <2>1
<1>6. End = e
  BY <1>4, <1>5 DEF End
<1>7. \A i \in 0..(e - 1) : i \in Places
  BY <1>1, <1>4 DEF Places
<1> QED BY <1>2, <1>4, <1>5, <1>6, <1>7

\* The words that start among the first n characters of the line.
Heads(n) == {j \in Editor!Starts(Line) : j <= n}

LEMMA StartsFacts ==
    ASSUME cmd_buf \in Buffers
    PROVE  \A j : j \in Editor!Starts(Line) <=>
                    /\ j \in 1..End /\ cmd_buf[j - 1] # BLANK
                    /\ j = 1 \/ cmd_buf[j - 2] = BLANK
<1>1. /\ End \in Nat /\ Line = [k \in 1..End |-> cmd_buf[k - 1]] /\ End = Len(Line)
  BY LineFacts DEF End
<1>2. \A k \in 1..End : Line[k] = cmd_buf[k - 1]
  BY <1>1
<1>3. \A k \in 1..End : k # 1 => k - 1 \in 1..End /\ (k - 1) - 1 = k - 2
  <2>1. End \in Nat
    BY <1>1
  <2>2. \A k \in 1..End : k # 1 => k - 1 \in 1..End
    BY <2>1
  <2>3. \A k \in Int : (k - 1) - 1 = k - 2
    OBVIOUS
  <2>4. \A k \in 1..End : k \in Int
    OBVIOUS
  <2> QED BY <2>2, <2>3, <2>4, Zenon
<1>4. \A k \in 1..End : k # 1 => Line[k - 1] = cmd_buf[k - 2]
  <2> TAKE k \in 1..End
  <2> HAVE k # 1
  <2>1. Line[k - 1] = cmd_buf[(k - 1) - 1]
    BY <1>2, <1>3
  <2> QED BY <1>3, <2>1
<1> QED BY <1>1, <1>2, <1>4 DEF Editor!Starts

LEMMA HeadsFacts ==
    ASSUME cmd_buf \in Buffers
    PROVE  /\ \A n \in Nat : IsFiniteSet(Heads(n)) /\ Cardinality(Heads(n)) \in Nat
           /\ Heads(0) = {} /\ Heads(End) = Editor!Starts(Line)
           /\ \A n \in Nat : Cardinality(Heads(n + 1)) =
                IF n + 1 \in Editor!Starts(Line) THEN Cardinality(Heads(n)) + 1
                                                 ELSE Cardinality(Heads(n))
<1>1. End \in Nat /\ \A j \in Editor!Starts(Line) : j \in 1..End
  BY LineFacts, StartsFacts
<1>2. ASSUME NEW n \in Nat PROVE IsFiniteSet(Heads(n)) /\ Cardinality(Heads(n)) \in Nat
  <2>1. Heads(n) \subseteq 1..End
    BY <1>1 DEF Heads
  <2>2. IsFiniteSet(1..End)
    BY <1>1, FS_Interval
  <2>3. IsFiniteSet(Heads(n))
    BY <2>1, <2>2, FS_Subset
  <2> QED BY <2>3, FS_CardinalityType
<1>3. Heads(0) = {}
  BY <1>1 DEF Heads
<1>4. Heads(End) = Editor!Starts(Line)
  BY <1>1 DEF Heads
<1>5. ASSUME NEW n \in Nat
      PROVE  Cardinality(Heads(n + 1)) =
               IF n + 1 \in Editor!Starts(Line) THEN Cardinality(Heads(n)) + 1
                                                ELSE Cardinality(Heads(n))
  <2>1. CASE n + 1 \in Editor!Starts(Line)
    <3>1. Heads(n + 1) = Heads(n) \cup {n + 1} /\ n + 1 \notin Heads(n)
      BY <1>1, <2>1 DEF Heads
    <3> QED BY <1>2, <2>1, <3>1, FS_AddElement
  <2>2. CASE n + 1 \notin Editor!Starts(Line)
    <3>1. Heads(n + 1) = Heads(n)
      BY <1>1, <2>2 DEF Heads
    <3> QED BY <2>2, <3>1
  <2> QED BY <2>1, <2>2
<1> QED BY <1>2, <1>3, <1>4, <1>5

\* What command_run knows before it comes to character n: the words it has taken
\* are the first ones that start in the line, as many as there is room for;
Counted(t, n) ==
    Len(t.argv) = IF Cardinality(Heads(n)) < MAX_ARGS THEN Cardinality(Heads(n))
                                                      ELSE MAX_ARGS
InOrder(t, n) ==
    \A k \in 1..Len(t.argv) :
      /\ t.argv[k] \in 0..(n - 1)
      /\ t.argv[k] + 1 \in Editor!Starts(Line)
      /\ Cardinality(Heads(t.argv[k] + 1)) = k

\* the word taken last may go on, and the others end in a NUL;
GoesOn(t, n) ==
    \A k \in 1..Len(t.argv) :
      (\A i \in t.argv[k]..(n - 1) : cmd_buf[i] # BLANK) => t.inside
Ended(t, n) ==
    \A k \in 1..Len(t.argv) : \A e \in t.argv[k]..(n - 1) :
      cmd_buf[e] = BLANK /\ (\A i \in t.argv[k]..(e - 1) : cmd_buf[i] # BLANK)
        => t.buf[e] = NUL

\* it is inside the word taken last, or between two words, or has taken enough;
Where(t, n) ==
    /\ t.inside => n > 0 /\ cmd_buf[n - 1] # BLANK
    /\ n > 0 /\ cmd_buf[n - 1] # BLANK /\ ~ t.inside => Len(t.argv) = MAX_ARGS

\* and it has replaced only spaces.
Replaced(t, n) ==
    \A i \in Places : t.buf[i] # cmd_buf[i] =>
      i < n /\ cmd_buf[i] = BLANK /\ t.buf[i] = NUL

Scanned(t, n) ==
    /\ Counted(t, n) /\ InOrder(t, n) /\ GoesOn(t, n) /\ Ended(t, n)
    /\ Where(t, n) /\ Replaced(t, n)

(* A space behind a word ends it.                                            *)
LEMMA WordEnds ==
    ASSUME cmd_buf \in Buffers, NEW n \in 0..(End - 1), NEW t \in Scans, Scanned(t, n),
           t.inside, t.buf[n] = BLANK
    PROVE  Scanned(Scan(t, n), n + 1)
<1> DEFINE b == [t.buf EXCEPT ![n] = NUL]
           u == Scan(t, n)
<1>1. /\ t = [buf |-> t.buf, argv |-> t.argv, inside |-> t.inside]
      /\ t.buf \in [Places -> Kept \cup {NUL}] /\ t.argv \in Seq(Places)
      /\ Len(t.argv) \in Nat
  BY DEF Scans, Buffers
<1>2. u = [buf |-> b, argv |-> t.argv, inside |-> FALSE]
  <2>1. u = [t EXCEPT !.buf[n] = NUL, !.inside = FALSE]
    BY Zenon DEF Scan
  <2> QED BY <1>1, <2>1
<1>3. u.buf = b /\ u.argv = t.argv /\ u.inside = FALSE
  BY <1>2
<1>4. n \in Nat /\ n \in Places /\ (n + 1) - 1 = n /\ End \in Nat
  BY LineFacts
<1>5. /\ \A i \in Places : i # n => b[i] = t.buf[i]
      /\ b[n] = NUL
  BY <1>1, <1>4
<1> HIDE DEF b, u
<1>6. cmd_buf[n] = BLANK
  BY <1>4 DEF Scanned, Replaced, NUL, BLANK
<1>7. n + 1 \notin Editor!Starts(Line)
  BY <1>4, <1>6, StartsFacts
<1>8. Counted(u, n + 1)
  BY <1>3, <1>4, <1>7, HeadsFacts DEF Scanned, Counted
<1>9. InOrder(u, n + 1)
  <2>1. \A k \in 1..Len(t.argv) : t.argv[k] \in 0..(n - 1)
    BY DEF Scanned, InOrder
  <2>2. \A k \in 1..Len(t.argv) : t.argv[k] \in 0..n
    BY <1>4, <2>1
  <2> QED BY <1>3, <1>4, <2>2 DEF Scanned, InOrder
<1>10. \A k \in 1..Len(t.argv) : t.argv[k] \in 0..(n - 1) /\ n \in t.argv[k]..n
  BY <1>4 DEF Scanned, InOrder
<1>11. GoesOn(u, n + 1)
  BY <1>3, <1>4, <1>6, <1>10 DEF GoesOn
<1>12. Ended(u, n + 1)
  <2> SUFFICES ASSUME NEW k \in 1..Len(t.argv), NEW e \in t.argv[k]..n,
                      cmd_buf[e] = BLANK, \A i \in t.argv[k]..(e - 1) : cmd_buf[i] # BLANK
               PROVE  b[e] = NUL
    BY <1>3, <1>4 DEF Ended
  <2>1. CASE e = n
    BY <1>5, <2>1
  <2>2. CASE e # n
    <3>1. e \in t.argv[k]..(n - 1) /\ e \in Places
      <4>1. t.argv[k] \in 0..(n - 1) /\ e \in Int /\ BufSize \in Nat
        BY <1>10, ShellAssumption
      <4>2. e \in t.argv[k]..(n - 1)
        BY <1>4, <2>2, <4>1
      <4> QED BY <1>4, <4>1, <4>2 DEF Places
    <3>2. t.buf[e] = NUL
      BY <3>1 DEF Scanned, Ended
    <3> QED BY <1>5, <2>2, <3>1, <3>2
  <2> QED BY <2>1, <2>2
<1>13. Where(u, n + 1)
  BY <1>3, <1>4, <1>6 DEF Where
<1>14. Replaced(u, n + 1)
  <2> SUFFICES ASSUME NEW i \in Places, b[i] # cmd_buf[i]
               PROVE  i < n + 1 /\ cmd_buf[i] = BLANK /\ b[i] = NUL
    BY <1>3 DEF Replaced
  <2>1. CASE i = n
    BY <1>4, <1>5, <1>6, <2>1
  <2>2. CASE i # n
    <3>1. b[i] = t.buf[i] /\ i \in Int
      BY <1>5, <2>2 DEF Places
    <3>2. i < n /\ cmd_buf[i] = BLANK /\ t.buf[i] = NUL
      BY <3>1 DEF Scanned, Replaced
    <3> QED BY <1>4, <3>1, <3>2
  <2> QED BY <2>1, <2>2
<1>15. Scanned(u, n + 1)
  BY <1>8, <1>9, <1>11, <1>12, <1>13, <1>14 DEF Scanned
<1> QED BY <1>15 DEF u

(* A character behind a space starts a word.                                 *)
LEMMA WordStarts ==
    ASSUME cmd_buf \in Buffers, NEW n \in 0..(End - 1), NEW t \in Scans, Scanned(t, n),
           ~ t.inside, t.buf[n] # BLANK, Len(t.argv) < MAX_ARGS
    PROVE  Scanned(Scan(t, n), n + 1)
<1> DEFINE a == Append(t.argv, n)
           u == Scan(t, n)
           m == Len(t.argv)
<1>1. /\ t = [buf |-> t.buf, argv |-> t.argv, inside |-> t.inside]
      /\ t.argv \in Seq(Places) /\ m \in Nat /\ MAX_ARGS \in Nat
  BY ShellAssumption DEF Scans
<1>2. u = [buf |-> t.buf, argv |-> a, inside |-> TRUE]
  <2>1. u = [t EXCEPT !.argv = a, !.inside = TRUE]
    BY DEF Scan
  <2> QED BY <1>1, <2>1
<1>3. u.buf = t.buf /\ u.argv = a /\ u.inside = TRUE
  BY <1>2
<1>4. n \in Nat /\ n \in Places /\ (n + 1) - 1 = n /\ End \in Nat
  BY LineFacts
<1>5. Len(a) = m + 1 /\ a[m + 1] = n /\ \A k \in 1..m : a[k] = t.argv[k]
  BY <1>1, <1>4, AppendProperties
<1> HIDE DEF a, u, m
<1>6. cmd_buf[n] # BLANK
  BY <1>4 DEF Scanned, Replaced
<1>7. n = 0 \/ cmd_buf[n - 1] = BLANK
  BY <1>1, <1>4 DEF Scanned, Where, m
<1>8. n + 1 \in Editor!Starts(Line)
  <2>1. n + 1 \in 1..End /\ (n + 1) - 2 = n - 1 /\ (n + 1 = 1 <=> n = 0)
    BY <1>4
  <2> QED BY <1>4, <1>6, <1>7, <2>1, StartsFacts
<1> DEFINE c == Cardinality(Heads(n))
<1>9. c \in Nat /\ Cardinality(Heads(n + 1)) = c + 1
  BY <1>4, <1>8, HeadsFacts
<1> HIDE DEF c
<1>10. m = c /\ c < MAX_ARGS
  <2>1. m = (IF c < MAX_ARGS THEN c ELSE MAX_ARGS) /\ m < MAX_ARGS
    BY DEF Scanned, Counted, m, c
  <2> QED BY <1>1, <1>9, <2>1
<1>11. Counted(u, n + 1)
  <2>1. m + 1 = IF c + 1 < MAX_ARGS THEN c + 1 ELSE MAX_ARGS
    BY <1>1, <1>9, <1>10
  <2> QED BY <1>3, <1>5, <1>9, <2>1 DEF Counted
<1>12. \A k \in 1..(m + 1) : k = m + 1 \/ k \in 1..m
  BY <1>1
<1>13. \A k \in 1..m : /\ t.argv[k] \in 0..(n - 1) /\ t.argv[k] + 1 \in Editor!Starts(Line)
                       /\ Cardinality(Heads(t.argv[k] + 1)) = k
  BY DEF Scanned, InOrder, m
<1>14. InOrder(u, n + 1)
  <2>1. ASSUME NEW k \in 1..(m + 1)
        PROVE  /\ a[k] \in 0..n /\ a[k] + 1 \in Editor!Starts(Line)
               /\ Cardinality(Heads(a[k] + 1)) = k
    <3>1. CASE k = m + 1
      BY <1>4, <1>5, <1>8, <1>9, <1>10, <3>1
    <3>2. CASE k \in 1..m
      <4>1. t.argv[k] \in 0..n
        BY <1>4, <1>13, <3>2
      <4> QED BY <1>5, <1>13, <3>2, <4>1
    <3> QED BY <1>12, <3>1, <3>2
  <2> QED BY <1>3, <1>4, <1>5, <2>1 DEF InOrder
<1>15. GoesOn(u, n + 1)
  BY <1>3 DEF GoesOn
<1>16. Ended(u, n + 1)
  <2> SUFFICES ASSUME NEW k \in 1..(m + 1), NEW e \in a[k]..n,
                      cmd_buf[e] = BLANK, \A i \in a[k]..(e - 1) : cmd_buf[i] # BLANK
               PROVE  t.buf[e] = NUL
    BY <1>3, <1>4, <1>5 DEF Ended
  <2>1. CASE k = m + 1
    <3>1. e = n
      BY <1>4, <1>5, <2>1
    <3> QED BY <1>6, <3>1
  <2>2. CASE k \in 1..m
    <3>1. a[k] = t.argv[k] /\ t.argv[k] \in 0..(n - 1) /\ e # n
      BY <1>5, <1>6, <1>13, <2>2
    <3>2. e \in t.argv[k]..(n - 1)
      BY <1>4, <3>1
    <3> QED BY <2>2, <3>1, <3>2 DEF Scanned, Ended, m
  <2> QED BY <1>12, <2>1, <2>2
<1>17. Where(u, n + 1)
  BY <1>3, <1>4, <1>6 DEF Where
<1>18. Replaced(u, n + 1)
  <2>1. \A i \in Places : i < n => i < n + 1
    BY <1>4 DEF Places
  <2> QED BY <1>3, <2>1 DEF Scanned, Replaced
<1>19. Scanned(u, n + 1)
  BY <1>11, <1>14, <1>15, <1>16, <1>17, <1>18 DEF Scanned
<1> QED BY <1>19 DEF u

(* Every other character leaves all as it is.                                *)
LEMMA ScanGoesOn ==
    ASSUME cmd_buf \in Buffers, NEW n \in 0..(End - 1), NEW t \in Scans, Scanned(t, n),
           ~ (t.inside /\ t.buf[n] = BLANK),
           ~ (~ t.inside /\ t.buf[n] # BLANK /\ Len(t.argv) < MAX_ARGS)
    PROVE  Scanned(Scan(t, n), n + 1)
<1> DEFINE m == Len(t.argv)
           c == Cardinality(Heads(n))
           d == Cardinality(Heads(n + 1))
<1>1. Scan(t, n) = t
  BY Zenon DEF Scan
<1>2. m \in Nat /\ MAX_ARGS \in Nat /\ t.inside \in BOOLEAN
  BY ShellAssumption DEF Scans
<1>3. n \in Nat /\ n \in Places /\ (n + 1) - 1 = n /\ (n + 1) - 2 = n - 1 /\ End \in Nat
  BY LineFacts
<1>4. t.buf[n] = BLANK <=> cmd_buf[n] = BLANK
  BY <1>3 DEF Scanned, Replaced
<1>5. /\ c \in Nat /\ d = IF n + 1 \in Editor!Starts(Line) THEN c + 1 ELSE c
  BY <1>3, HeadsFacts
<1> HIDE DEF m, c, d
<1>6. m = IF c < MAX_ARGS THEN c ELSE MAX_ARGS
  BY DEF Scanned, Counted, m, c
<1>7. m = MAX_ARGS \/ d = c
  <2>1. CASE t.inside
    <3>1. n > 0 /\ cmd_buf[n - 1] # BLANK
      BY <2>1 DEF Scanned, Where
    <3>2. n + 1 \notin Editor!Starts(Line)
      BY <1>3, <3>1, StartsFacts
    <3> QED BY <1>5, <3>2
  <2>2. CASE t.buf[n] = BLANK
    <3>1. n + 1 \notin Editor!Starts(Line)
      BY <1>3, <1>4, <2>2, StartsFacts
    <3> QED BY <1>5, <3>1
  <2>3. CASE ~ (m < MAX_ARGS)
    BY <1>2, <1>5, <1>6, <2>3
  <2> QED BY <2>1, <2>2, <2>3 DEF m
<1>8. Counted(t, n + 1)
  <2>1. m = IF d < MAX_ARGS THEN d ELSE MAX_ARGS
    BY <1>2, <1>5, <1>6, <1>7
  <2> QED BY <2>1 DEF Counted, m, d
<1>9. \A k \in 1..m : t.argv[k] \in 0..(n - 1)
  BY DEF Scanned, InOrder, m
<1>10. InOrder(t, n + 1)
  <2>1. \A k \in 1..m : t.argv[k] \in 0..n
    BY <1>3, <1>9
  <2> QED BY <1>3, <2>1 DEF Scanned, InOrder, m
<1>11. GoesOn(t, n + 1)
  <2> SUFFICES ASSUME NEW k \in 1..m, \A i \in t.argv[k]..n : cmd_buf[i] # BLANK
               PROVE  t.inside
    BY <1>3 DEF GoesOn, m
  <2>1. \A i \in t.argv[k]..(n - 1) : i \in t.argv[k]..n
    BY <1>3, <1>9
  <2> QED BY <2>1 DEF Scanned, GoesOn, m
<1>12. Ended(t, n + 1)
  <2> SUFFICES ASSUME NEW k \in 1..m, NEW e \in t.argv[k]..n,
                      cmd_buf[e] = BLANK, \A i \in t.argv[k]..(e - 1) : cmd_buf[i] # BLANK
               PROVE  t.buf[e] = NUL
    BY <1>3 DEF Ended, m
  <2>1. CASE e = n
    <3>1. t.inside
      BY <2>1 DEF Scanned, GoesOn, m
    <3> QED BY <1>4, <2>1, <3>1
  <2>2. CASE e # n
    <3>1. e \in t.argv[k]..(n - 1)
      BY <1>3, <1>9, <2>2
    <3> QED BY <3>1 DEF Scanned, Ended, m
  <2> QED BY <2>1, <2>2
<1>13. Where(t, n + 1)
  <2>1. t.inside => cmd_buf[n] # BLANK
    BY <1>4
  <2>2. cmd_buf[n] # BLANK /\ ~ t.inside => m = MAX_ARGS
    BY <1>2, <1>4, <1>5, <1>6 DEF m
  <2> QED BY <1>3, <2>1, <2>2 DEF Where, m
<1>14. Replaced(t, n + 1)
  <2>1. \A i \in Places : i < n => i < n + 1
    BY <1>3 DEF Places
  <2> QED BY <2>1 DEF Scanned, Replaced
<1>15. Scanned(t, n + 1)
  BY <1>8, <1>10, <1>11, <1>12, <1>13, <1>14 DEF Scanned
<1> QED BY <1>1, <1>15

LEMMA ParsedIsScanned ==
    ASSUME cmd_buf \in Buffers
    PROVE  Parsed \in Scans /\ Scanned(Parsed, End)
<1>1. End \in Nat
  BY LineFacts
<1>2. PICK f : /\ f \in [0..End -> Scans]
               /\ f[0] = [buf |-> cmd_buf, argv |-> <<>>, inside |-> FALSE]
               /\ f[End] = Parsed
               /\ \A n \in 1..End : f[n] = Scan(f[n - 1], n - 1)
  BY Parsing DEF End, Line
<1> DEFINE S == {n \in 0..End : Scanned(f[n], n)}
<1>3. 0 \in S
  <2> DEFINE t == [buf |-> cmd_buf, argv |-> <<>>, inside |-> FALSE]
  <2>1. t.buf = cmd_buf /\ t.argv = <<>> /\ t.inside = FALSE /\ Len(t.argv) = 0
    OBVIOUS
  <2>2. Cardinality(Heads(0)) = 0 /\ MAX_ARGS \in Nat \ {0}
    BY HeadsFacts, FS_EmptySet, ShellAssumption
  <2> HIDE DEF t
  <2>3. Counted(t, 0)
    BY <2>1, <2>2 DEF Counted
  <2>4. InOrder(t, 0) /\ GoesOn(t, 0) /\ Ended(t, 0) /\ Where(t, 0) /\ Replaced(t, 0)
    BY <2>1 DEF InOrder, GoesOn, Ended, Where, Replaced
  <2>5. Scanned(t, 0)
    BY <2>3, <2>4 DEF Scanned
  <2>6. f[0] = t
    BY <1>2 DEF t
  <2> QED BY <1>1, <2>5, <2>6
<1>4. ASSUME NEW n \in 0..(End - 1), n \in S PROVE n + 1 \in S
  <2>1. n + 1 \in 1..End /\ n + 1 \in 0..End /\ (n + 1) - 1 = n /\ n \in 0..End
    BY <1>1
  <2>2. f[n + 1] = Scan(f[n], n) /\ f[n] \in Scans /\ Scanned(f[n], n)
    BY <1>2, <1>4, <2>1
  <2>3. f[n].inside \in BOOLEAN
    BY <2>2 DEF Scans
  <2>4. Scanned(Scan(f[n], n), n + 1)
    BY <2>2, <2>3, WordEnds, WordStarts, ScanGoesOn
  <2> QED BY <2>1, <2>2, <2>4
<1> HIDE DEF S
<1>5. \A n \in 0..End : n \in S
  BY <1>1, <1>3, <1>4, UpTo
<1>6. End \in S /\ End \in 0..End
  BY <1>1, <1>5
<1> QED BY <1>2, <1>6 DEF S

(* The cardinality of LineEditor's instance is that of the sets here.        *)
LEMMA SameCardinality == \A S : Editor!Cardinality(S) = Cardinality(S)
BY DEF Editor!Cardinality, Cardinality

(* Each word taken is cut where the next space is, or the end of the line.   *)
LEMMA WordOfLine ==
    ASSUME cmd_buf \in Buffers, NEW k \in 1..Len(Parsed.argv)
    PROVE  TextAt(Parsed.buf, Parsed.argv[k]) = Editor!WordAt(Line, Parsed.argv[k] + 1)
<1> DEFINE p == Parsed.argv[k]
           b == Parsed.buf
<1>1. /\ Parsed \in Scans /\ InOrder(Parsed, End) /\ Ended(Parsed, End)
      /\ Replaced(Parsed, End)
  BY ParsedIsScanned DEF Scanned
<1>2. /\ End \in Places /\ End \in Nat /\ cmd_buf[End] = NUL
      /\ Line = [j \in 1..End |-> cmd_buf[j - 1]]
      /\ \A i \in 0..(End - 1) : i \in Places /\ cmd_buf[i] # NUL
  BY LineFacts
<1>3. p \in 0..(End - 1) /\ p + 1 \in Editor!Starts(Line)
  BY <1>1 DEF InOrder
<1>4. p \in Places /\ p \in Nat /\ p + 1 \in 1..End /\ b \in Buffers
  BY <1>1, <1>2, <1>3 DEF Scans
<1>5. \A e \in p..(End - 1) :
        cmd_buf[e] = BLANK /\ (\A i \in p..(e - 1) : cmd_buf[i] # BLANK) => b[e] = NUL
  BY <1>1 DEF Ended
<1>6. \A i \in Places : b[i] # cmd_buf[i] => i < End /\ cmd_buf[i] = BLANK /\ b[i] = NUL
  BY <1>1 DEF Replaced
<1> HIDE DEF p, b
<1>7. b[End] = NUL
  BY <1>2, <1>6
<1>8. PICK e \in p..End : /\ e = End \/ cmd_buf[e] = BLANK
                          /\ \A i \in p..(e - 1) : cmd_buf[i] # BLANK
  <2> DEFINE stops == {i \in p..End : i = End \/ cmd_buf[i] = BLANK}
             e == Min(stops)
  <2>1. End \in stops /\ stops \subseteq Nat
    BY <1>2, <1>3, <1>4
  <2>2. e \in stops /\ \A y \in stops : e <= y
    <3> HIDE DEF stops
    <3> QED BY <2>1, MinIsElement
  <2>3. e \in p..End /\ (e = End \/ cmd_buf[e] = BLANK)
    BY <2>2
  <2> HIDE DEF e
  <2>4. ASSUME NEW i \in p..(e - 1) PROVE cmd_buf[i] # BLANK
    <3>1. i \in p..End /\ ~ (e <= i)
      BY <1>2, <1>4, <2>3
    <3>2. i \notin stops
      <4> HIDE DEF stops
      <4> QED BY <2>2, <3>1
    <3> QED BY <3>1, <3>2
  <2> QED BY <2>3, <2>4
<1>9. e \in Places /\ e \in Nat /\ p <= e
  BY <1>2, <1>4, <1>8
<1>10. b[e] = NUL
  <2>1. CASE e = End
    BY <1>7, <2>1
  <2>2. CASE e # End
    <3>1. e \in p..(End - 1) /\ cmd_buf[e] = BLANK
      BY <1>2, <1>4, <1>8, <2>2
    <3> QED BY <1>5, <1>8, <3>1
  <2> QED BY <2>1, <2>2
<1>11. \A i \in p..(e - 1) : i \in Places /\ i \in 0..(End - 1)
  BY <1>2, <1>4, <1>8
<1>12. \A i \in p..(e - 1) : b[i] = cmd_buf[i] /\ b[i] # NUL
  BY <1>2, <1>6, <1>8, <1>11
<1>13. TextAt(b, p) = [j \in 1..(e - p) |-> b[p + j - 1]]
  BY <1>4, <1>9, <1>10, <1>12, TextEnds
<1>14. \A j \in 1..(e - p) : /\ p + j - 1 \in p..(e - 1) /\ (p + 1) + j - 1 \in 1..End
                             /\ ((p + 1) + j - 1) - 1 = p + j - 1
  BY <1>2, <1>4, <1>8, <1>9
<1>15. \A j \in 1..(e - p) : Line[(p + 1) + j - 1] = b[p + j - 1]
  <2> TAKE j \in 1..(e - p)
  <2>1. Line[(p + 1) + j - 1] = cmd_buf[((p + 1) + j - 1) - 1]
    BY <1>2, <1>14
  <2> QED BY <1>12, <1>14, <2>1
<1> DEFINE ends == {j \in (p + 1)..Len(Line) : \A i \in (p + 1)..j : Line[i] # BLANK}
<1>16. ends = (p + 1)..e
  <2>1. Len(Line) = End
    BY DEF End
  <2>2. \A i \in 1..End : Line[i] = cmd_buf[i - 1]
    BY <1>2
  <2>3. ASSUME NEW j \in ends PROVE j \in (p + 1)..e
    <3>1. j \in (p + 1)..End /\ \A i \in (p + 1)..j : Line[i] # BLANK
      BY <2>1
    <3>2. ASSUME ~ (j <= e) PROVE FALSE
      <4>1. e + 1 \in (p + 1)..j /\ e + 1 \in 1..End /\ (e + 1) - 1 = e /\ e # End
        BY <1>2, <1>4, <1>9, <3>1, <3>2
      <4>2. cmd_buf[e] # BLANK
        BY <2>2, <3>1, <4>1
      <4> QED BY <1>8, <4>1, <4>2
    <3> QED BY <1>9, <3>1, <3>2
  <2>4. ASSUME NEW j \in (p + 1)..e PROVE j \in ends
    <3>1. j \in (p + 1)..End
      BY <1>2, <1>4, <1>8
    <3>2. ASSUME NEW i \in (p + 1)..j PROVE Line[i] # BLANK
      <4>1. i \in 1..End /\ i - 1 \in p..(e - 1)
        BY <1>2, <1>4, <1>9, <3>1
      <4> QED BY <1>8, <2>2, <4>1
    <3> QED BY <2>1, <3>1, <3>2
  <2> QED BY <2>3, <2>4
<1>17. Cardinality(ends) = e - p
  <2>1. Cardinality((p + 1)..e) = IF p + 1 > e THEN 0 ELSE e - (p + 1) + 1
    BY <1>4, <1>9, FS_Interval
  <2>2. (IF p + 1 > e THEN 0 ELSE e - (p + 1) + 1) = e - p
    BY <1>4, <1>9
  <2> QED BY <1>16, <2>1, <2>2
<1>18. Editor!WordAt(Line, p + 1) = SubSeq(Line, p + 1, (p + 1) + Cardinality(ends) - 1)
  BY SameCardinality DEF Editor!WordAt
<1> HIDE DEF ends
<1>19. Editor!WordAt(Line, p + 1) = SubSeq(Line, p + 1, e)
  <2>1. (p + 1) + (e - p) - 1 = e
    BY <1>4, <1>9
  <2> QED BY <1>17, <1>18, <2>1
<1>20. SubSeq(Line, p + 1, e) = [j \in 1..(e - p) |-> Line[(p + 1) + j - 1]]
  <2>1. e - (p + 1) + 1 = e - p
    BY <1>4, <1>9
  <2>2. SubSeq(Line, p + 1, e) = [j \in 1..(e - (p + 1) + 1) |-> Line[(p + 1) + j - 1]]
    BY <1>4, <1>9 DEF SubSeq
  <2> QED BY <2>1, <2>2
<1> QED BY <1>13, <1>15, <1>19, <1>20 DEF p, b

(* No two words are preceded by as many.                                     *)
LEMMA NthIsUnique ==
    ASSUME cmd_buf \in Buffers,
           NEW i \in Editor!Starts(Line), NEW j \in Editor!Starts(Line),
           Cardinality(Heads(i)) = Cardinality(Heads(j))
    PROVE  i = j
<1>1. i \in Nat /\ j \in Nat
  BY StartsFacts, LineFacts
<1>2. ASSUME NEW a \in Editor!Starts(Line), NEW b \in Editor!Starts(Line),
             a \in Nat, b \in Nat, a < b, Cardinality(Heads(a)) = Cardinality(Heads(b))
      PROVE  FALSE
  <2>1. \A x \in Editor!Starts(Line) : x \in Int
    BY StartsFacts
  <2>2. Heads(a) \subseteq Heads(b)
    <3>1. \A x \in Int : x <= a => x <= b
      BY <1>2
    <3> QED BY <2>1, <3>1 DEF Heads
  <2>3. b \in Heads(b) /\ b \notin Heads(a)
    BY <1>2 DEF Heads
  <2>4. IsFiniteSet(Heads(b))
    BY <1>2, HeadsFacts
  <2>5. Heads(a) = Heads(b)
    BY <1>2, <2>2, <2>4, FS_Subset
  <2> QED BY <2>3, <2>5
<1>3. i < j \/ j < i \/ i = j
  BY <1>1
<1> QED BY <1>1, <1>2, <1>3

(* command_run hands on the words of the line.                               *)
LEMMA WordsOfLine ==
    ASSUME cmd_buf \in Buffers
    PROVE  argv = Editor!Words(Line)
<1> DEFINE c == Editor!Cardinality(Editor!Starts(Line))
           m == IF c < MAX_ARGS THEN c ELSE MAX_ARGS
           nth(n) == CHOOSE i \in Editor!Starts(Line) :
                       Editor!Cardinality({j \in Editor!Starts(Line) : j <= i}) = n
<1>1. Editor!Words(Line) = [n \in 1..m |-> Editor!WordAt(Line, nth(n))]
  BY DEF Editor!Words
<1>2. Parsed \in Scans /\ Scanned(Parsed, End)
  BY ParsedIsScanned
<1>3. Len(Parsed.argv) = m
  BY <1>2, HeadsFacts, SameCardinality DEF Scanned, Counted
<1>4. ASSUME NEW n \in 1..Len(Parsed.argv) PROVE nth(n) = Parsed.argv[n] + 1
  <2> DEFINE i == Parsed.argv[n] + 1
  <2>1. i \in Editor!Starts(Line) /\ Cardinality(Heads(i)) = n
    BY <1>2 DEF Scanned, InOrder
  <2> HIDE DEF i
  <2>2. nth(n) \in Editor!Starts(Line) /\ Cardinality(Heads(nth(n))) = n
    BY <2>1, SameCardinality DEF Heads
  <2> HIDE DEF nth
  <2>3. nth(n) = i
    BY <2>1, <2>2, NthIsUnique
  <2> QED BY <2>3 DEF i
<1>5. \A n \in 1..Len(Parsed.argv) :
        TextAt(Parsed.buf, Parsed.argv[n]) = Editor!WordAt(Line, Parsed.argv[n] + 1)
  BY WordOfLine
<1>6. argv = [n \in 1..Len(Parsed.argv) |-> TextAt(Parsed.buf, Parsed.argv[n])]
  BY DEF argv
<1> HIDE DEF m, nth
<1> QED BY <1>1, <1>3, <1>4, <1>5, <1>6

\* The line has no NUL in it.
Written == pc = "edit" => \A i \in 0..(cmd_idx - 1) : cmd_buf[i] # NUL

LEMMA WrittenNext == Inv /\ Written /\ [Next]_vars => Written'
<1> SUFFICES ASSUME Inv, Written, [Next]_vars PROVE Written'
  OBVIOUS
<1>1. CASE prompt
  BY <1>1 DEF prompt, Written
<1>2. CASE command_run
  BY <1>2 DEF command_run, Written
<1>3. ASSUME NEW c \in Chars, insert(c) PROVE Written'
  <2>1. c # NUL
    BY ShellAssumption DEF NUL
  <2>2. cmd_buf \in [Places -> Kept \cup {NUL}] /\ cmd_idx \in Nat
    BY DEF Inv, Typed, Buffers, Places
  <2>3. /\ pc = "edit" /\ cmd_idx' = cmd_idx + 1 /\ cmd_buf' = [cmd_buf EXCEPT ![cmd_idx] = c]
        /\ cmd_idx \in Places
    BY <1>3 DEF insert, Inv, Typed
  <2>4. ASSUME NEW i \in 0..(cmd_idx' - 1) PROVE cmd_buf'[i] # NUL
    <3>1. i = cmd_idx \/ i \in 0..(cmd_idx - 1)
      BY <2>2, <2>3
    <3>2. i \in Places
      <4>1. BufSize \in Nat
        BY ShellAssumption
      <4> QED BY <2>2, <2>3, <3>1, <4>1 DEF Places
    <3> QED BY <2>1, <2>2, <2>3, <3>1, <3>2 DEF Written
  <2> QED BY <2>4 DEF Written
<1>4. CASE erase
  <2>1. /\ pc = "edit" /\ cmd_idx' = cmd_idx - 1 /\ cmd_buf' = cmd_buf
        /\ cmd_idx \in Nat
    BY <1>4 DEF erase, Inv, Typed, Places
  <2>2. \A i \in 0..(cmd_idx' - 1) : i \in 0..(cmd_idx - 1)
    BY <2>1
  <2> QED BY <2>1, <2>2 DEF Written
<1>5. CASE new_line
  BY <1>5 DEF new_line, Written
<1>6. CASE UNCHANGED vars
  BY <1>6 DEF vars, Written
<1> QED BY <1>1, <1>2, <1>3, <1>4, <1>5, <1>6 DEF Next, getc

-----------------------------------------------------------------------------
(* Every step of the shell is one of LineEditor, or none.                    *)

LEMMA EditedLine ==
    ASSUME Inv, pc = "edit"
    PROVE  /\ line = [k \in 1..cmd_idx |-> cmd_buf[k - 1]]
           /\ line \in Seq(Kept \cup {NUL}) /\ Len(line) = cmd_idx
           /\ cmd_idx \in Nat /\ BufSize \in Nat
<1>1. line = [k \in 1..cmd_idx |-> cmd_buf[k - 1]]
  BY DEF line
<1>2. cmd_idx \in Places /\ cmd_buf \in [Places -> Kept \cup {NUL}] /\ BufSize \in Nat
  BY ShellAssumption DEF Inv, Typed, Buffers
<1>3. cmd_idx \in Nat /\ \A k \in 1..cmd_idx : k - 1 \in Places
  BY <1>2 DEF Places
<1>4. line \in [1..cmd_idx -> Kept \cup {NUL}]
  BY <1>1, <1>2, <1>3
<1>5. line \in Seq(Kept \cup {NUL}) /\ Len(line) = cmd_idx
  BY <1>1, <1>3, <1>4
<1> QED BY <1>1, <1>2, <1>3, <1>5

LEMMA InsertStep ==
    ASSUME Inv, Inv', NEW c \in Chars \ {NEWLINE, BACKSPACE, DEL}, insert(c)
    PROVE  Editor!Insert
<1>1. /\ pc = "edit" /\ pc' = "edit" /\ ran' = ran
      /\ cmd_idx < BufSize - 1 /\ cmd_idx' = cmd_idx + 1
      /\ cmd_buf' = [cmd_buf EXCEPT ![cmd_idx] = c]
  BY DEF insert
<1>2. /\ line = [k \in 1..cmd_idx |-> cmd_buf[k - 1]]
      /\ line \in Seq(Kept \cup {NUL}) /\ Len(line) = cmd_idx
      /\ cmd_idx \in Nat /\ BufSize \in Nat
  BY <1>1, EditedLine
<1>3. line' = [k \in 1..(cmd_idx + 1) |-> cmd_buf'[k - 1]]
  BY <1>1 DEF line
<1>4. cmd_buf \in [Places -> Kept \cup {NUL}] /\ c \in Kept \cup {NUL}
  BY DEF Inv, Typed, Buffers, Kept
<1>5. cmd_buf'[cmd_idx] = c /\ \A i \in Places : i # cmd_idx => cmd_buf'[i] = cmd_buf[i]
  BY <1>1, <1>2, <1>4 DEF Places
<1> DEFINE a == Append(line, c)
<1>6. /\ a \in Seq(Kept \cup {NUL}) /\ Len(a) = cmd_idx + 1
      /\ \A k \in 1..cmd_idx : a[k] = line[k]
      /\ a[cmd_idx + 1] = c
  BY <1>2, <1>4, AppendProperties
<1>7. a = [k \in 1..(cmd_idx + 1) |-> a[k]]
  <2> HIDE DEF a
  <2>1. a \in [1..(cmd_idx + 1) -> Kept \cup {NUL}]
    BY <1>6, LenProperties
  <2> QED BY <2>1
<1> HIDE DEF a
<1>8. \A k \in 1..(cmd_idx + 1) : cmd_buf'[k - 1] = a[k]
  <2> TAKE k \in 1..(cmd_idx + 1)
  <2>1. CASE k = cmd_idx + 1
    <3>1. k - 1 = cmd_idx
      BY <1>2, <2>1
    <3> QED BY <1>5, <1>6, <2>1, <3>1
  <2>2. CASE k # cmd_idx + 1
    <3>1. k \in 1..cmd_idx /\ k - 1 \in Places /\ k - 1 # cmd_idx
      BY <1>1, <1>2, <2>2 DEF Places
    <3> QED BY <1>2, <1>5, <1>6, <3>1
  <2> QED BY <2>1, <2>2
<1>9. line' = a
  BY <1>3, <1>7, <1>8
<1> QED BY <1>1, <1>2, <1>9 DEF Editor!Insert, a

LEMMA EraseStep ==
    ASSUME Inv, Inv', erase
    PROVE  Editor!Erase
<1>1. /\ pc = "edit" /\ pc' = "edit" /\ ran' = ran
      /\ cmd_idx > 0 /\ cmd_idx' = cmd_idx - 1 /\ cmd_buf' = cmd_buf
  BY DEF erase
<1>2. /\ line = [k \in 1..cmd_idx |-> cmd_buf[k - 1]]
      /\ Len(line) = cmd_idx /\ cmd_idx \in Nat
  BY <1>1, EditedLine
<1>3. line' = [k \in 1..(cmd_idx - 1) |-> cmd_buf[k - 1]]
  BY <1>1 DEF line
<1>4. line # <<>>
  <2>1. Len(<<>>) = 0
    OBVIOUS
  <2> QED BY <1>1, <1>2, <2>1
<1>5. SubSeq(line, 1, cmd_idx - 1) = [k \in 1..((cmd_idx - 1) - 1 + 1) |-> line[1 + k - 1]]
  BY <1>2 DEF SubSeq
<1>6. (cmd_idx - 1) - 1 + 1 = cmd_idx - 1
  BY <1>2
<1>7. \A k \in 1..(cmd_idx - 1) : line[1 + k - 1] = cmd_buf[k - 1]
  <2> TAKE k \in 1..(cmd_idx - 1)
  <2>1. k \in 1..cmd_idx /\ 1 + k - 1 = k
    BY <1>2
  <2> QED BY <1>2, <2>1
<1>8. SubSeq(line, 1, Len(line) - 1) = line'
  BY <1>2, <1>3, <1>5, <1>6, <1>7
<1> QED BY <1>1, <1>4, <1>8 DEF Editor!Erase

LEMMA NewLineStep ==
    ASSUME Inv, Inv', Written, new_line
    PROVE  UNCHANGED <<line, ran>>
<1>1. /\ pc = "edit" /\ pc' = "run" /\ ran' = ran
      /\ cmd_buf' = [cmd_buf EXCEPT ![cmd_idx] = NUL]
  BY DEF new_line
<1>2. /\ line = [k \in 1..cmd_idx |-> cmd_buf[k - 1]]
      /\ cmd_idx \in Nat /\ BufSize \in Nat
  BY <1>1, EditedLine
<1>3. line' = TextAt(cmd_buf', 0)
  BY <1>1 DEF line
<1>4. /\ cmd_buf \in [Places -> Kept \cup {NUL}] /\ cmd_idx \in Places
      /\ cmd_buf' \in Buffers /\ 0 \in Places
  BY <1>2, ShellAssumption DEF Inv, Typed, Buffers, Places
<1>5. cmd_buf'[cmd_idx] = NUL /\ \A i \in Places : i # cmd_idx => cmd_buf'[i] = cmd_buf[i]
  BY <1>1, <1>4
<1>6. \A i \in 0..(cmd_idx - 1) : /\ i \in Places /\ cmd_buf'[i] = cmd_buf[i]
                                  /\ cmd_buf'[i] # NUL
  <2> TAKE i \in 0..(cmd_idx - 1)
  <2>1. i \in Places /\ i # cmd_idx
    BY <1>2, <1>4 DEF Places
  <2> QED BY <1>1, <1>5, <2>1 DEF Written
<1>7. TextAt(cmd_buf', 0) = [k \in 1..(cmd_idx - 0) |-> cmd_buf'[0 + k - 1]]
  BY <1>2, <1>4, <1>5, <1>6, TextEnds
<1>8. cmd_idx - 0 = cmd_idx
  BY <1>2
<1>9. \A k \in 1..cmd_idx : cmd_buf'[0 + k - 1] = cmd_buf[k - 1]
  <2> TAKE k \in 1..cmd_idx
  <2>1. 0 + k - 1 = k - 1 /\ k - 1 \in 0..(cmd_idx - 1)
    BY <1>2
  <2> QED BY <1>6, <2>1
<1>10. line' = line
  BY <1>2, <1>3, <1>7, <1>8, <1>9
<1> QED BY <1>1, <1>10

LEMMA PromptStep ==
    ASSUME prompt
    PROVE  Editor!Done
<1>1. pc = "prompt" /\ pc' = "edit" /\ cmd_idx' = 0 /\ ran' = <<>>
  BY DEF prompt
<1>2. line = <<>>
  BY <1>1 DEF line
<1>3. line' = [k \in 1..0 |-> cmd_buf'[k - 1]]
  BY <1>1 DEF line
<1>4. line' = <<>>
  BY <1>3
<1> QED BY <1>1, <1>2, <1>4 DEF Editor!Done

LEMMA RunStep ==
    ASSUME Inv, command_run
    PROVE  Editor!Enter
<1>1. pc = "run" /\ pc' = "prompt" /\ ran' = argv
  BY DEF command_run
<1>2. line = Line
  BY <1>1 DEF line, Line
<1>3. line' = <<>>
  BY <1>1 DEF line
<1>4. argv = Editor!Words(Line)
  BY WordsOfLine DEF Inv, Typed
<1> QED BY <1>1, <1>2, <1>3, <1>4 DEF Editor!Enter

\* The shell implements LineEditor: for every size of the line and of argv, the
\* words that a command is called with are those of the line as it was edited, no
\* character of one that was erased and none of an earlier line (kernel.c and
\* command_run, which cuts the line in place).
THEOREM EditorImplemented == Spec => ImplementsEditor
<1>1. Init => Editor!Init
  <2> SUFFICES ASSUME Init PROVE Editor!Init
    OBVIOUS
  <2>1. pc = "prompt" /\ ran = <<>>
    BY DEF Init
  <2>2. line = <<>>
    BY <2>1 DEF line
  <2> QED BY <2>1, <2>2 DEF Editor!Init
<1>2. Inv /\ Inv' /\ Written /\ [Next]_vars => [Editor!Next]_<<line, ran>>
  <2> SUFFICES ASSUME Inv, Inv', Written, [Next]_vars
               PROVE  Editor!Next \/ UNCHANGED <<line, ran>>
    OBVIOUS
  <2>1. CASE prompt
    BY <2>1, PromptStep DEF Editor!Next
  <2>2. CASE command_run
    BY <2>2, RunStep DEF Editor!Next
  <2>3. ASSUME NEW c \in Chars, getc(c) PROVE Editor!Next \/ UNCHANGED <<line, ran>>
    <3>1. CASE new_line
      BY <3>1, NewLineStep
    <3>2. CASE erase
      BY <3>2, EraseStep DEF Editor!Next
    <3>3. CASE c \notin {NEWLINE, BACKSPACE, DEL} /\ insert(c)
      BY <3>3, InsertStep DEF Editor!Next
    <3> QED BY <2>3, <3>1, <3>2, <3>3 DEF getc
  <2>4. CASE UNCHANGED vars
    <3>1. UNCHANGED <<pc, cmd_buf, cmd_idx, ran>>
      BY <2>4 DEF vars
    <3>2. line' = line
      BY <3>1 DEF line, TextAt
    <3> QED BY <3>1, <3>2
  <2> QED BY <2>1, <2>2, <2>3, <2>4 DEF Next
<1>3. Init => Written
  BY DEF Init, Written
<1> QED BY <1>1, <1>2, <1>3, InitInv, NextInv, WrittenNext, PTL
        DEF Spec, ImplementsEditor, Editor!Spec

=============================================================================
