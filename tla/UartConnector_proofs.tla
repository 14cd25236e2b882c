------------------------ MODULE UartConnector_proofs ------------------------
(* Theorems about UartConnector for every set of threads, configuration    *)
(* and number of failures.                                                 *)
EXTENDS UartConnector, SequenceTheorems, TLAPS

(* Sequences of operations: one of A is in s; every element is of A; the   *)
(* ones of A come before those of B; every one of A is followed by one of  *)
(* B, or preceded by one.                                                  *)
Some(s, A)        == \E i \in DOMAIN s : s[i] \in A
Only(s, A)        == \A i \in DOMAIN s : s[i] \in A
Apart(s, A, B)    == \A i, j \in DOMAIN s : s[i] \in A /\ s[j] \in B => i < j
Followed(s, A, B) == \A i \in DOMAIN s : s[i] \in A =>
                       \E j \in DOMAIN s : i < j /\ s[j] \in B
Preceded(s, A, B) == \A i \in DOMAIN s : s[i] \in A =>
                       \E j \in DOMAIN s : j < i /\ s[j] \in B

(* The first element and the rest. *)
LEMMA FirstAndRest ==
  ASSUME NEW S, NEW s \in Seq(S), s # <<>>
  PROVE  /\ Tail(s) \in Seq(S) /\ Head(s) = s[1] /\ Head(s) \in S
         /\ 1 \in DOMAIN s
         /\ \A i \in DOMAIN Tail(s) : i + 1 \in DOMAIN s /\ Tail(s)[i] = s[i + 1]
         /\ \A i \in DOMAIN s : i = 1 \/ (i - 1 \in DOMAIN Tail(s) /\ s[i] = Tail(s)[i - 1])
         /\ DOMAIN s \subseteq Nat
  <1>1. Len(s) \in Nat \ {0} /\ DOMAIN s = 1..Len(s)
    BY EmptySeq, LenProperties
  <1>2. /\ Head(s) \in S /\ Tail(s) \in Seq(S)
        /\ Len(Tail(s)) = Len(s) - 1
        /\ \A i \in 1..Len(Tail(s)) : Tail(s)[i] = s[i + 1]
    BY HeadTailProperties
  <1>3. DOMAIN Tail(s) = 1..Len(Tail(s))
    BY <1>2, LenProperties
  <1>4. Head(s) = s[1]
    OBVIOUS
  <1>5. QED
    BY <1>1, <1>2, <1>3, <1>4

(* What holds of a call holds of what is left of it after one operation. *)
LEMMA OfRest ==
  ASSUME NEW S, NEW s \in Seq(S), s # <<>>, NEW A, NEW B
  PROVE  /\ Some(s, A) <=> Head(s) \in A \/ Some(Tail(s), A)
         /\ Only(s, A) => Head(s) \in A /\ Only(Tail(s), A)
         /\ Apart(s, A, B) => /\ Apart(Tail(s), A, B)
                              /\ Head(s) \in B => ~Some(Tail(s), A)
         /\ Followed(s, A, B) => /\ Followed(Tail(s), A, B)
                                 /\ Head(s) \in A => Some(Tail(s), B)
         /\ Preceded(s, A, B) => /\ Head(s) \notin A
                                 /\ Head(s) \in B \/ Preceded(Tail(s), A, B)
  <1> DEFINE r == Tail(s)
  <1>1. /\ Head(s) = s[1] /\ 1 \in DOMAIN s /\ DOMAIN s \subseteq Nat
        /\ \A i \in DOMAIN r : i + 1 \in DOMAIN s /\ r[i] = s[i + 1]
        /\ \A i \in DOMAIN s : i = 1 \/ (i - 1 \in DOMAIN r /\ s[i] = r[i - 1])
        /\ r \in Seq(S)
    BY FirstAndRest
  <1>2. DOMAIN r \subseteq Nat \ {0}
    BY <1>1, LenProperties
  <1> HIDE DEF r
  <1>3. Some(s, A) <=> Head(s) \in A \/ Some(r, A)
    BY <1>1 DEF Some
  <1>4. Only(s, A) => Head(s) \in A /\ Only(r, A)
    BY <1>1 DEF Only
  <1>5. ASSUME Apart(s, A, B)
        PROVE  Apart(r, A, B) /\ (Head(s) \in B => ~Some(r, A))
    <2>1. ASSUME NEW i \in DOMAIN r, NEW j \in DOMAIN r, r[i] \in A, r[j] \in B
          PROVE  i < j
      <3>1. i + 1 < j + 1
        BY <1>1, <1>5, <2>1 DEF Apart
      <3>2. QED
        BY <1>2, <3>1
    <2>2. ASSUME NEW i \in DOMAIN r, r[i] \in A, Head(s) \in B
          PROVE  FALSE
      <3>1. i + 1 < 1
        BY <1>1, <1>5, <2>2 DEF Apart
      <3>2. QED
        BY <1>2, <3>1
    <2>3. QED
      BY <2>1, <2>2 DEF Apart, Some
  <1>6. ASSUME Followed(s, A, B)
        PROVE  Followed(r, A, B) /\ (Head(s) \in A => Some(r, B))
    <2>1. ASSUME NEW i \in DOMAIN s, s[i] \in A
          PROVE  \E j \in DOMAIN r : i - 1 < j /\ r[j] \in B
      <3>1. PICK k \in DOMAIN s : i < k /\ s[k] \in B
        BY <1>6, <2>1 DEF Followed
      <3>2. i \in Nat /\ k \in Nat /\ i # 0
        BY <1>1, <1>2
      <3>3. k # 1 /\ i - 1 < k - 1
        BY <3>1, <3>2
      <3>4. QED
        BY <1>1, <3>1, <3>3
    <2>2. ASSUME NEW i \in DOMAIN r, r[i] \in A
          PROVE  \E j \in DOMAIN r : i < j /\ r[j] \in B
      <3>1. \E j \in DOMAIN r : (i + 1) - 1 < j /\ r[j] \in B
        BY <1>1, <2>1, <2>2
      <3>2. (i + 1) - 1 = i
        BY <1>2
      <3>3. QED
        BY <3>1, <3>2
    <2>3. QED
      BY <1>1, <2>1, <2>2 DEF Followed, Some
  <1>7. ASSUME Preceded(s, A, B)
        PROVE  Head(s) \notin A /\ (Head(s) \in B \/ Preceded(r, A, B))
    <2>1. Head(s) \notin A
      <3>1. ASSUME s[1] \in A PROVE FALSE
        <4>1. PICK j \in DOMAIN s : j < 1 /\ s[j] \in B
          BY <1>1, <1>7, <3>1 DEF Preceded
        <4>2. QED
          BY <1>1, <1>2, <4>1
      <3>2. QED
        BY <1>1, <3>1
    <2>2. ASSUME Head(s) \notin B, NEW i \in DOMAIN r, r[i] \in A
          PROVE  \E j \in DOMAIN r : j < i /\ r[j] \in B
      <3>1. PICK k \in DOMAIN s : k < i + 1 /\ s[k] \in B
        BY <1>1, <1>7, <2>2 DEF Preceded
      <3>2. k - 1 \in DOMAIN r /\ r[k - 1] \in B
        BY <1>1, <2>2, <3>1
      <3>3. k - 1 < i
        BY <1>1, <1>2, <3>1
      <3>4. QED
        BY <3>2, <3>3
    <2>3. QED
      BY <2>1, <2>2 DEF Preceded
  <1>8. QED
    BY <1>3, <1>4, <1>5, <1>6, <1>7 DEF r

(* The elements of s \o r are those of s and then those of r. *)
LEMMA ConcatElements ==
  ASSUME NEW S, NEW s \in Seq(S), NEW r \in Seq(S)
  PROVE  /\ s \o r \in Seq(S)
         /\ Len(s) \in Nat /\ DOMAIN s = 1..Len(s)
         /\ Len(r) \in Nat /\ DOMAIN r = 1..Len(r)
         /\ DOMAIN (s \o r) = 1..(Len(s) + Len(r))
         /\ \A i \in DOMAIN s : i \in DOMAIN (s \o r) /\ (s \o r)[i] = s[i]
         /\ \A i \in DOMAIN r : /\ Len(s) + i \in DOMAIN (s \o r)
                                /\ (s \o r)[Len(s) + i] = r[i]
         /\ \A i \in DOMAIN (s \o r) :
              \/ i \in DOMAIN s
              \/ i > Len(s) /\ i - Len(s) \in DOMAIN r /\ (s \o r)[i] = r[i - Len(s)]
  <1>1. /\ Len(s) \in Nat /\ DOMAIN s = 1..Len(s)
        /\ Len(r) \in Nat /\ DOMAIN r = 1..Len(r)
    BY LenProperties
  <1>2. /\ s \o r \in Seq(S)
        /\ Len(s \o r) = Len(s) + Len(r)
        /\ \A i \in 1..Len(s) + Len(r) :
             (s \o r)[i] = IF i <= Len(s) THEN s[i] ELSE r[i - Len(s)]
    BY ConcatProperties
  <1>3. DOMAIN (s \o r) = 1..Len(s) + Len(r)
    BY <1>2, LenProperties
  <1>4. QED
    BY <1>1, <1>2, <1>3

(* What holds of a call that consists of two parts. *)
LEMMA OfParts ==
  ASSUME NEW S, NEW s \in Seq(S), NEW r \in Seq(S), NEW A, NEW B
  PROVE  /\ Some(s \o r, A) <=> Some(s, A) \/ Some(r, A)
         /\ Only(s \o r, A) <=> Only(s, A) /\ Only(r, A)
         /\ Apart(s, A, B) /\ Apart(r, A, B) /\ (~Some(s, B) \/ ~Some(r, A))
              => Apart(s \o r, A, B)
         /\ (Followed(s, A, B) \/ Some(r, B)) /\ Followed(r, A, B)
              => Followed(s \o r, A, B)
         /\ Preceded(s, A, B) /\ (Preceded(r, A, B) \/ Some(s, B))
              => Preceded(s \o r, A, B)
  <1> DEFINE u == s \o r
             n == Len(s)
             m == Len(r)
  <1>1. /\ n \in Nat /\ m \in Nat
        /\ DOMAIN s = 1..n /\ DOMAIN r = 1..m /\ DOMAIN u = 1..(n + m)
        /\ \A i \in 1..n : u[i] = s[i]
        /\ \A i \in 1..m : u[n + i] = r[i]
        /\ \A i \in 1..(n + m) :
             i \in 1..n \/ (i > n /\ i - n \in 1..m /\ u[i] = r[i - n])
    BY ConcatElements
  <1> HIDE DEF u, n, m
  <1>0. ASSUME NEW i \in 1..(n + m), i > n
         PROVE  i \in Nat /\ i - n \in 1..m /\ u[i] = r[i - n]
    BY <1>1, <1>0
  <1>2. Some(u, A) <=> Some(s, A) \/ Some(r, A)
    BY <1>1 DEF Some
  <1>3. Only(u, A) <=> Only(s, A) /\ Only(r, A)
    <2>1. Only(s, A) /\ Only(r, A) => Only(u, A)
      BY <1>1 DEF Only
    <2>2. ASSUME Only(u, A), NEW i \in 1..n PROVE s[i] \in A
      <3>1. i \in 1..(n + m)
        BY <1>1
      <3>2. QED
        BY <1>1, <2>2, <3>1 DEF Only
    <2>3. ASSUME Only(u, A), NEW i \in 1..m PROVE r[i] \in A
      <3>1. n + i \in 1..(n + m)
        BY <1>1
      <3>2. QED
        BY <1>1, <2>3, <3>1 DEF Only
    <2>4. QED
      BY <1>1, <2>1, <2>2, <2>3 DEF Only
  <1>4. ASSUME Apart(s, A, B), Apart(r, A, B), ~Some(s, B) \/ ~Some(r, A)
        PROVE  Apart(u, A, B)
    <2>1. SUFFICES ASSUME NEW i \in 1..(n + m), NEW j \in 1..(n + m),
                          u[i] \in A, u[j] \in B
                   PROVE  i < j
      BY <1>1 DEF Apart
    <2>2. CASE i \in 1..n /\ j \in 1..n
      BY <1>1, <1>4, <2>1, <2>2 DEF Apart
    <2>3. CASE i > n /\ j > n
      <3>0. /\ i - n \in 1..m /\ r[i - n] \in A
            /\ j - n \in 1..m /\ r[j - n] \in B
        BY <1>0, <2>1, <2>3
      <3>1. i - n < j - n
        BY <1>1, <1>4, <3>0 DEF Apart
      <3>2. QED
        BY <1>1, <3>1
    <2>4. CASE i > n /\ j \in 1..n
      <3>1. Some(r, A)
        BY <1>1, <1>0, <2>1, <2>4 DEF Some
      <3>2. Some(s, B)
        BY <1>1, <2>1, <2>4 DEF Some
      <3>3. QED
        BY <1>4, <3>1, <3>2
    <2>5. QED
      BY <1>1, <2>2, <2>3, <2>4
  <1>5. ASSUME Followed(s, A, B) \/ Some(r, B), Followed(r, A, B)
        PROVE  Followed(u, A, B)
    <2>1. SUFFICES ASSUME NEW i \in 1..(n + m), u[i] \in A
                   PROVE  \E j \in 1..(n + m) : i < j /\ u[j] \in B
      BY <1>1 DEF Followed
    <2>2. CASE i \in 1..n /\ Some(r, B)
      <3>1. PICK j \in 1..m : r[j] \in B
        BY <1>1, <2>2 DEF Some
      <3>2. n + j \in 1..(n + m) /\ i < n + j /\ u[n + j] \in B
        BY <1>1, <2>2, <3>1
      <3>3. QED
        BY <3>2
    <2>3. CASE i \in 1..n /\ Followed(s, A, B)
      BY <1>1, <2>1, <2>3 DEF Followed
    <2>4. CASE i > n
      <3>0. i - n \in 1..m /\ r[i - n] \in A
        BY <1>0, <2>1, <2>4
      <3>1. PICK j \in 1..m : i - n < j /\ r[j] \in B
        BY <1>1, <1>5, <3>0 DEF Followed
      <3>2. n + j \in 1..(n + m) /\ i < n + j /\ u[n + j] \in B
        BY <1>1, <2>4, <3>1
      <3>3. QED
        BY <3>2
    <2>5. QED
      BY <1>1, <1>5, <2>2, <2>3, <2>4
  <1>6. ASSUME Preceded(s, A, B), Preceded(r, A, B) \/ Some(s, B)
        PROVE  Preceded(u, A, B)
    <2>1. SUFFICES ASSUME NEW i \in 1..(n + m), u[i] \in A
                   PROVE  \E j \in 1..(n + m) : j < i /\ u[j] \in B
      BY <1>1 DEF Preceded
    <2>2. CASE i \in 1..n
      <3>1. PICK j \in 1..n : j < i /\ s[j] \in B
        BY <1>1, <1>6, <2>1, <2>2 DEF Preceded
      <3>2. j \in 1..(n + m) /\ u[j] \in B
        BY <1>1, <3>1
      <3>3. QED
        BY <3>1, <3>2
    <2>3. CASE i > n /\ Some(s, B)
      <3>1. PICK j \in 1..n : s[j] \in B
        BY <1>1, <2>3 DEF Some
      <3>2. j \in 1..(n + m) /\ j < i /\ u[j] \in B
        BY <1>1, <2>3, <3>1
      <3>3. QED
        BY <3>2
    <2>4. CASE i > n /\ Preceded(r, A, B)
      <3>0. i - n \in 1..m /\ r[i - n] \in A
        BY <1>0, <2>1, <2>4
      <3>1. PICK j \in 1..m : j < i - n /\ r[j] \in B
        BY <1>1, <2>4, <3>0 DEF Preceded
      <3>2. u[n + j] \in B
        BY <1>1, <3>1
      <3>3. n + j \in 1..(n + m) /\ n + j < i
        BY <1>1, <3>1
      <3>4. QED
        BY <3>2, <3>3
    <2>5. QED
      BY <1>1, <1>6, <2>2, <2>3, <2>4
  <1>7. QED
    BY <1>2, <1>3, <1>4, <1>5, <1>6 DEF u
-----------------------------------------------------------------------------
(* Classes of operations: on a line, its initialisation and its setting,   *)
(* and what drives it high or low.                                         *)
On(l)    == {o \in Operations : o.line = l}
Inits(l) == {o \in On(l) : o.op = "init"}
Sets(l)  == {o \in On(l) : o.op = "set"}
High(l)  == {o \in On(l) : o.value = TRUE}
Low(l)   == {o \in On(l) : o.value = FALSE}

(* The lines by which the configuration ls switches the buses. *)
SwitchSet(ls) == IF "bus" \in ls THEN {"bus"} ELSE ls \cap {"i2c", "spi", "uart"}

(* The operations of the switch, and the classes they belong to. *)
LEMMA Classes ==
  ASSUME NEW l \in Lines, NEW v \in BOOLEAN
  PROVE  /\ InitOutput(l, v) \in Inits(l)
         /\ SetValue(l, v) \in Sets(l)
         /\ v => InitOutput(l, v) \in High(l) /\ SetValue(l, v) \in High(l)
         /\ ~v => InitOutput(l, v) \in Low(l) /\ SetValue(l, v) \in Low(l)
         /\ OpenPort \in On("none")
  <1>1. InitOutput(l, v) \in Operations /\ SetValue(l, v) \in Operations
    BY DEF InitOutput, SetValue, Operations
  <1>2. OpenPort \in Operations
    BY DEF OpenPort, Operations
  <1>3. /\ InitOutput(l, v).line = l /\ SetValue(l, v).line = l
        /\ InitOutput(l, v).op = "init" /\ SetValue(l, v).op = "set"
        /\ OpenPort.line = "none"
    BY DEF InitOutput, SetValue, OpenPort
  <1>4. InitOutput(l, v).value = v /\ SetValue(l, v).value = v
    BY Zenon DEF InitOutput, SetValue
  <1>5. v => v = TRUE
    OBVIOUS
  <1>6. ~v => v = FALSE
    OBVIOUS
  <1>7. QED
    BY <1>1, <1>2, <1>3, <1>4, <1>5, <1>6, Zenon DEF On, Inits, Sets, High, Low

(* The switch uses all its lines, and no other line. *)
LEMMA SwitchesOf ==
  ASSUME NEW ls \in SUBSET Lines
  PROVE  /\ Switches(ls) \in Seq(SwitchSet(ls))
         /\ \A l \in SwitchSet(ls) : Some(Switches(ls), {l})
  <1> DEFINE S == {"i2c", "spi", "uart"}
             Of(b) == Configured(ls, b)
  <1>1. CASE "bus" \in ls
    BY <1>1 DEF Switches, SwitchSet, Some
  <1>2. CASE "bus" \notin ls
    <2>1. SwitchSet(ls) = ls \cap S
      BY <1>2 DEF SwitchSet
    <2>2. ASSUME NEW b \in S
          PROVE  /\ Of(b) \in Seq(ls \cap S)
                 /\ b \in ls => Some(Of(b), {b})
      BY DEF Configured, Some
    <2>3. Of("i2c") \o Of("spi") \in Seq(ls \cap S)
      BY <2>2, ConcatProperties
    <2>4. Switches(ls) = (Of("i2c") \o Of("spi")) \o Of("uart")
      BY <1>2 DEF Switches
    <2>5. Switches(ls) \in Seq(ls \cap S)
      BY <2>2, <2>3, <2>4, ConcatProperties
    <2> HIDE DEF Of
    <2>6. ASSUME NEW l \in ls \cap S PROVE Some(Switches(ls), {l})
      <3>1. Some(Of("i2c") \o Of("spi"), {l}) <=>
              Some(Of("i2c"), {l}) \/ Some(Of("spi"), {l})
        BY <2>2, OfParts
      <3>2. \A a, b \in Seq(ls \cap S) :
              Some(a \o b, {l}) <=> Some(a, {l}) \/ Some(b, {l})
        BY OfParts
      <3>4. Some(Switches(ls), {l}) <=>
              Some(Of("i2c") \o Of("spi"), {l}) \/ Some(Of("uart"), {l})
        <4>1. Of("uart") \in Seq(ls \cap S)
          BY <2>2
        <4>2. Some((Of("i2c") \o Of("spi")) \o Of("uart"), {l}) <=>
                Some(Of("i2c") \o Of("spi"), {l}) \/ Some(Of("uart"), {l})
          BY <2>3, <3>2, <4>1, Zenon
        <4>3. QED
          BY <2>4, <4>2, Zenon
      <3>3. QED
        BY <2>2, <3>1, <3>4
    <2>7. QED
      BY <2>1, <2>5, <2>6
  <1>3. QED
    BY <1>1, <1>2

(* Its lines are lines of the configuration. *)
LEMMA SwitchElements ==
  ASSUME NEW ls \in SUBSET Lines
  PROVE  /\ Len(Switches(ls)) \in Nat
         /\ DOMAIN Switches(ls) = 1..Len(Switches(ls))
         /\ \A i \in DOMAIN Switches(ls) : Switches(ls)[i] \in SwitchSet(ls)
         /\ SwitchSet(ls) \subseteq ls \cap SwitchLines
         /\ SwitchSet(ls) \subseteq Lines
  <1>1. Switches(ls) \in Seq(SwitchSet(ls))
    BY SwitchesOf
  <1>2. \A s \in Seq(SwitchSet(ls)) :
          Len(s) \in Nat /\ DOMAIN s = 1..Len(s) /\ \A i \in DOMAIN s : s[i] \in SwitchSet(ls)
    BY LenProperties, ElementOfSeq
  <1>3. SwitchSet(ls) \subseteq ls \cap SwitchLines
    BY DEF SwitchSet, SwitchLines
  <1>4. QED
    BY <1>1, <1>2, <1>3 DEF Lines

(* init(): every line of the switch is initialised, to low. *)
LEMMA InitSwitchOf ==
  ASSUME NEW ls \in SUBSET Lines
  PROVE  /\ InitSwitch(ls) \in Seq(Operations)
         /\ Only(InitSwitch(ls), UNION {Inits(l) \cap Low(l) : l \in SwitchSet(ls)})
         /\ \A l \in SwitchSet(ls) : Some(InitSwitch(ls), Inits(l))
  <1> DEFINE s == Switches(ls)
             r == InitSwitch(ls)
  <1>1. /\ Len(s) \in Nat /\ DOMAIN s = 1..Len(s)
        /\ \A i \in DOMAIN s : s[i] \in SwitchSet(ls)
        /\ SwitchSet(ls) \subseteq Lines
    BY SwitchElements
  <1>2. /\ DOMAIN r = DOMAIN s
        /\ \A i \in DOMAIN s : r[i] = InitOutput(s[i], FALSE)
    BY Zenon DEF InitSwitch
  <1>3. \A i \in DOMAIN s : r[i] \in Inits(s[i]) \cap Low(s[i])
    BY <1>1, <1>2, Classes
  <1>4. \A i \in 1..Len(s) : r[i] \in Operations
    BY <1>1, <1>3 DEF Inits, On
  <1>5. r = [i \in 1..Len(s) |-> r[i]]
    BY <1>1 DEF InitSwitch
  <1> HIDE DEF s, r
  <1>6. r \in Seq(Operations)
    BY <1>1, <1>4, <1>5
  <1>7. Only(r, UNION {Inits(l) \cap Low(l) : l \in SwitchSet(ls)})
    BY <1>1, <1>2, <1>3 DEF Only
  <1>8. ASSUME NEW l \in SwitchSet(ls) PROVE Some(r, Inits(l))
    <2>1. PICK i \in DOMAIN s : s[i] = l
      BY SwitchesOf DEF Some, s
    <2>2. QED
      BY <1>2, <1>3, <2>1 DEF Some
  <1>9. QED
    BY <1>6, <1>7, <1>8 DEF r

(* The line that a toggle enables, of those the configuration has. *)
Target(ls, bus) == IF "bus" \in ls THEN "bus" ELSE bus

(* toggle(): every line of the switch is set, and only that of an enabled  *)
(* bus to high.                                                            *)
LEMMA ToggleOf ==
  ASSUME NEW ls \in SUBSET Lines, NEW enabled \in SUBSET {"i2c", "spi", "uart"}
  PROVE  /\ Toggle(ls, enabled) \in Seq(Operations)
         /\ Only(Toggle(ls, enabled), UNION {Sets(l) : l \in SwitchSet(ls)})
         /\ \A l \in SwitchSet(ls) : Some(Toggle(ls, enabled), On(l))
         /\ \A l \in Lines :
              Some(Toggle(ls, enabled), High(l)) =>
                \E bus \in enabled : l = Target(ls, bus)
  <1> DEFINE s == Switches(ls)
             r == Toggle(ls, enabled)
             v(l) == IF l = "bus" THEN enabled # {} ELSE l \in enabled
  <1>1. /\ Len(s) \in Nat /\ DOMAIN s = 1..Len(s)
        /\ \A i \in DOMAIN s : s[i] \in SwitchSet(ls)
        /\ SwitchSet(ls) \subseteq Lines
    BY SwitchElements
  <1>2. /\ DOMAIN r = DOMAIN s
        /\ \A i \in DOMAIN s : r[i] = SetValue(s[i], v(s[i]))
    BY Zenon DEF Toggle
  <1>3. ASSUME NEW l PROVE v(l) \in BOOLEAN
    <2>1. (enabled # {}) \in BOOLEAN /\ (l \in enabled) \in BOOLEAN
      OBVIOUS
    <2>2. CASE l = "bus"
      BY <2>1, <2>2, Zenon
    <2>3. CASE l # "bus"
      BY <2>1, <2>3, Zenon
    <2>4. QED
      BY <2>2, <2>3, Zenon
  <1> HIDE DEF v
  <1>4. \A i \in DOMAIN s : r[i] \in Sets(s[i])
    BY <1>1, <1>2, <1>3, Classes
  <1>5. \A i \in 1..Len(s) : r[i] \in Operations
    BY <1>1, <1>4 DEF Sets, On
  <1>6. r = [i \in 1..Len(s) |-> r[i]]
    BY <1>1 DEF Toggle
  <1> HIDE DEF s, r
  <1>7. r \in Seq(Operations)
    BY <1>1, <1>5, <1>6
  <1>8. Only(r, UNION {Sets(l) : l \in SwitchSet(ls)})
    BY <1>1, <1>2, <1>4 DEF Only
  <1>9. ASSUME NEW l \in SwitchSet(ls) PROVE Some(r, On(l))
    <2>1. PICK i \in DOMAIN s : s[i] = l
      BY SwitchesOf DEF Some, s
    <2>2. QED
      BY <1>2, <1>4, <2>1 DEF Some, Sets
  <1>10. ASSUME NEW l \in Lines, Some(r, High(l))
         PROVE  \E bus \in enabled : l = Target(ls, bus)
    <2>1. PICK i \in DOMAIN s : r[i] \in High(l)
      BY <1>2, <1>10 DEF Some
    <2>2. s[i] = l
      BY <1>4, <2>1 DEF Sets, High, On
    <2>3. v(l) = TRUE
      <3>1. r[i].value = TRUE
        BY <2>1 DEF High
      <3>2. SetValue(l, v(l)).value = v(l)
        BY Zenon DEF SetValue
      <3>3. QED
        BY <1>2, <2>2, <3>1, <3>2, Zenon
    <2>4. l \in SwitchSet(ls)
      BY <1>1, <2>2
    <2>5. CASE "bus" \in ls
      BY <2>3, <2>4, <2>5 DEF v, SwitchSet, Target
    <2>6. CASE "bus" \notin ls
      BY <2>3, <2>4, <2>6 DEF v, SwitchSet, Target
    <2>7. QED
      BY <2>5, <2>6
  <1>11. QED
    BY <1>7, <1>8, <1>9, <1>10 DEF r
-----------------------------------------------------------------------------
(* The lines that the configured object drives, what a call does with      *)
(* them, and the operations that enable a bus.                             *)
Used     == SwitchSet(lines) \cup (lines \cap {"power", "pgm"})
Work     == {OpenPort} \cup UNION {Inits(l) \cup Sets(l) : l \in Used}
Enabling == UNION {High(l) : l \in SwitchLines}

(* Only the owner works on other lines than "power", and in a connector    *)
(* that is constructed not even he.                                        *)
WorkIsConfined ==
  /\ \A t \in Threads : Only(todo[t], Work)
  /\ \A t \in Threads :
       t # Owner \/ (object = "connector" /\ stage = "alive") =>
         Only(todo[t], Sets("power"))
  /\ \A l \in Lines : level[l] # "unset" => l \in Used /\ stage # "new"
  /\ object = "switcher" => lines \subseteq SwitchLines
  /\ object = "switcher" /\ stage = "constructing" =>
       todo[Owner] = <<>> /\ \A l \in Lines : level[l] = "unset"

(* Every bus that is enabled is going to be disabled. *)
BusesGoOff ==
  \A l \in SwitchLines :
    /\ stage \in {"closing", "unwinding"} =>
         /\ ~Some(todo[Owner], High(l))
         /\ level[l] = "high" => Some(todo[Owner], On(l))
    /\ stage = "gone" => level[l] # "high"

(* The module has power, or is going to have it, and then the bus. *)
PowerComes ==
  /\ object = "connector" /\ "power" \in lines
  /\ stage = "constructing" \/ (stage = "alive" /\ failures = 0)
  => /\ \A t \in Threads : Followed(todo[t], Low("power"), High("power"))
     /\ \/ level["power"] = "high"
        \/ \E t \in Threads : Some(todo[t], High("power"))

PowerComesFirst ==
  object = "connector" /\ stage = "constructing" =>
    /\ Apart(todo[Owner], On("power"), Enabling)
    /\ EnabledBuses # {} => ~Some(todo[Owner], On("power"))

(* A line is initialised before it is set. *)
Initialised(l) ==
  \/ level[l] # "unset"
  \/ Some(todo[Owner], Inits(l)) /\ Preceded(todo[Owner], Sets(l), Inits(l))

LinesAreInitialised ==
  /\ object = "connector" =>
       \A l \in Used :
         /\ stage = "constructing" => Initialised(l)
         /\ stage \in {"alive", "closing"} => level[l] # "unset"
  /\ object = "switcher" /\ stage = "alive" /\ failures = 0 =>
       \/ \A l \in Lines : level[l] = "unset" /\ ~Some(todo[Owner], Inits(l))
       \/ \A l \in Used : Initialised(l)

FailuresAreCounted ==
  /\ stage \in {"new", "constructing"} => failures = 0
  /\ object = "connector" /\ stage \in {"unwinding", "terminated"} => failures > 0

(* All buses but one are off, or are going to be switched off. *)
OneBus ==
  stage \in {"constructing", "alive"} /\ failures = 0 =>
    \E bus \in SwitchLines : \A l \in SwitchLines \ {bus} :
      /\ ~Some(todo[Owner], High(l))
      /\ level[l] = "high" => Some(todo[Owner], On(l))

(* The inductive invariant. *)
Consistent ==
  /\ TypeOK /\ WorkIsConfined /\ FailuresAreCounted
  /\ BusesGoOff /\ PowerComes /\ PowerComesFirst /\ LinesAreInitialised /\ OneBus

(* The classes of different lines have nothing in common. *)
LEMMA ClassesAreDisjoint ==
  ASSUME NEW k, NEW l
  PROVE  /\ k # l => On(k) \cap On(l) = {}
         /\ Inits(k) \cap Sets(l) = {} /\ Low(k) \cap High(l) = {}
         /\ Inits(l) \subseteq On(l) /\ Sets(l) \subseteq On(l)
         /\ High(l) \subseteq On(l) /\ Low(l) \subseteq On(l)
         /\ On(l) \subseteq Operations
  <1>1. TRUE # FALSE
    OBVIOUS
  <1>2. Low(k) \cap High(l) = {}
    BY <1>1, Zenon DEF High, Low
  <1>3. QED
    BY <1>2 DEF On, Inits, Sets, High, Low

(* The lines that the object drives are lines of its configuration. *)
LEMMA UsedLines ==
  ASSUME lines \subseteq Lines
  PROVE  /\ Used \subseteq lines /\ Used \subseteq Lines
         /\ SwitchSet(lines) = Used \cap SwitchLines
         /\ "none" \notin Lines
  BY SwitchElements DEF Used, Lines, SwitchLines

(* Two operations, the first of which drives a line low. *)
LEMMA Pulse ==
  ASSUME NEW o \in Operations, NEW p \in Operations, NEW A, NEW B
  PROVE  /\ <<o, p>> \in Seq(Operations)
         /\ Only(<<o, p>>, A) <=> o \in A /\ p \in A
         /\ Some(<<o, p>>, A) <=> o \in A \/ p \in A
         /\ p \in B /\ p \notin A => Followed(<<o, p>>, A, B)
  <1> DEFINE s == <<o, p>>
  <1>1. DOMAIN s = {1, 2} /\ s[1] = o /\ s[2] = p /\ s \in Seq(Operations)
    OBVIOUS
  <1> HIDE DEF s
  <1>2. QED
    BY <1>1 DEF Only, Some, Followed, s

(* One operation. *)
LEMMA Single ==
  ASSUME NEW o \in Operations, NEW A, NEW B
  PROVE  /\ <<o>> \in Seq(Operations)
         /\ Only(<<o>>, A) <=> o \in A
         /\ Some(<<o>>, A) <=> o \in A
         /\ o \notin A => Followed(<<o>>, A, B) /\ Preceded(<<o>>, A, B)
  <1> DEFINE s == <<o>>
  <1>1. DOMAIN s = {1} /\ s[1] = o /\ s \in Seq(Operations)
    OBVIOUS
  <1> HIDE DEF s
  <1>2. QED
    BY <1>1 DEF Only, Some, Followed, Preceded, s

(* Nothing to do. *)
LEMMA NoOperations ==
  ASSUME NEW A, NEW B
  PROVE  /\ <<>> \in Seq(Operations)
         /\ Only(<<>>, A) /\ ~Some(<<>>, A)
         /\ Apart(<<>>, A, B) /\ Followed(<<>>, A, B) /\ Preceded(<<>>, A, B)
  BY DEF Only, Some, Apart, Followed, Preceded

(* A call none of whose operations is in A, or in B, or whose operations   *)
(* are all in C.                                                           *)
LEMMA Without ==
  ASSUME NEW s, NEW A, NEW B, NEW C
  PROVE  /\ ~Some(s, A) => Followed(s, A, B) /\ Preceded(s, A, B)
         /\ ~Some(s, A) \/ ~Some(s, B) => Apart(s, A, B)
         /\ Only(s, C) /\ C \cap A = {} => ~Some(s, A)
         /\ Only(s, C) /\ C \subseteq A => Only(s, A)
         /\ Some(s, A) /\ A \subseteq C => Some(s, C)
  BY DEF Only, Some, Apart, Followed, Preceded
-----------------------------------------------------------------------------
(* The calls of the object. *)

(* resetTr() drives the power line low and high again. *)
LEMMA ResetOf ==
  ASSUME lines \subseteq Lines
  PROVE  /\ ResetTr \in Seq(Operations)
         /\ Only(ResetTr, Sets("power")) /\ Only(ResetTr, Work)
         /\ Followed(ResetTr, Low("power"), High("power"))
  <1> DEFINE off == SetValue("power", FALSE)
             on  == SetValue("power", TRUE)
  <1>1. "power" \in Lines
    BY DEF Lines
  <1>2. /\ off \in Sets("power") \cap Low("power")
        /\ on \in Sets("power") \cap High("power")
    BY <1>1, Classes
  <1>3. /\ off \in Operations /\ on \in Operations /\ on \notin Low("power")
    BY <1>2, ClassesAreDisjoint
  <1> HIDE DEF off, on
  <1>4. CASE "power" \in lines
    <2>1. ResetTr = <<off, on>>
      BY <1>4 DEF ResetTr, IfConfigured, off, on
    <2>2. Sets("power") \subseteq Work
      BY <1>4 DEF Work, Used
    <2>3. QED
      BY <1>2, <1>3, <2>1, <2>2, Pulse
  <1>5. CASE "power" \notin lines
    <2>1. ResetTr = <<>>
      BY <1>5 DEF ResetTr, IfConfigured
    <2>2. QED
      BY <2>1, NoOperations
  <1>6. QED
    BY <1>4, <1>5

(* The operation on a line that the configuration may not have. *)
LEMMA IfConfiguredOf ==
  ASSUME NEW l \in Lines, NEW o \in On(l), NEW A, NEW B
  PROVE  /\ IfConfigured(l, <<o>>) \in Seq(Operations)
         /\ Only(IfConfigured(l, <<o>>), {o})
         /\ Some(IfConfigured(l, <<o>>), A) <=> l \in lines /\ o \in A
         /\ o \in Work \/ l \notin lines => Only(IfConfigured(l, <<o>>), Work)
  <1>1. o \in Operations
    BY DEF On
  <1>2. CASE l \in lines
    BY <1>1, <1>2, Single DEF IfConfigured
  <1>3. CASE l \notin lines
    BY <1>3, NoOperations DEF IfConfigured
  <1>4. QED
    BY <1>2, <1>3

(* initGpio(), up to the reset: every line is initialised, none is set,    *)
(* the power is on and no bus.                                             *)
InitLines ==
  IfConfigured("pgm", <<InitOutput("pgm", FALSE)>>)
  \o IfConfigured("power", <<InitOutput("power", TRUE)>>)
  \o InitSwitch(lines)

(* What that part of the construction does. *)
LEMMA InitLinesOf ==
  ASSUME lines \subseteq Lines
  PROVE  /\ InitLines \in Seq(Operations)
         /\ Only(InitLines, Work)
         /\ \A l \in Used : Some(InitLines, Inits(l))
         /\ \A l \in Lines : ~Some(InitLines, Sets(l))
         /\ \A l \in SwitchLines : ~Some(InitLines, High(l))
         /\ ~Some(InitLines, Low("power"))
         /\ "power" \in lines => Some(InitLines, High("power"))
  <1> DEFINE a == InitOutput("pgm", FALSE)
             b == InitOutput("power", TRUE)
             P == IfConfigured("pgm", <<a>>)
             W == IfConfigured("power", <<b>>)
             S == InitSwitch(lines)
  <1>1. "pgm" \in Lines /\ "power" \in Lines /\ SwitchLines \subseteq Lines
    BY DEF Lines
  <1>2. /\ a \in Inits("pgm") \cap Low("pgm")
        /\ b \in Inits("power") \cap High("power")
    BY <1>1, Classes
  <1>3. a \in On("pgm") /\ b \in On("power")
    BY <1>2, ClassesAreDisjoint
  <1> HIDE DEF a, b
  <1>4. /\ P \in Seq(Operations)
        /\ \A A : Some(P, A) <=> "pgm" \in lines /\ a \in A
    BY <1>1, <1>3, IfConfiguredOf
  <1>5. /\ W \in Seq(Operations)
        /\ \A A : Some(W, A) <=> "power" \in lines /\ b \in A
    BY <1>1, <1>3, IfConfiguredOf
  <1>6. Only(P, Work) /\ Only(W, Work)
    <2>1. /\ "pgm" \in lines => a \in Work
          /\ "power" \in lines => b \in Work
      BY <1>2 DEF Work, Used
    <2>2. QED
      BY <1>1, <1>3, <2>1, IfConfiguredOf
  <1>7. /\ S \in Seq(Operations)
        /\ Only(S, UNION {Inits(l) \cap Low(l) : l \in SwitchSet(lines)})
        /\ \A l \in SwitchSet(lines) : Some(S, Inits(l))
    BY InitSwitchOf
  <1>8. Only(S, Work)
    <2>1. UNION {Inits(l) \cap Low(l) : l \in SwitchSet(lines)} \subseteq Work
      BY DEF Work, Used
    <2>2. QED
      BY <1>7, <2>1, Without
  <1> HIDE DEF P, W, S
  <1>9. /\ P \o W \in Seq(Operations)
        /\ \A A : Some(P \o W, A) <=> Some(P, A) \/ Some(W, A)
        /\ Only(P \o W, Work)
    BY <1>4, <1>5, <1>6, OfParts, ConcatProperties
  <1>10. /\ InitLines = (P \o W) \o S
         /\ (P \o W) \o S \in Seq(Operations)
         /\ \A A : Some((P \o W) \o S, A) <=> Some(P \o W, A) \/ Some(S, A)
         /\ Only((P \o W) \o S, Work)
    <2>1. InitLines = (P \o W) \o S
      BY Zenon DEF InitLines, P, W, S, a, b
    <2>2. QED
      BY <1>7, <1>8, <1>9, <2>1, OfParts, ConcatProperties
  <1>11. \A A : Some(InitLines, A) <=>
           \/ "pgm" \in lines /\ a \in A
           \/ "power" \in lines /\ b \in A
           \/ Some(S, A)
    BY <1>4, <1>5, <1>9, <1>10
  <1>12. ASSUME NEW A, \A l \in SwitchSet(lines) : Inits(l) \cap Low(l) \cap A = {}
         PROVE  ~Some(S, A)
    <2>1. (UNION {Inits(l) \cap Low(l) : l \in SwitchSet(lines)}) \cap A = {}
      BY <1>12
    <2>2. QED
      BY <1>7, <2>1, Without
  <1>13. ASSUME NEW l \in Used PROVE Some(InitLines, Inits(l))
    BY <1>2, <1>7, <1>11 DEF Used
  <1>14. ASSUME NEW l \in Lines PROVE ~Some(InitLines, Sets(l))
    <2>1. \A k : Inits(k) \cap Sets(l) = {}
      BY DEF Inits, Sets
    <2>2. ~Some(S, Sets(l)) /\ a \notin Sets(l) /\ b \notin Sets(l)
      BY <1>2, <1>12, <2>1
    <2>3. QED
      BY <1>11, <2>2
  <1>15. ASSUME NEW l \in SwitchLines PROVE ~Some(InitLines, High(l))
    <2>1. \A k : Low(k) \cap High(l) = {}
      BY ClassesAreDisjoint
    <2>2. ~Some(S, High(l)) /\ a \notin High(l)
      BY <1>2, <1>12, <2>1
    <2>3. b \notin High(l)
      BY <1>3, ClassesAreDisjoint DEF SwitchLines
    <2>4. QED
      BY <1>11, <2>2, <2>3
  <1>16. ~Some(InitLines, Low("power"))
    <2>1. \A k \in SwitchSet(lines) : Low(k) \cap Low("power") = {}
      BY ClassesAreDisjoint DEF SwitchSet
    <2>2. ~Some(S, Low("power"))
      BY <1>12, <2>1
    <2>3. a \notin Low("power") /\ b \notin Low("power")
      BY <1>2, <1>3, ClassesAreDisjoint
    <2>4. QED
      BY <1>11, <2>2, <2>3
  <1>17. "power" \in lines => Some(InitLines, High("power"))
    BY <1>2, <1>11
  <1>18. QED
    BY <1>10, <1>13, <1>14, <1>15, <1>16, <1>17
(* A toggle works on the lines of the switch only. *)
LEMMA ToggleIsWork ==
  ASSUME lines \subseteq Lines, NEW enabled \in SUBSET {"i2c", "spi", "uart"}
  PROVE  /\ Only(Toggle(lines, enabled), Work)
         /\ \A l \in {"power", "pgm"} : ~Some(Toggle(lines, enabled), On(l))
  <1> DEFINE T == Toggle(lines, enabled)
             C == UNION {Sets(l) : l \in SwitchSet(lines)}
  <1>1. Only(T, C)
    BY ToggleOf
  <1>2. C \subseteq Work
    BY DEF Work, Used
  <1>3. ASSUME NEW l \in {"power", "pgm"} PROVE C \cap On(l) = {}
    BY ClassesAreDisjoint DEF SwitchSet
  <1>4. QED
    BY <1>1, <1>2, <1>3, Without

(* The constructor initialises every line before it sets it, switches the  *)
(* power on again when it has switched it off, and enables no other bus    *)
(* than UART, after that.                                                  *)
LEMMA ConstructorOf ==
  ASSUME lines \subseteq Lines
  PROVE  /\ Constructor \in Seq(Operations)
         /\ Only(Constructor, Work)
         /\ \A l \in Used : /\ Some(Constructor, Inits(l))
                            /\ Preceded(Constructor, Sets(l), Inits(l))
         /\ Followed(Constructor, Low("power"), High("power"))
         /\ "power" \in lines => Some(Constructor, High("power"))
         /\ Apart(Constructor, On("power"), Enabling)
         /\ \A l \in SwitchLines :
              Some(Constructor, High(l)) => l = Target(lines, "uart")
  <1> DEFINE G == InitLines
             R == IF trModuleReset THEN ResetTr ELSE <<>>
             T == ToggleBus(lines, "uart", TRUE)
             O == <<OpenPort, OpenPort>>
             GR == G \o R
             GT == GR \o T
             all == UNION {On(l) : l \in Lines}
  <1>1. Constructor = GT \o O
    BY Zenon DEF Constructor, InitGpio, InitLines
  <1>2. T = Toggle(lines, {"uart"})
    BY DEF ToggleBus
  <1>3. /\ R \in Seq(Operations) /\ Only(R, Work)
        /\ Only(R, Sets("power"))
        /\ Followed(R, Low("power"), High("power"))
    <2>1. CASE R = ResetTr
      BY <2>1, ResetOf
    <2>2. CASE R = <<>>
      BY <2>2, NoOperations
    <2>3. QED
      BY <2>1, <2>2
  <1>4. /\ O \in Seq(Operations) /\ Only(O, Work)
        /\ \A l \in Lines : ~Some(O, On(l))
    <2>1. OpenPort \in Operations /\ OpenPort \in Work
      BY DEF OpenPort, Operations, Work
    <2>2. OpenPort.line \notin Lines
      BY DEF OpenPort, Lines, SwitchLines
    <2>3. \A l \in Lines : OpenPort \notin On(l)
      BY <2>2 DEF On
    <2>4. QED
      BY <2>1, <2>3, Pulse
  <1>5. /\ T \in Seq(Operations) /\ Only(T, Work)
        /\ ~Some(T, On("power"))
        /\ \A l \in Lines : Some(T, High(l)) => l = Target(lines, "uart")
    <2>1. {"uart"} \in SUBSET {"i2c", "spi", "uart"} /\ lines \in SUBSET Lines
      OBVIOUS
    <2>2. /\ Toggle(lines, {"uart"}) \in Seq(Operations)
          /\ Only(Toggle(lines, {"uart"}), Work)
          /\ ~Some(Toggle(lines, {"uart"}), On("power"))
      BY <2>1, ToggleOf, ToggleIsWork
    <2>3. ASSUME NEW l \in Lines, Some(Toggle(lines, {"uart"}), High(l))
          PROVE  l = Target(lines, "uart")
      <3>1. \E bus \in {"uart"} : l = Target(lines, bus)
        BY <2>1, <2>3, ToggleOf
      <3>2. QED
        BY <3>1
    <2> HIDE DEF T
    <2>4. QED
      BY <1>2, <2>2, <2>3
  <1>6. /\ G \in Seq(Operations) /\ Only(G, Work)
        /\ \A l \in Used : Some(G, Inits(l)) /\ ~Some(G, Sets(l))
        /\ \A l \in SwitchLines : ~Some(G, High(l))
        /\ ~Some(G, Low("power"))
        /\ "power" \in lines => Some(G, High("power"))
    BY InitLinesOf, UsedLines
  <1> HIDE DEF G, R, T, O
  <1>7. GR \in Seq(Operations)
    BY <1>3, <1>6, ConcatProperties
  <1>8. /\ \A A : Some(GR, A) <=> Some(G, A) \/ Some(R, A)
        /\ Only(GR, Work)
    <2>1. ASSUME NEW A
          PROVE  /\ Some(GR, A) <=> Some(G, A) \/ Some(R, A)
                 /\ Only(GR, A) <=> Only(G, A) /\ Only(R, A)
      BY <1>3, <1>6, OfParts
    <2>2. QED
      BY <1>3, <1>6, <2>1
  <1> HIDE DEF GR
  <1>9. GT \in Seq(Operations)
    BY <1>5, <1>7, ConcatProperties
  <1>10. /\ \A A : Some(GT, A) <=> Some(GR, A) \/ Some(T, A)
         /\ Only(GT, Work)
    BY <1>5, <1>7, <1>8, OfParts
  <1> HIDE DEF GT
  <1>11. GT \o O \in Seq(Operations)
    BY <1>4, <1>9, ConcatProperties
  <1>12. /\ \A A : Some(GT \o O, A) <=> Some(GT, A) \/ Some(O, A)
         /\ Only(GT \o O, Work)
    BY <1>4, <1>9, <1>10, OfParts
  <1>13. ASSUME NEW l \in Used
         PROVE  /\ Some(GT \o O, Inits(l))
                /\ Preceded(GT \o O, Sets(l), Inits(l))
    <2>1. Some(G, Inits(l)) /\ Preceded(G, Sets(l), Inits(l))
      BY <1>6, Without
    <2>2. Some(GR, Inits(l)) /\ Preceded(GR, Sets(l), Inits(l))
      BY <1>3, <1>6, <2>1, OfParts DEF GR
    <2>3. Some(GT, Inits(l)) /\ Preceded(GT, Sets(l), Inits(l))
      BY <1>5, <1>7, <2>2, OfParts DEF GT
    <2>4. QED
      BY <1>4, <1>9, <2>3, OfParts
  <1>14. Followed(GT \o O, Low("power"), High("power"))
    <2>1. Followed(G, Low("power"), High("power"))
      BY <1>6, Without
    <2>2. Followed(GR, Low("power"), High("power"))
      BY <1>3, <1>6, <2>1, OfParts DEF GR
    <2>3. ~Some(T, Low("power")) /\ ~Some(O, Low("power"))
      <3>1. ~Some(T, On("power")) /\ ~Some(O, On("power"))
        BY <1>4, <1>5 DEF Lines
      <3>2. Low("power") \subseteq On("power")
        BY ClassesAreDisjoint
      <3>3. QED
        BY <3>1, <3>2 DEF Some
    <2>4. Followed(T, Low("power"), High("power"))
      BY <2>3, Without
    <2>5. Followed(GT, Low("power"), High("power"))
      BY <1>5, <1>7, <2>2, <2>4, OfParts DEF GT
    <2>6. Followed(O, Low("power"), High("power"))
      BY <2>3, Without
    <2>7. QED
      BY <1>4, <1>9, <2>5, <2>6, OfParts
  <1>15. "power" \in lines => Some(GT \o O, High("power"))
    BY <1>6, <1>8, <1>10, <1>12
  <1>16. ASSUME NEW l \in SwitchLines PROVE ~Some(GR, High(l)) /\ ~Some(O, High(l))
    <2>1. l \in Lines /\ l # "power"
      BY DEF Lines, SwitchLines
    <2>2. Sets("power") \cap High(l) = {}
      BY <2>1, ClassesAreDisjoint
    <2>3. ~Some(R, High(l))
      BY <1>3, <2>2, Without
    <2>4. ~Some(O, High(l))
      BY <1>4, <2>1, ClassesAreDisjoint, Without
    <2>5. QED
      BY <1>6, <1>8, <2>3, <2>4
  <1>17. Apart(GT \o O, On("power"), Enabling)
    <2>1. ~Some(GR, Enabling) /\ ~Some(O, Enabling)
      BY <1>16 DEF Some, Enabling
    <2>2. ~Some(O, On("power"))
      BY <1>4 DEF Lines
    <2>3. Apart(GR, On("power"), Enabling) /\ Apart(T, On("power"), Enabling)
      BY <1>5, <2>1, Without
    <2>4. Apart(GT, On("power"), Enabling)
      BY <1>5, <1>7, <2>3, OfParts DEF GT
    <2>5. Apart(O, On("power"), Enabling)
      BY <2>1, Without
    <2>6. QED
      BY <1>4, <1>9, <2>2, <2>4, <2>5, OfParts
  <1>18. ASSUME NEW l \in SwitchLines, Some(GT \o O, High(l))
         PROVE  l = Target(lines, "uart")
    BY <1>5, <1>10, <1>12, <1>16, <1>18 DEF Lines
  <1>19. QED
    BY <1>1, <1>11, <1>12, <1>13, <1>14, <1>15, <1>17, <1>18

(* The destructor of the switch drives all its lines low. *)
LEMMA DestroySwitchOf ==
  ASSUME lines \subseteq Lines
  PROVE  /\ DestroySwitch(lines) \in Seq(Operations)
         /\ Only(DestroySwitch(lines), Work)
         /\ \A l \in Lines : ~Some(DestroySwitch(lines), High(l))
         /\ \A l \in SwitchSet(lines) : Some(DestroySwitch(lines), On(l))
  <1>1. {} \in SUBSET {"i2c", "spi", "uart"}
    OBVIOUS
  <1>2. /\ Toggle(lines, {}) \in Seq(Operations)
        /\ Only(Toggle(lines, {}), Work)
        /\ \A l \in Lines : ~Some(Toggle(lines, {}), High(l))
        /\ \A l \in SwitchSet(lines) : Some(Toggle(lines, {}), On(l))
    BY <1>1, ToggleOf, ToggleIsWork
  <1>3. QED
    BY <1>2 DEF DestroySwitch

(* And so does that of the connector. *)
LEMMA DestructorOf ==
  ASSUME lines \subseteq Lines
  PROVE  /\ Destructor \in Seq(Operations)
         /\ Only(Destructor, Work)
         /\ \A l \in SwitchLines : ~Some(Destructor, High(l))
         /\ \A l \in SwitchSet(lines) : Some(Destructor, On(l))
  <1> DEFINE off == SetValue("power", FALSE)
             pgm == SetValue("pgm", FALSE)
             D == IF disablePowerOnShutdown
                  THEN IfConfigured("power", <<off>>) ELSE <<>>
             T == ToggleBus(lines, "uart", FALSE)
             G == IfConfigured("pgm", <<pgm>>)
             S == DestroySwitch(lines)
             DT == D \o T
             DG == DT \o G
  <1>1. Destructor = DG \o S
    BY Zenon DEF Destructor
  <1>2. /\ T = S
        /\ S \in Seq(Operations) /\ Only(S, Work)
        /\ \A l \in Lines : ~Some(S, High(l))
        /\ \A l \in SwitchSet(lines) : Some(S, On(l))
    BY DestroySwitchOf DEF ToggleBus, DestroySwitch
  <1>3. "pgm" \in Lines /\ "power" \in Lines /\ SwitchLines \subseteq Lines
    BY DEF Lines
  <1>4. off \in Sets("power") \cap Low("power") /\ pgm \in Sets("pgm") \cap Low("pgm")
    BY <1>3, Classes
  <1> HIDE DEF off, pgm
  <1>5. /\ off \in On("power") /\ pgm \in On("pgm")
        /\ \A l : off \notin High(l) /\ pgm \notin High(l)
    <2>1. \A l : Low("power") \cap High(l) = {} /\ Low("pgm") \cap High(l) = {}
      BY ClassesAreDisjoint
    <2>2. \A l : off \notin High(l) /\ pgm \notin High(l)
      BY <1>4, <2>1
    <2>3. QED
      BY <1>4, <2>2, ClassesAreDisjoint
  <1>6. /\ "power" \in lines => off \in Work
        /\ "pgm" \in lines => pgm \in Work
    BY <1>4 DEF Work, Used
  <1>7. D \in Seq(Operations) /\ Only(D, Work) /\ \A l : ~Some(D, High(l))
    <2>1. CASE D = IfConfigured("power", <<off>>)
      BY <1>3, <1>5, <1>6, <2>1, IfConfiguredOf
    <2>2. CASE D = <<>>
      BY <2>2, NoOperations
    <2>3. QED
      BY <2>1, <2>2
  <1>8. G \in Seq(Operations) /\ Only(G, Work) /\ \A l : ~Some(G, High(l))
    BY <1>3, <1>5, <1>6, IfConfiguredOf
  <1> HIDE DEF D, T, G, S
  <1>9. /\ DT \in Seq(Operations)
        /\ Only(DT, Work) /\ \A A : Some(DT, A) <=> Some(D, A) \/ Some(T, A)
    <2>1. T \in Seq(Operations) /\ Only(T, Work)
      BY <1>2
    <2>2. QED
      BY <1>7, <2>1, OfParts, ConcatProperties
  <1> HIDE DEF DT
  <1>10. /\ DG \in Seq(Operations)
         /\ Only(DG, Work) /\ \A A : Some(DG, A) <=> Some(DT, A) \/ Some(G, A)
    BY <1>8, <1>9, OfParts, ConcatProperties
  <1> HIDE DEF DG
  <1>11. /\ DG \o S \in Seq(Operations)
         /\ Only(DG \o S, Work)
         /\ \A A : Some(DG \o S, A) <=> Some(DG, A) \/ Some(S, A)
    BY <1>2, <1>10, OfParts, ConcatProperties
  <1>12. QED
    BY <1>1, <1>2, <1>3, <1>7, <1>8, <1>9, <1>10, <1>11 DEF S
-----------------------------------------------------------------------------
(* Initially nothing is done and nothing is to do. *)
LEMMA InitConsistent == Init => Consistent
  <1> SUFFICES ASSUME Init PROVE Consistent
    OBVIOUS
  <1>1. /\ stage = "new" /\ failures = 0
        /\ todo = [t \in Threads |-> <<>>] /\ level = [l \in Lines |-> "unset"]
        /\ object \in {"connector", "switcher"} /\ lines \subseteq Lines
        /\ object = "switcher" => lines \subseteq SwitchLines
    BY DEF Init, Lines
  <1>2. /\ \A t \in Threads : todo[t] = <<>>
        /\ \A A, B : Only(<<>>, A) /\ ~Some(<<>>, A)
    BY <1>1, NoOperations
  <1>3. ConfigTypes
    <2>1. trModuleReset \in BOOLEAN /\ disablePowerOnShutdown \in BOOLEAN
      BY Zenon DEF Init
    <2>2. QED
      BY <1>1, <2>1, Zenon DEF ConfigTypes
  <1>4. StateTypes
    BY <1>1, UartConnectorAssumption, NoOperations DEF StateTypes
  <1>5. TypeOK
    BY <1>1, <1>2, <1>3, <1>4 DEF TypeOK
  <1>6. WorkIsConfined
    BY <1>1, <1>2 DEF WorkIsConfined
  <1>7. /\ FailuresAreCounted /\ BusesGoOff /\ PowerComes /\ PowerComesFirst
        /\ LinesAreInitialised /\ OneBus
    BY <1>1 DEF FailuresAreCounted, BusesGoOff, PowerComes, PowerComesFirst,
       LinesAreInitialised, OneBus
  <1>8. QED
    BY <1>5, <1>6, <1>7 DEF Consistent

(* The configuration never changes, nor what is defined by it alone. *)
LEMMA ConfigStays ==
  ASSUME UNCHANGED config, ConfigTypes
  PROVE  /\ ConfigTypes' /\ UNCHANGED <<object, lines>> /\ UNCHANGED <<Used, Work>>
         /\ lines \subseteq Lines /\ object \in {"connector", "switcher"}
  <1>1. ConfigTypes'
    BY Zenon DEF config, ConfigTypes
  <1>2. UNCHANGED <<object, lines>>
    BY Zenon DEF config
  <1>3. UNCHANGED <<Used, Work>>
    BY <1>2 DEF Used, Work, SwitchSet
  <1>4. QED
    BY <1>1, <1>2, <1>3 DEF ConfigTypes

(* What a thread has to do does not change when another one goes on. *)
LEMMA CallsOf ==
  ASSUME StateTypes, NEW t \in Threads, NEW s \in Seq(Operations), Calls(t, s)
  PROVE  /\ todo' \in [Threads -> Seq(Operations)]
         /\ todo'[t] = s
         /\ \A u \in Threads : u # t => todo'[u] = todo[u]
  BY DEF StateTypes, Calls

(* The construction begins: the constructor is to be done. *)
LEMMA ConstructConsistent == Consistent /\ Construct => Consistent'
  <1> SUFFICES ASSUME Consistent, Construct PROVE Consistent'
    OBVIOUS
  <1> DEFINE c == IF object = "connector" THEN Constructor ELSE <<>>
  <1>1. /\ ConfigTypes' /\ UNCHANGED <<object, lines, Used, Work>>
        /\ lines \subseteq Lines /\ object \in {"connector", "switcher"}
    BY ConfigStays DEF Construct, Consistent, TypeOK
  <1>2. /\ stage = "new" /\ stage' = "constructing" /\ Calls(Owner, c)
        /\ level' = level /\ failures' = failures /\ Owner \in Threads
    BY UartConnectorAssumption DEF Construct
  <1>3. StateTypes /\ StateTypes'
    BY <1>1, <1>2, CallsOf, ConstructorOf, NoOperations
       DEF Consistent, TypeOK, StateTypes
  <1>4. /\ c \in Seq(Operations) /\ Only(c, Work)
        /\ \A l \in Lines : level[l] = "unset"
        /\ \A t \in Threads : todo[t] = <<>>
        /\ failures = 0
    BY <1>1, <1>2, ConstructorOf, NoOperations
       DEF Consistent, TypeOK, WorkIsConfined, FailuresAreCounted
  <1>5. /\ todo'[Owner] = c
        /\ \A t \in Threads : t # Owner => todo'[t] = <<>>
    BY <1>2, <1>3, <1>4, CallsOf
  <1> HIDE DEF c
  <1>6. TypeOK'
    BY <1>1, <1>2, <1>3, <1>4, <1>5 DEF TypeOK
  <1>7. WorkIsConfined'
    BY <1>1, <1>2, <1>4, <1>5, NoOperations DEF WorkIsConfined, c, Consistent
  <1>8. FailuresAreCounted' /\ BusesGoOff'
    BY <1>2, <1>4 DEF FailuresAreCounted, BusesGoOff
  <1>9. PowerComes'
    BY <1>1, <1>2, <1>5, ConstructorOf, NoOperations DEF PowerComes, c
  <1>10. PowerComesFirst'
    BY <1>1, <1>2, <1>4, <1>5, ConstructorOf
       DEF PowerComesFirst, EnabledBuses, c, Lines
  <1>11. LinesAreInitialised'
    BY <1>1, <1>2, <1>5, ConstructorOf DEF LinesAreInitialised, Initialised, c
  <1>12. OneBus'
    <2>1. \A l \in SwitchLines : Some(c, High(l)) => l = Target(lines, "uart")
      BY <1>1, ConstructorOf, NoOperations DEF c
    <2>2. Target(lines, "uart") \in SwitchLines
      BY DEF Target, SwitchLines
    <2>3. QED
      BY <1>1, <1>2, <1>4, <1>5, <2>1, <2>2 DEF OneBus, Lines
  <1>13. QED
    BY <1>6, <1>7, <1>8, <1>9, <1>10, <1>11, <1>12 DEF Consistent

(* It ends when there is nothing left to do. *)
LEMMA ConstructedConsistent == Consistent /\ Constructed => Consistent'
  <1> SUFFICES ASSUME Consistent, Constructed PROVE Consistent'
    OBVIOUS
  <1>1. /\ ConfigTypes' /\ UNCHANGED <<object, lines, Used, Work>>
        /\ lines \subseteq Lines /\ object \in {"connector", "switcher"}
    BY ConfigStays DEF Constructed, Consistent, TypeOK
  <1>2. /\ stage = "constructing" /\ stage' = "alive" /\ todo[Owner] = <<>>
        /\ todo' = todo /\ level' = level /\ failures' = failures
    BY DEF Constructed, Idle
  <1>3. /\ \A t \in Threads : todo[t] = <<>>
        /\ failures = 0 /\ Owner \in Threads
    BY <1>2, UartConnectorAssumption DEF Consistent, TypeOK, FailuresAreCounted
  <1>4. TypeOK'
    BY <1>1, <1>2, <1>3 DEF Consistent, TypeOK, StateTypes
  <1>5. WorkIsConfined'
    BY <1>1, <1>2, <1>3, NoOperations DEF Consistent, WorkIsConfined
  <1>6. FailuresAreCounted' /\ BusesGoOff' /\ PowerComesFirst'
    BY <1>2 DEF FailuresAreCounted, BusesGoOff, PowerComesFirst
  <1>7. PowerComes'
    BY <1>1, <1>2 DEF Consistent, PowerComes
  <1>8. LinesAreInitialised'
    <2>1. \A l \in Used : object = "connector" => level[l] # "unset"
      BY <1>2, NoOperations DEF Consistent, LinesAreInitialised, Initialised
    <2>2. \A l \in Lines : object = "switcher" => level[l] = "unset"
      BY <1>2 DEF Consistent, WorkIsConfined
    <2>3. QED
      BY <1>1, <1>2, <2>1, <2>2, NoOperations DEF LinesAreInitialised
  <1>9. OneBus'
    BY <1>1, <1>2 DEF Consistent, OneBus
  <1>10. QED
    BY <1>4, <1>5, <1>6, <1>7, <1>8, <1>9 DEF Consistent

(* A reset of the module touches no bus, and gives the power back. *)
LEMMA ResetConsistent ==
  ASSUME Consistent, NEW t \in Threads, CallResetTr(t)
  PROVE  Consistent'
  <1>1. /\ ConfigTypes' /\ UNCHANGED <<object, lines, Used, Work>>
        /\ lines \subseteq Lines /\ object \in {"connector", "switcher"}
    BY ConfigStays DEF CallResetTr, Consistent, TypeOK
  <1>2. /\ object = "connector" /\ stage = "alive" /\ stage' = stage
        /\ todo[t] = <<>> /\ Calls(t, ResetTr)
        /\ level' = level /\ failures' = failures
    BY DEF CallResetTr, Idle
  <1>3. /\ ResetTr \in Seq(Operations)
        /\ Only(ResetTr, Sets("power")) /\ Only(ResetTr, Work)
        /\ Followed(ResetTr, Low("power"), High("power"))
    BY <1>1, ResetOf
  <1>4. StateTypes /\ Owner \in Threads
    BY UartConnectorAssumption DEF Consistent, TypeOK
  <1>5. /\ todo' \in [Threads -> Seq(Operations)] /\ todo'[t] = ResetTr
        /\ \A u \in Threads : u # t => todo'[u] = todo[u]
    BY <1>2, <1>3, <1>4, CallsOf
  <1>6. TypeOK'
    BY <1>1, <1>2, <1>5 DEF Consistent, TypeOK, StateTypes
  <1>7. WorkIsConfined'
    BY <1>1, <1>2, <1>3, <1>5 DEF Consistent, WorkIsConfined
  <1>8. FailuresAreCounted' /\ BusesGoOff' /\ PowerComesFirst'
    BY <1>2 DEF Consistent, FailuresAreCounted, BusesGoOff, PowerComesFirst
  <1>9. PowerComes'
    BY <1>1, <1>2, <1>3, <1>5, NoOperations DEF Consistent, PowerComes
  <1>10. LinesAreInitialised'
    BY <1>1, <1>2 DEF Consistent, LinesAreInitialised
  <1>11. OneBus'
    <2>1. CASE t = Owner
      <3>1. \A l \in SwitchLines : Sets("power") \cap High(l) = {}
        BY ClassesAreDisjoint DEF SwitchLines
      <3>2. \A l \in SwitchLines : ~Some(todo'[Owner], High(l))
        BY <1>3, <1>5, <2>1, <3>1, Without
      <3>3. QED
        BY <1>1, <1>2, <1>5, <2>1, <3>2, NoOperations DEF Consistent, OneBus
    <2>2. CASE t # Owner
      BY <1>1, <1>2, <1>4, <1>5, <2>2 DEF Consistent, OneBus
    <2>3. QED
      BY <2>1, <2>2
  <1>12. QED
    BY <1>6, <1>7, <1>8, <1>9, <1>10, <1>11 DEF Consistent

(* A call of the switch drives at most one of its lines high, and all of   *)
(* the others low.                                                         *)
LEMMA SwitchConsistent == Consistent /\ CallSwitch => Consistent'
  <1> SUFFICES ASSUME Consistent, CallSwitch PROVE Consistent'
    OBVIOUS
  <1>1. /\ ConfigTypes' /\ UNCHANGED <<object, lines, Used, Work>>
        /\ lines \subseteq Lines /\ object \in {"connector", "switcher"}
    BY ConfigStays DEF CallSwitch, Consistent, TypeOK
  <1>2. /\ object = "switcher" /\ stage = "alive" /\ stage' = stage
        /\ todo[Owner] = <<>> /\ level' = level /\ failures' = failures
    BY DEF CallSwitch, Idle
  <1>3. /\ SwitchSet(lines) = Used \cap SwitchLines /\ Used \subseteq SwitchLines
        /\ Used \subseteq Lines
    BY <1>1, <1>2, UsedLines DEF Consistent, WorkIsConfined
  <1>4. PICK s \in Seq(Operations) :
          /\ Calls(Owner, s) /\ Only(s, Work)
          /\ \A l \in Used : Some(s, On(l))
          /\ \/ \A l \in Used : /\ Some(s, Inits(l))
                                /\ Preceded(s, Sets(l), Inits(l))
             \/ \A l \in Lines : ~Some(s, Inits(l))
          /\ \E bus \in SwitchLines :
               \A l \in SwitchLines \ {bus} : ~Some(s, High(l))
    <2>1. ASSUME Calls(Owner, InitSwitch(lines))
          PROVE  /\ InitSwitch(lines) \in Seq(Operations)
                 /\ Only(InitSwitch(lines), Work)
                 /\ \A l \in Used : /\ Some(InitSwitch(lines), On(l))
                                    /\ Some(InitSwitch(lines), Inits(l))
                                    /\ Preceded(InitSwitch(lines), Sets(l), Inits(l))
                 /\ \A l \in SwitchLines : ~Some(InitSwitch(lines), High(l))
      <3> DEFINE s == InitSwitch(lines)
                 C == UNION {Inits(l) \cap Low(l) : l \in SwitchSet(lines)}
      <3>1. /\ s \in Seq(Operations) /\ Only(s, C)
            /\ \A l \in Used : Some(s, Inits(l))
        BY <1>1, <1>3, InitSwitchOf
      <3>2. C \subseteq Work
        BY <1>3 DEF Work
      <3>3. ASSUME NEW l PROVE C \cap Sets(l) = {} /\ C \cap High(l) = {}
        <4>1. \A k : Inits(k) \cap Sets(l) = {} /\ Low(k) \cap High(l) = {}
          BY ClassesAreDisjoint
        <4>2. QED
          BY <4>1
      <3> HIDE DEF s, C
      <3>4. Only(s, Work) /\ \A l : ~Some(s, Sets(l)) /\ ~Some(s, High(l))
        BY <3>1, <3>2, <3>3, Without
      <3>5. \A l \in Used : Some(s, On(l)) /\ Preceded(s, Sets(l), Inits(l))
        BY <3>1, <3>4, ClassesAreDisjoint, Without
      <3>6. QED
        BY <3>1, <3>4, <3>5 DEF s
    <2>2. ASSUME NEW bus \in {"i2c", "spi", "uart"}, NEW enabled \in SUBSET {bus},
                 Calls(Owner, Toggle(lines, enabled))
          PROVE  /\ Toggle(lines, enabled) \in Seq(Operations)
                 /\ Only(Toggle(lines, enabled), Work)
                 /\ \A l \in Used : Some(Toggle(lines, enabled), On(l))
                 /\ \A l \in Lines : ~Some(Toggle(lines, enabled), Inits(l))
                 /\ \A l \in SwitchLines \ {Target(lines, bus)} :
                      ~Some(Toggle(lines, enabled), High(l))
      <3> DEFINE s == Toggle(lines, enabled)
                 C == UNION {Sets(l) : l \in SwitchSet(lines)}
      <3>1. /\ s \in Seq(Operations) /\ Only(s, C) /\ Only(s, Work)
            /\ \A l \in Used : Some(s, On(l))
            /\ \A l \in Lines : Some(s, High(l)) => l = Target(lines, bus)
        <4>1. enabled \in SUBSET {"i2c", "spi", "uart"} /\ enabled \subseteq {bus}
          OBVIOUS
        <4>2. /\ s \in Seq(Operations) /\ Only(s, C)
              /\ \A l \in SwitchSet(lines) : Some(s, On(l))
              /\ \A l \in Lines :
                   Some(s, High(l)) => \E b \in enabled : l = Target(lines, b)
          BY <1>1, <4>1, ToggleOf
        <4>3. Only(s, Work)
          BY <1>1, <4>1, ToggleIsWork
        <4>4. QED
          BY <1>3, <4>1, <4>2, <4>3
      <3>2. ASSUME NEW l PROVE C \cap Inits(l) = {}
        <4>1. \A k : Inits(l) \cap Sets(k) = {}
          BY ClassesAreDisjoint
        <4>2. QED
          BY <4>1
      <3> HIDE DEF s, C
      <3>3. \A l : ~Some(s, Inits(l))
        BY <3>1, <3>2, Without
      <3>4. QED
        BY <3>1, <3>3 DEF s, Lines
    <2>3. \A bus \in {"i2c", "spi", "uart"} : Target(lines, bus) \in SwitchLines
      BY DEF Target, SwitchLines
    <2>4. CASE Calls(Owner, InitSwitch(lines))
      BY <2>1, <2>4 DEF SwitchLines
    <2>5. ASSUME NEW bus \in {"i2c", "spi", "uart"}, NEW enable \in BOOLEAN,
                 Calls(Owner, ToggleBus(lines, bus, enable))
          PROVE  \E enabled \in SUBSET {bus} : Calls(Owner, Toggle(lines, enabled))
      BY <2>5 DEF ToggleBus
    <2>6. QED
      BY <2>2, <2>3, <2>4, <2>5 DEF CallSwitch
  <1>5. StateTypes /\ Owner \in Threads
    BY UartConnectorAssumption DEF Consistent, TypeOK
  <1>6. /\ todo' \in [Threads -> Seq(Operations)] /\ todo'[Owner] = s
        /\ \A u \in Threads : u # Owner => todo'[u] = todo[u]
    BY <1>4, <1>5, CallsOf
  <1>7. TypeOK'
    BY <1>1, <1>2, <1>6 DEF Consistent, TypeOK, StateTypes
  <1>8. WorkIsConfined'
    BY <1>1, <1>2, <1>4, <1>6 DEF Consistent, WorkIsConfined
  <1>9. /\ FailuresAreCounted' /\ BusesGoOff' /\ PowerComesFirst' /\ PowerComes'
    BY <1>1, <1>2 DEF Consistent, FailuresAreCounted, BusesGoOff,
       PowerComesFirst, PowerComes
  <1>10. LinesAreInitialised'
    <2>1. SUFFICES ASSUME failures = 0
                   PROVE  \/ \A l \in Lines :
                               level[l] = "unset" /\ ~Some(s, Inits(l))
                          \/ \A l \in Used : \/ level[l] # "unset"
                                             \/ /\ Some(s, Inits(l))
                                                /\ Preceded(s, Sets(l), Inits(l))
      BY <1>1, <1>2, <1>6 DEF LinesAreInitialised, Initialised
    <2>2. \/ \A l \in Lines : level[l] = "unset"
          \/ \A l \in Used : level[l] # "unset"
      BY <1>2, <2>1, NoOperations DEF Consistent, LinesAreInitialised, Initialised
    <2>3. QED
      BY <1>4, <2>2
  <1>11. OneBus'
    <2>1. \A l \in SwitchLines : level[l] = "high" => l \in Used
      BY DEF Consistent, WorkIsConfined, Lines
    <2>2. QED
      BY <1>1, <1>2, <1>4, <1>6, <2>1 DEF OneBus
  <1>12. QED
    BY <1>7, <1>8, <1>9, <1>10, <1>11 DEF Consistent

(* The destructor is to switch off all that is on. *)
LEMMA DestroyConsistent == Consistent /\ Destroy => Consistent'
  <1> SUFFICES ASSUME Consistent, Destroy PROVE Consistent'
    OBVIOUS
  <1> DEFINE d == IF object = "connector" THEN Destructor ELSE DestroySwitch(lines)
  <1>1. /\ ConfigTypes' /\ UNCHANGED <<object, lines, Used, Work>>
        /\ lines \subseteq Lines /\ object \in {"connector", "switcher"}
    BY ConfigStays DEF Destroy, Consistent, TypeOK
  <1>2. /\ stage = "alive" /\ stage' = "closing" /\ Calls(Owner, d)
        /\ \A t \in Threads : todo[t] = <<>>
        /\ level' = level /\ failures' = failures
    BY DEF Destroy, Idle
  <1>3. /\ d \in Seq(Operations) /\ Only(d, Work)
        /\ \A l \in SwitchLines : ~Some(d, High(l))
        /\ \A l \in SwitchSet(lines) : Some(d, On(l))
    BY <1>1, DestructorOf, DestroySwitchOf DEF Lines
  <1>4. StateTypes /\ Owner \in Threads
    BY UartConnectorAssumption DEF Consistent, TypeOK
  <1> HIDE DEF d
  <1>5. /\ todo' \in [Threads -> Seq(Operations)] /\ todo'[Owner] = d
        /\ \A u \in Threads : u # Owner => todo'[u] = <<>>
    BY <1>2, <1>3, <1>4, CallsOf
  <1>6. TypeOK'
    BY <1>1, <1>2, <1>5 DEF Consistent, TypeOK, StateTypes
  <1>7. WorkIsConfined'
    BY <1>1, <1>2, <1>3, <1>5, NoOperations DEF Consistent, WorkIsConfined
  <1>8. FailuresAreCounted' /\ PowerComes' /\ PowerComesFirst' /\ OneBus'
    BY <1>2 DEF FailuresAreCounted, PowerComes, PowerComesFirst, OneBus
  <1>9. BusesGoOff'
    <2>1. \A l \in SwitchLines : level[l] = "high" => l \in SwitchSet(lines)
      BY <1>1, UsedLines DEF Consistent, WorkIsConfined, Lines
    <2>2. QED
      BY <1>2, <1>3, <1>5, <2>1 DEF BusesGoOff
  <1>10. LinesAreInitialised'
    BY <1>1, <1>2 DEF Consistent, LinesAreInitialised
  <1>11. QED
    BY <1>6, <1>7, <1>8, <1>9, <1>10 DEF Consistent

(* When it has been done the object is gone, and the buses are off. *)
LEMMA DestroyedConsistent == Consistent /\ Destroyed => Consistent'
  <1> SUFFICES ASSUME Consistent, Destroyed PROVE Consistent'
    OBVIOUS
  <1>1. /\ ConfigTypes' /\ UNCHANGED <<object, lines, Used, Work>>
        /\ lines \subseteq Lines /\ object \in {"connector", "switcher"}
    BY ConfigStays DEF Destroyed, Consistent, TypeOK
  <1>2. /\ stage \in {"closing", "unwinding"} /\ stage' = "gone"
        /\ todo[Owner] = <<>>
        /\ todo' = todo /\ level' = level /\ failures' = failures
    BY DEF Destroyed, Idle
  <1>3. \A t \in Threads : todo[t] = <<>>
    BY <1>2 DEF Consistent, TypeOK
  <1>4. TypeOK'
    BY <1>1, <1>2, <1>3 DEF Consistent, TypeOK, StateTypes
  <1>5. WorkIsConfined'
    BY <1>1, <1>2, <1>3, NoOperations DEF Consistent, WorkIsConfined
  <1>6. /\ FailuresAreCounted' /\ PowerComes' /\ PowerComesFirst' /\ OneBus'
        /\ LinesAreInitialised'
    BY <1>2 DEF FailuresAreCounted, PowerComes, PowerComesFirst, OneBus,
       LinesAreInitialised
  <1>7. BusesGoOff'
    BY <1>2, NoOperations DEF Consistent, BusesGoOff
  <1>8. QED
    BY <1>4, <1>5, <1>6, <1>7 DEF Consistent
-----------------------------------------------------------------------------
(* What an operation of a call does: the first of those left is done, and  *)
(* at most one line of those the object drives takes its value.            *)
LEMMA OperationDone ==
  ASSUME Consistent, NEW t \in Threads, Operate(t)
  PROVE  /\ todo[t] # <<>> /\ todo[t] \in Seq(Operations)
         /\ todo' \in [Threads -> Seq(Operations)] /\ todo'[t] = Tail(todo[t])
         /\ \A u \in Threads : u # t => todo'[u] = todo[u]
         /\ Head(todo[t]) \in Work /\ Only(Tail(todo[t]), Work)
         /\ stage' = stage /\ failures' = failures
         /\ ConfigTypes' /\ UNCHANGED <<object, lines, Used, Work>>
         /\ \E l \in Used \cup {"none"} :
              /\ Head(todo[t]) \in On(l)
              /\ level' \in [Lines -> {"unset", "low", "high"}]
              /\ \A k \in Lines \ {l} : level'[k] = level[k]
              /\ l # "none" =>
                   /\ Head(todo[t]) \in Inits(l) \/ level[l] # "unset"
                   /\ \/ Head(todo[t]) \in High(l) /\ level'[l] = "high"
                      \/ Head(todo[t]) \in Low(l) /\ level'[l] = "low"
  <1> DEFINE s == todo[t]
             o == Head(s)
  <1>1. StateTypes /\ s \in Seq(Operations) /\ s # <<>> /\ Only(s, Work)
    BY DEF Consistent, TypeOK, StateTypes, WorkIsConfined, Operate, Idle
  <1>2. /\ ConfigTypes' /\ UNCHANGED <<object, lines, Used, Work>>
        /\ lines \subseteq Lines
    BY ConfigStays DEF Operate, Consistent, TypeOK
  <1>3. /\ stage' = stage /\ failures' = failures /\ Calls(t, Tail(s))
        /\ o.op = "set" => level[o.line] # "unset"
    BY DEF Operate, Succeeds
  <1>4. level' = IF o.op = "port" THEN level
                 ELSE [level EXCEPT ![o.line] = IF o.value THEN "high" ELSE "low"]
    BY DEF Operate
  <1>5. o \in Work /\ Only(Tail(s), Work) /\ Tail(s) \in Seq(Operations)
    BY <1>1, OfRest, FirstAndRest
  <1>6. /\ todo' \in [Threads -> Seq(Operations)] /\ todo'[t] = Tail(s)
        /\ \A u \in Threads : u # t => todo'[u] = todo[u]
    BY <1>1, <1>3, <1>5, CallsOf
  <1>7. level \in [Lines -> {"unset", "low", "high"}] /\ Used \subseteq Lines
    BY <1>1, <1>2, UsedLines DEF StateTypes
  <1> HIDE DEF o
  <1>8. CASE o = OpenPort
    <2>1. OpenPort \in On("none")
      BY Classes DEF Lines
    <2>2. OpenPort.op = "port"
      BY DEF OpenPort
    <2>3. level' = level
      BY <1>4, <1>8, <2>2
    <2>4. QED
      BY <1>1, <1>2, <1>3, <1>5, <1>6, <1>7, <1>8, <2>1, <2>3 DEF o
  <1>9. CASE o # OpenPort
    <2>1. PICK l \in Used : o \in Inits(l) \cup Sets(l)
      BY <1>5, <1>9 DEF Work
    <2>2. /\ o \in Operations /\ o \in On(l) /\ o.line = l
          /\ o \in Inits(l) \/ o.op = "set"
      BY <2>1 DEF Inits, Sets, On
    <2>3. o.op # "port"
      BY <2>1 DEF Inits, Sets
    <2>4. o.value \in BOOLEAN
      BY <2>2, Zenon DEF Operations
    <2>5. o.value = TRUE \/ o.value = FALSE
      BY <2>4
    <2>6. o \in High(l) \/ o \in Low(l)
      BY <2>2, <2>5, Zenon DEF High, Low
    <2>7. o \in High(l) => o.value
      BY Zenon DEF High
    <2>8. o \in Low(l) => ~o.value
      BY Zenon DEF Low
    <2>9. /\ o \in High(l) => level' = [level EXCEPT ![l] = "high"]
          /\ o \in Low(l) => level' = [level EXCEPT ![l] = "low"]
      BY <1>4, <2>2, <2>3, <2>7, <2>8
    <2>10. /\ level' \in [Lines -> {"unset", "low", "high"}]
           /\ \A k \in Lines \ {l} : level'[k] = level[k]
           /\ \/ o \in High(l) /\ level'[l] = "high"
              \/ o \in Low(l) /\ level'[l] = "low"
      BY <1>7, <2>6, <2>9
    <2>11. o \in Inits(l) \/ level[l] # "unset"
      BY <1>3, <2>2
    <2>12. QED
      BY <1>1, <1>2, <1>3, <1>5, <1>6, <2>2, <2>10, <2>11 DEF o
  <1>10. QED
    BY <1>8, <1>9

(* Doing an operation keeps every part of the invariant.                   *)
LEMMA OperateConsistent ==
  ASSUME Consistent, NEW t \in Threads, Operate(t)
  PROVE  Consistent'
  <1> DEFINE s == todo[t]
             o == Head(s)
             r == Tail(s)
  <1>1. /\ s # <<>> /\ s \in Seq(Operations)
        /\ todo' \in [Threads -> Seq(Operations)] /\ todo'[t] = r
        /\ \A u \in Threads : u # t => todo'[u] = todo[u]
        /\ o \in Work /\ Only(r, Work)
        /\ stage' = stage /\ failures' = failures
        /\ ConfigTypes' /\ UNCHANGED <<object, lines, Used, Work>>
    BY OperationDone
  <1>2. PICK l \in Used \cup {"none"} :
          /\ o \in On(l)
          /\ level' \in [Lines -> {"unset", "low", "high"}]
          /\ \A k \in Lines \ {l} : level'[k] = level[k]
          /\ l # "none" =>
               /\ o \in Inits(l) \/ level[l] # "unset"
               /\ \/ o \in High(l) /\ level'[l] = "high"
                  \/ o \in Low(l) /\ level'[l] = "low"
    BY OperationDone
  <1>3. /\ TypeOK /\ ConfigTypes /\ StateTypes /\ Owner \in Threads
        /\ lines \subseteq Lines /\ object \in {"connector", "switcher"}
        /\ Used \subseteq lines /\ Used \subseteq Lines /\ "none" \notin Lines
        /\ SwitchSet(lines) = Used \cap SwitchLines
        /\ SwitchLines \subseteq Lines /\ "power" \in Lines
    BY UsedLines, UartConnectorAssumption
       DEF Consistent, TypeOK, ConfigTypes, Lines
  <1>4. stage \notin {"new", "gone"} /\ (t = Owner \/ stage = "alive")
    BY <1>1, <1>3 DEF TypeOK
  <1>5. ASSUME NEW A, NEW B
        PROVE  /\ Some(s, A) <=> o \in A \/ Some(r, A)
               /\ Only(s, A) => o \in A /\ Only(r, A)
               /\ Apart(s, A, B) => /\ Apart(r, A, B)
                                    /\ o \in B => ~Some(r, A)
               /\ Followed(s, A, B) => /\ Followed(r, A, B)
                                       /\ o \in A => Some(r, B)
               /\ Preceded(s, A, B) => /\ o \notin A
                                       /\ o \in B \/ Preceded(r, A, B)
    BY <1>1, OfRest
  <1>6. ASSUME NEW k \in Lines, o \in On(k)
        PROVE  k = l
    BY <1>2, <1>6, ClassesAreDisjoint
  <1>7. \A k : Inits(k) \subseteq On(k) /\ Sets(k) \subseteq On(k)
            /\ High(k) \subseteq On(k) /\ Low(k) \subseteq On(k)
    BY ClassesAreDisjoint
  <1>8. \A k \in Lines : level[k] # "unset" => level'[k] # "unset"
    BY <1>2, <1>3
  <1>9. t = Owner \/ Only(s, Sets("power"))
    BY DEF Consistent, WorkIsConfined
  <1>10. ASSUME t # Owner
         PROVE  l = "power" /\ todo'[Owner] = todo[Owner]
    BY <1>1, <1>3, <1>5, <1>6, <1>7, <1>9, <1>10
  <1> HIDE DEF o, r
  <1>11. TypeOK'
    BY <1>1, <1>2, <1>3, <1>4 DEF TypeOK, StateTypes
  <1>12. WorkIsConfined'
    <2>1. \A A : \A u \in Threads : Only(todo[u], A) => Only(todo'[u], A)
      BY <1>1, <1>5
    <2>2. \A k \in Lines : level'[k] # "unset" => k \in Used
      BY <1>2, <1>3 DEF Consistent, WorkIsConfined
    <2>3. ~(object = "switcher" /\ stage = "constructing")
      BY <1>1, <1>4 DEF Consistent, WorkIsConfined
    <2>4. QED
      BY <1>1, <1>4, <2>1, <2>2, <2>3 DEF Consistent, WorkIsConfined
  <1>13. FailuresAreCounted'
    BY <1>1 DEF Consistent, FailuresAreCounted
  <1>14. ASSUME NEW k \in SwitchLines, ~Some(todo[Owner], High(k)),
                level[k] = "high" => Some(todo[Owner], On(k))
         PROVE  /\ ~Some(todo'[Owner], High(k))
                /\ level'[k] = "high" => Some(todo'[Owner], On(k))
    <2>1. CASE t # Owner
      <3>1. k # l
        BY <1>10, <2>1 DEF SwitchLines
      <3>2. QED
        BY <1>2, <1>3, <1>10, <1>14, <2>1, <3>1
    <2>2. CASE t = Owner
      <3>1. ~Some(r, High(k)) /\ o \notin High(k)
        BY <1>5, <1>14, <2>2
      <3>2. ASSUME level'[k] = "high" PROVE k # l
        BY <1>2, <1>3, <3>1, <3>2
      <3>3. level'[k] = "high" => Some(r, On(k))
        BY <1>2, <1>3, <1>5, <1>6, <1>14, <2>2, <3>2
      <3>4. QED
        BY <1>1, <2>2, <3>1, <3>3
    <2>3. QED
      BY <2>1, <2>2
  <1>15. BusesGoOff' /\ OneBus'
    BY <1>1, <1>4, <1>14 DEF Consistent, BusesGoOff, OneBus
  <1>16. PowerComes'
    <2>1. SUFFICES ASSUME object = "connector", "power" \in lines,
                          stage = "constructing" \/ (stage = "alive" /\ failures = 0)
                   PROVE  /\ \A u \in Threads :
                               Followed(todo'[u], Low("power"), High("power"))
                          /\ \/ level'["power"] = "high"
                             \/ \E u \in Threads : Some(todo'[u], High("power"))
      BY <1>1 DEF PowerComes
    <2>2. /\ \A u \in Threads : Followed(todo[u], Low("power"), High("power"))
          /\ \/ level["power"] = "high"
             \/ \E u \in Threads : Some(todo[u], High("power"))
      BY <2>1 DEF Consistent, PowerComes
    <2>3. \A u \in Threads : Followed(todo'[u], Low("power"), High("power"))
      BY <1>1, <1>5, <2>2
    <2>4. CASE o \in Low("power")
      BY <1>1, <1>5, <2>2, <2>4
    <2>5. CASE o \in High("power")
      <3>1. l = "power" /\ l # "none"
        BY <1>3, <1>6, <1>7, <2>5
      <3>2. o \notin Low("power")
        BY <2>5, ClassesAreDisjoint
      <3>3. QED
        BY <1>2, <2>3, <3>1, <3>2
    <2>6. CASE o \notin Low("power") /\ o \notin High("power")
      <3>1. l # "power"
        BY <1>2, <1>3, <2>6
      <3>2. level'["power"] = level["power"]
        BY <1>2, <1>3, <3>1
      <3>3. \A u \in Threads : Some(todo[u], High("power")) =>
                               Some(todo'[u], High("power"))
        BY <1>1, <1>5, <2>6
      <3>4. QED
        BY <2>2, <2>3, <3>2, <3>3
    <2>7. QED
      BY <2>4, <2>5, <2>6
  <1>17. PowerComesFirst'
    <2>1. SUFFICES ASSUME object = "connector", stage = "constructing"
                   PROVE  /\ Apart(r, On("power"), Enabling)
                          /\ \A b \in SwitchLines :
                               level'[b] = "high" => ~Some(r, On("power"))
      BY <1>1, <1>4 DEF PowerComesFirst, EnabledBuses, Enabling
    <2>2. /\ Apart(s, On("power"), Enabling)
          /\ \A b \in SwitchLines : level[b] = "high" => ~Some(s, On("power"))
      BY <1>4, <2>1 DEF Consistent, PowerComesFirst, EnabledBuses
    <2>3. ASSUME NEW b \in SwitchLines, level'[b] = "high"
          PROVE  ~Some(r, On("power"))
      <3>1. CASE b = l
        <4>1. o \in High(b)
          BY <1>2, <1>3, <2>3, <3>1
        <4>2. o \in Enabling
          BY <4>1 DEF Enabling
        <4>3. QED
          BY <1>5, <2>2, <4>2
      <3>2. CASE b # l
        BY <1>2, <1>3, <1>5, <2>2, <2>3, <3>2
      <3>3. QED
        BY <3>1, <3>2
    <2>4. QED
      BY <1>5, <2>2, <2>3
  <1>18. LinesAreInitialised'
    <2>1. ASSUME NEW k \in Used, Initialised(k)
          PROVE  Initialised(k)'
      <3>1. CASE level[k] # "unset"
        BY <1>3, <1>8, <3>1 DEF Initialised
      <3>2. CASE level[k] = "unset" /\ t # Owner
        BY <1>10, <2>1, <3>2 DEF Initialised
      <3>3. CASE level[k] = "unset" /\ t = Owner
        <4>1. Some(s, Inits(k)) /\ Preceded(s, Sets(k), Inits(k))
          BY <2>1, <3>3 DEF Initialised
        <4>2. CASE o \in Inits(k)
          BY <1>2, <1>3, <1>6, <1>7, <4>2 DEF Initialised
        <4>3. CASE o \notin Inits(k)
          <5>1. Some(r, Inits(k)) /\ Preceded(r, Sets(k), Inits(k))
            BY <1>5, <4>1, <4>3
          <5>2. QED
            BY <1>1, <3>3, <5>1 DEF Initialised
        <4>4. QED
          BY <4>2, <4>3
      <3>4. QED
        BY <3>1, <3>2, <3>3
    <2>2. ASSUME object = "switcher", stage = "alive", failures = 0
          PROVE  \/ \A k \in Lines : level'[k] = "unset" /\ ~Some(todo'[Owner], Inits(k))
                 \/ \A k \in Used : Initialised(k)'
      <3>1. CASE \A k \in Lines : level[k] = "unset" /\ ~Some(todo[Owner], Inits(k))
        <4>1. l # "power"
          BY <1>3, <2>2 DEF Consistent, WorkIsConfined, SwitchLines, Lines
        <4>2. t = Owner
          BY <1>10, <4>1
        <4>3. l = "none"
          BY <1>2, <1>3, <1>5, <3>1, <4>2
        <4>4. \A k \in Lines : level'[k] = level[k]
          BY <1>2, <1>3, <4>3
        <4>5. QED
          BY <1>1, <1>5, <3>1, <4>2, <4>4
      <3>2. CASE \A k \in Used : Initialised(k)
        BY <2>1, <3>2
      <3>3. QED
        BY <2>2, <3>1, <3>2 DEF Consistent, LinesAreInitialised
    <2>3. ASSUME object = "connector", NEW k \in Used
          PROVE  /\ stage = "constructing" => Initialised(k)'
                 /\ stage \in {"alive", "closing"} => level'[k] # "unset"
      BY <1>3, <1>8, <2>1, <2>3 DEF Consistent, LinesAreInitialised
    <2>4. QED
      BY <1>1, <2>2, <2>3 DEF LinesAreInitialised
  <1>19. QED
    BY <1>11, <1>12, <1>13, <1>15, <1>16, <1>17, <1>18 DEF Consistent

(* Without a failure before, only a switcher that was used before its      *)
(* lines were initialised is refused an operation.                         *)
LEMMA OnlySwitchersAreRefused ==
  ASSUME Consistent, NEW t \in Threads, ~Idle(t), ~Succeeds(t)
  PROVE  \/ failures > 0
         \/ /\ object = "switcher" /\ stage # "constructing"
            /\ stage = "alive" => \A k \in Lines : level[k] = "unset"
  <1> DEFINE s == todo[t]
             o == Head(s)
  <1>1. s # <<>> /\ s \in Seq(Operations) /\ Only(s, Work)
    BY DEF Consistent, TypeOK, StateTypes, WorkIsConfined, Idle
  <1>2. o \in Work /\ o.op = "set" /\ level[o.line] = "unset"
    BY <1>1, OfRest DEF Succeeds
  <1>3. \A A, B : Preceded(s, A, B) => o \notin A
    BY <1>1, OfRest
  <1>4. t = Owner \/ stage = "alive"
    BY <1>1 DEF Consistent, TypeOK
  <1>5. t = Owner \/ Only(s, Sets("power"))
    BY DEF Consistent, WorkIsConfined
  <1>6. t = Owner \/ o \in Sets("power")
    BY <1>1, <1>5, OfRest
  <1>7. lines \subseteq Lines /\ object \in {"connector", "switcher"}
        /\ failures \in Nat /\ stage \notin {"new", "gone"}
        /\ stage \in {"new", "constructing", "alive", "closing", "unwinding", "gone",
                      "terminated"}
    BY <1>1, UartConnectorAssumption DEF Consistent, TypeOK, ConfigTypes, StateTypes
  <1> HIDE DEF o
  <1>8. PICK l \in Used : o \in Sets(l) /\ level[l] = "unset"
    <2>1. o # OpenPort
      BY <1>2 DEF OpenPort
    <2>2. PICK l \in Used : o \in Inits(l) \cup Sets(l)
      BY <1>2, <2>1 DEF Work
    <2>3. QED
      BY <1>2, <2>2 DEF Inits, Sets, On
  <1>9. ASSUME t = Owner PROVE ~Initialised(l)
    BY <1>3, <1>8, <1>9 DEF Initialised
  <1>10. CASE object = "connector"
    <2>1. stage \notin {"alive", "closing"}
      BY <1>8, <1>10 DEF Consistent, LinesAreInitialised
    <2>2. stage # "constructing"
      BY <1>4, <1>8, <1>9, <1>10 DEF Consistent, LinesAreInitialised
    <2>3. failures > 0
      BY <1>7, <1>10, <2>1, <2>2 DEF Consistent, FailuresAreCounted
    <2>4. QED
      BY <2>3
  <1>11. CASE object = "switcher"
    <2>1. stage # "constructing"
      BY <1>1, <1>4, <1>11 DEF Consistent, WorkIsConfined
    <2>2. ASSUME stage = "alive", failures = 0
          PROVE  \A k \in Lines : level[k] = "unset"
      <3>1. t = Owner
        <4>1. "power" \notin Used
          BY <1>7, <1>11, UsedLines DEF Consistent, WorkIsConfined, SwitchLines
        <4>2. ASSUME o \in Sets("power") PROVE FALSE
          BY <1>8, <4>1, <4>2, ClassesAreDisjoint
        <4>3. QED
          BY <1>6, <4>2
      <3>2. QED
        BY <1>8, <1>9, <1>11, <2>2, <3>1 DEF Consistent, LinesAreInitialised
    <2>3. QED
      BY <1>7, <1>11, <2>1, <2>2
  <1>12. QED
    BY <1>7, <1>10, <1>11

(* An exception ends the call, takes the members down that were built, or  *)
(* ends the program.                                                       *)
LEMMA ThrowsConsistent ==
  ASSUME Consistent, NEW t \in Threads, ~Idle(t), Throws(t),
         UNCHANGED <<config, level>>,
         failures' \in 0..MaxFailures, failures' >= failures,
         failures' > 0 \/ ~Succeeds(t)
  PROVE  Consistent'
  <1>1. /\ ConfigTypes' /\ UNCHANGED <<object, lines, Used, Work>>
        /\ lines \subseteq Lines /\ object \in {"connector", "switcher"}
    BY ConfigStays DEF Consistent, TypeOK
  <1>2. level' = level /\ todo[t] # <<>> /\ StateTypes /\ Owner \in Threads
        /\ failures \in Nat /\ failures' \in Nat
    BY UartConnectorAssumption DEF Idle, Consistent, TypeOK, StateTypes
  <1>3. stage \notin {"new", "gone"} /\ (t = Owner \/ stage = "alive")
    BY <1>2 DEF Consistent, TypeOK
  <1>4. \/ failures' > 0
        \/ /\ object = "switcher" /\ stage # "constructing"
           /\ stage = "alive" => \A k \in Lines : level[k] = "unset"
    BY <1>2, OnlySwitchersAreRefused
  <1>5. CASE stage = "alive"
    <2>1. stage' = stage /\ Calls(t, <<>>)
      BY <1>5 DEF Throws
    <2>2. /\ todo' \in [Threads -> Seq(Operations)] /\ todo'[t] = <<>>
          /\ \A u \in Threads : u # t => todo'[u] = todo[u]
      BY <1>2, <2>1, NoOperations, CallsOf
    <2>3. TypeOK'
      BY <1>1, <1>2, <1>5, <2>1, <2>2 DEF Consistent, TypeOK, StateTypes
    <2>4. WorkIsConfined'
      BY <1>1, <1>2, <1>5, <2>1, <2>2, NoOperations DEF Consistent, WorkIsConfined
    <2>5. FailuresAreCounted' /\ BusesGoOff' /\ PowerComesFirst'
      BY <1>5, <2>1 DEF FailuresAreCounted, BusesGoOff, PowerComesFirst
    <2>6. PowerComes'
      BY <1>1, <1>2, <1>4, <1>5, <2>1 DEF PowerComes
    <2>7. LinesAreInitialised'
      <3>1. CASE failures' > 0
        BY <1>1, <1>2, <1>5, <2>1, <3>1 DEF Consistent, LinesAreInitialised
      <3>2. CASE object = "switcher" /\ \A k \in Lines : level[k] = "unset"
        <4>1. failures' = 0 => failures = 0
          BY <1>2
        <4>2. ASSUME failures = 0, NEW k \in Lines PROVE ~Some(todo'[Owner], Inits(k))
          <5>1. CASE t = Owner
            BY <2>2, <5>1, NoOperations
          <5>2. CASE t # Owner
            <6>1. Only(todo[t], Sets("power")) /\ Only(todo[t], Work)
                  /\ todo[t] \in Seq(Operations)
              BY <1>2, <5>2 DEF Consistent, WorkIsConfined, StateTypes
            <6>2. Head(todo[t]) \in Sets("power") /\ Head(todo[t]) \in Work
              BY <1>2, <6>1, OfRest
            <6>3. "power" \notin Used
              BY <1>1, <3>2, UsedLines DEF Consistent, WorkIsConfined, SwitchLines
            <6>4. Head(todo[t]).line = "power" /\ Head(todo[t]).op = "set"
              BY <6>2 DEF Sets, On
            <6>5. Head(todo[t]) # OpenPort
              BY <6>4 DEF OpenPort
            <6>6. QED
              BY <6>2, <6>3, <6>4, <6>5 DEF Work, Inits, Sets, On
          <5>3. QED
            BY <5>1, <5>2
        <4>3. QED
          BY <1>1, <1>2, <1>5, <2>1, <3>2, <4>1, <4>2 DEF LinesAreInitialised
      <3>3. QED
        BY <1>4, <1>5, <3>1, <3>2
    <2>8. OneBus'
      <3>1. CASE failures' > 0
        BY <1>2, <3>1 DEF OneBus
      <3>2. CASE failures' = 0
        <4>1. \A k \in SwitchLines : level'[k] # "high"
          BY <1>2, <1>4, <1>5, <3>2 DEF Lines
        <4>2. failures = 0
          BY <1>2, <3>2
        <4>3. PICK bus \in SwitchLines :
                \A k \in SwitchLines \ {bus} : ~Some(todo[Owner], High(k))
          BY <1>5, <4>2 DEF Consistent, OneBus
        <4>4. \A k \in SwitchLines \ {bus} : ~Some(todo'[Owner], High(k))
          BY <1>2, <2>2, <4>3, NoOperations
        <4>5. QED
          BY <4>1, <4>4 DEF OneBus
      <3>3. QED
        BY <1>2, <3>1, <3>2
    <2>9. QED
      BY <2>3, <2>4, <2>5, <2>6, <2>7, <2>8 DEF Consistent
  <1>6. CASE stage = "constructing"
    <2> DEFINE d == DestroySwitch(lines)
    <2>1. stage' = "unwinding" /\ Calls(Owner, d) /\ t = Owner /\ failures' > 0
      BY <1>3, <1>4, <1>6 DEF Throws
    <2>2. /\ d \in Seq(Operations) /\ Only(d, Work)
          /\ \A l \in SwitchLines : ~Some(d, High(l))
          /\ \A l \in SwitchSet(lines) : Some(d, On(l))
      BY <1>1, DestroySwitchOf DEF Lines
    <2> HIDE DEF d
    <2>3. /\ todo' \in [Threads -> Seq(Operations)] /\ todo'[Owner] = d
          /\ \A u \in Threads : u # Owner => todo'[u] = <<>>
      BY <1>2, <1>6, <2>1, <2>2, CallsOf DEF Consistent, TypeOK
    <2>4. TypeOK'
      BY <1>1, <1>2, <2>1, <2>3 DEF Consistent, TypeOK, StateTypes
    <2>5. WorkIsConfined'
      BY <1>1, <1>2, <1>6, <2>1, <2>2, <2>3, NoOperations
         DEF Consistent, WorkIsConfined
    <2>6. /\ FailuresAreCounted' /\ PowerComes' /\ PowerComesFirst' /\ OneBus'
          /\ LinesAreInitialised'
      BY <2>1 DEF FailuresAreCounted, PowerComes, PowerComesFirst, OneBus,
         LinesAreInitialised
    <2>7. BusesGoOff'
      <3>1. \A l \in SwitchLines : level[l] = "high" => l \in SwitchSet(lines)
        BY <1>1, UsedLines DEF Consistent, WorkIsConfined, Lines
      <3>2. QED
        BY <1>2, <2>1, <2>2, <2>3, <3>1 DEF BusesGoOff
    <2>8. QED
      BY <2>4, <2>5, <2>6, <2>7 DEF Consistent
  <1>7. CASE stage \in {"closing", "unwinding"}
    <2>1. stage' = "terminated" /\ todo' = todo
      BY <1>7 DEF Throws
    <2>2. TypeOK'
      BY <1>1, <1>2, <1>7, <2>1 DEF Consistent, TypeOK, StateTypes
    <2>3. WorkIsConfined'
      BY <1>1, <1>2, <1>7, <2>1 DEF Consistent, WorkIsConfined
    <2>4. FailuresAreCounted'
      BY <1>1, <1>4, <1>7, <2>1 DEF FailuresAreCounted
    <2>5. /\ PowerComes' /\ PowerComesFirst' /\ OneBus' /\ LinesAreInitialised'
          /\ BusesGoOff'
      BY <2>1 DEF PowerComes, PowerComesFirst, OneBus, LinesAreInitialised, BusesGoOff
    <2>6. QED
      BY <2>2, <2>3, <2>4, <2>5 DEF Consistent
  <1>8. QED
    BY <1>5, <1>6, <1>7 DEF Throws

(* A step that changes nothing. *)
LEMMA StutterConsistent == Consistent /\ UNCHANGED vars => Consistent'
  <1> SUFFICES ASSUME Consistent, UNCHANGED vars PROVE Consistent'
    OBVIOUS
  <1>1. UNCHANGED config
    BY DEF vars, config
  <1>2. /\ ConfigTypes' /\ UNCHANGED <<object, lines, Used, Work>>
        /\ lines \subseteq Lines
    BY <1>1, ConfigStays DEF Consistent, TypeOK
  <1>3. UNCHANGED <<stage, todo, level, failures>>
    BY DEF vars
  <1>4. TypeOK'
    BY <1>2, <1>3 DEF Consistent, TypeOK, StateTypes
  <1>5. WorkIsConfined' /\ FailuresAreCounted' /\ BusesGoOff'
    BY <1>2, <1>3 DEF Consistent, WorkIsConfined, FailuresAreCounted, BusesGoOff
  <1>6. PowerComes' /\ PowerComesFirst' /\ OneBus'
    BY <1>2, <1>3 DEF Consistent, PowerComes, PowerComesFirst, EnabledBuses, OneBus
  <1>7. LinesAreInitialised'
    BY <1>2, <1>3 DEF Consistent, LinesAreInitialised, Initialised
  <1>8. QED
    BY <1>4, <1>5, <1>6, <1>7 DEF Consistent

(* Every step of the specification preserves the invariant. *)
LEMMA StepConsistent == Consistent /\ [Next]_vars => Consistent'
  <1> SUFFICES ASSUME Consistent, [Next]_vars PROVE Consistent'
    OBVIOUS
  <1>1. failures \in 0..MaxFailures /\ MaxFailures \in Nat
    BY UartConnectorAssumption DEF Consistent, TypeOK, StateTypes
  <1>2. ASSUME NEW t \in Threads, OperationFails(t)
        PROVE  Consistent'
    <2>1. /\ ~Idle(t) /\ Throws(t) /\ UNCHANGED <<config, level>>
          /\ failures < MaxFailures /\ failures' = failures + 1
      BY <1>2 DEF OperationFails
    <2>2. failures' \in 0..MaxFailures /\ failures' >= failures /\ failures' > 0
      BY <1>1, <2>1
    <2>3. QED
      BY <2>1, <2>2, ThrowsConsistent
  <1>3. ASSUME NEW t \in Threads, OperationRefused(t)
        PROVE  Consistent'
    <2>1. /\ ~Idle(t) /\ ~Succeeds(t) /\ Throws(t) /\ UNCHANGED <<config, level>>
          /\ failures' = failures
      BY <1>3 DEF OperationRefused
    <2>2. failures' \in 0..MaxFailures /\ failures' >= failures
      BY <1>1, <2>1
    <2>3. QED
      BY <2>1, <2>2, ThrowsConsistent
  <1>4. QED
    BY <1>2, <1>3, ConstructConsistent, ConstructedConsistent, ResetConsistent,
       SwitchConsistent, DestroyConsistent, DestroyedConsistent,
       OperateConsistent, StutterConsistent
       DEF Next
-----------------------------------------------------------------------------
(* The invariant holds of every behaviour. *)
THEOREM ConsistentAlways == Spec => []Consistent
  <1>1. QED
    BY InitConsistent, StepConsistent, PTL DEF Spec

(* The types of the state; only the owner is in a constructor or in a      *)
(* destructor.                                                             *)
THEOREM TypeCorrectness == Spec => []TypeOK
  <1>1. Consistent => TypeOK
    BY DEF Consistent
  <1>2. QED
    BY <1>1, ConsistentAlways, PTL

(* However the life of the object ends short of a termination, no bus      *)
(* stays enabled.                                                          *)
THEOREM ShutdownCorrectness == Spec => []BusesOffWhenGone
  <1>1. Consistent => BusesOffWhenGone
    BY DEF Consistent, BusesGoOff, BusesOffWhenGone, EnabledBuses
  <1>2. QED
    BY <1>1, ConsistentAlways, PTL

(* While the connector is being constructed, the bus is enabled only when  *)
(* the module has power.                                                   *)
THEOREM PowerUpCorrectness == Spec => []BusNeedsPower
  <1>1. ASSUME Consistent, object = "connector", stage = "constructing",
               EnabledBuses # {}, "power" \in lines
        PROVE  level["power"] = "high"
    <2>1. ~Some(todo[Owner], On("power"))
      BY <1>1 DEF Consistent, PowerComesFirst
    <2>2. ~Some(todo[Owner], High("power"))
      BY <2>1, Without, ClassesAreDisjoint
    <2>3. \A t \in Threads : t # Owner => todo[t] = <<>>
      BY <1>1 DEF Consistent, TypeOK
    <2>4. \A t \in Threads : ~Some(todo[t], High("power"))
      BY <2>2, <2>3, NoOperations
    <2>5. QED
      BY <1>1, <2>4 DEF Consistent, PowerComes
  <1>2. Consistent => BusNeedsPower
    BY <1>1 DEF BusNeedsPower
  <1>3. QED
    BY <1>2, ConsistentAlways, PTL

(* Unless an operation failed, the module has power whenever no call is    *)
(* under way, however the resets of several threads interleaved.           *)
THEOREM ResetCorrectness == Spec => []PoweredBetweenCalls
  <1>1. Consistent => PoweredBetweenCalls
    BY NoOperations DEF Consistent, PowerComes, PoweredBetweenCalls, Idle
  <1>2. QED
    BY <1>1, ConsistentAlways, PTL

(* No connector ends the program by setting a line that was never          *)
(* initialised: a driver's operation failed before.                        *)
THEOREM TerminationCorrectness == Spec => []TerminatesOnlyOnFailure
  <1>1. Consistent => TerminatesOnlyOnFailure
    BY DEF Consistent, FailuresAreCounted, TerminatesOnlyOnFailure
  <1>2. QED
    BY <1>1, ConsistentAlways, PTL

(* Unless an operation failed, at most one bus is enabled between calls.   *)
THEOREM SwitchCorrectness == Spec => []OneBusBetweenCalls
  <1>1. ASSUME Consistent, stage = "alive", Idle(Owner), failures = 0,
               NEW a \in EnabledBuses, NEW b \in EnabledBuses
        PROVE  a = b
    <2>1. ~\E A : Some(todo[Owner], A)
      BY <1>1, NoOperations DEF Idle
    <2>2. PICK bus \in SwitchLines : \A l \in SwitchLines \ {bus} : level[l] # "high"
      BY <1>1, <2>1 DEF Consistent, OneBus
    <2>3. QED
      BY <2>2 DEF EnabledBuses
  <1>2. Consistent => OneBusBetweenCalls
    BY <1>1 DEF OneBusBetweenCalls
  <1>3. QED
    BY <1>2, ConsistentAlways, PTL
=============================================================================
