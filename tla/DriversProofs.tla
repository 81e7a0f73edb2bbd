----------------------------- MODULE DriversProofs -----------------------------
(***************************************************************************)
(* The two buses, for any number of commands on both of them.              *)
(*                                                                         *)
(* The EEPROM: what it holds and what the commands report belong together, *)
(* for chips and pages of every size and data of every length, whether the *)
(* chip is storing or protected when a command meets it.                   *)
(*                                                                         *)
(* The codec: what its data interface is given is sound, wherever a player *)
(* was deleted before.                                                     *)
(***************************************************************************)
EXTENDS Drivers, TLAPS, SequenceTheorems

(***************************************************************************)
(* The inductive invariant: how far a command has come, and what is then   *)
(* in the chip.                                                            *)
(***************************************************************************)

\* What is left of a write and of a read
PutsFrom(data, k) ==
  [j \in 1 .. Len(data) - k + 1 |->
     IF j <= Len(data) - k THEN Event("put", data[k + j]) ELSE Event("stop", 0)]
TakesLeft(n) == [j \in 1 .. n + 1 |-> IF j <= n THEN Event("take", 0) ELSE Event("stop", 0)]

\* A write: k bytes of it are with the chip, or all are stored
Given(k) ==
  /\ todo = PutsFrom(job.data, k) /\ mode = "data" /\ at = Place(job.addr, k)
  /\ page = [j \in 1 .. k |-> <<Place(job.addr, j - 1), job.data[j]>>]

Holds == Stored(mem, job)

Writing ==
  \/ todo = Events(job) /\ page = << >>
  \/ todo = Tail(Events(job)) /\ page = << >> /\ mode = "address"
  \/ \E k \in 0 .. Len(job.data) : Given(k)
  \/ todo = << >> /\ (failed \/ Holds)

\* A read from an address: n bytes of it were taken
Taken(n) == buf = [j \in 1 .. n |-> mem[(job.addr + j - 1) % Size]]

ReadingAt ==
  /\ page = << >>
  /\ \/ todo = Events(job) /\ buf = << >>
     \/ todo = Tail(Events(job)) /\ mode = "address" /\ buf = << >>
     \/ todo = Tail(Tail(Events(job))) /\ at = job.addr /\ buf = << >>
     \/ \E k \in 0 .. job.count :
          /\ todo = TakesLeft(job.count - k) /\ mode = "send"
          /\ at = (job.addr + k) % Size /\ Taken(k)
     \/ todo = << >> /\ (failed \/ Taken(job.count))

\* A read from where the counter is
One == Len(buf) = 1 /\ buf[1] = mem[(at + Size - 1) % Size]

ReadingOn ==
  /\ page = << >>
  /\ \/ todo = Events(job) /\ buf = << >>
     \/ todo = TakesLeft(1) /\ mode = "send" /\ buf = << >>
     \/ todo = TakesLeft(0) /\ One
     \/ todo = << >> /\ (failed \/ One)

\* i2c_read: what it gives the chip goes to one page
Spilled ==
  /\ page \in Seq(LostPage \X {Released})
  /\ mode \in {"address", "data"} /\ (mode = "data" => at \in LostPage)

Blind ==
  \/ todo = Events(job) /\ page = << >>
  \/ todo = Tail(Events(job)) /\ page = << >> /\ mode = "address"
  \/ todo = Tail(Tail(Events(job))) /\ page = << >>
  \/ \E k \in 0 .. job.count : todo = TakesLeft(k) /\ Spilled
  \/ todo = << >>

Sound ==
  /\ mem = [a \in Addrs |-> mem[a]] /\ at \in Addrs
  /\ protected \in BOOLEAN /\ (protected => page = << >>)
  /\ failed \in BOOLEAN

Script ==
  /\ job \in EeCommands \cup {Idle0}
  /\ job = Idle0 => todo = << >>
  /\ todo # << >> => ~failed
  /\ todo = << >> => page = << >>
  /\ job.op \in {"write_page", "i2c_write"} => Writing
  /\ job.op \in {"read_seq", "read_rand"} => ReadingAt
  /\ job.op = "read_cur" => ReadingOn
  /\ job.op = "i2c_read" => Blind

RomInv == Sound /\ Script

(***************************************************************************)
(* Addresses.                                                              *)
(***************************************************************************)

\* Quotient and remainder
LEMMA Division ==
  ASSUME NEW a \in Nat, NEW p \in Nat \ {0}
  PROVE  /\ a \div p \in Nat /\ a % p \in 0 .. p - 1
         /\ a = ((a \div p) * p) + (a % p)
OBVIOUS

\* There is only one way to divide
LEMMA OneWay ==
  ASSUME NEW p \in Nat \ {0}, NEW q \in Nat, NEW r \in 0 .. p - 1,
         NEW s \in Nat, NEW t \in 0 .. p - 1, (q * p) + r = (s * p) + t
  PROVE  q = s /\ r = t
<1>1. \A x \in Nat : \A y \in Nat : x < y => (x * p) + p <= y * p
  <2>1. SUFFICES ASSUME NEW x \in Nat, NEW y \in Nat, x < y PROVE (x * p) + p <= y * p
    OBVIOUS
  <2>2. PICK d \in Nat : y = x + 1 + d
    <3>1. y - x - 1 \in Nat /\ y = x + 1 + (y - x - 1)
      BY <2>1
    <3>2. QED
      BY <3>1
  <2>3. y * p = (x * p) + p + (d * p) /\ d * p \in Nat
    BY <2>2
  <2>4. QED
    BY <2>3
<1>2. q * p \in Nat /\ s * p \in Nat
  OBVIOUS
<1>3. CASE q < s
  <2>1. (q * p) + p <= s * p
    BY <1>1, <1>3
  <2>2. QED
    BY <1>2, <2>1
<1>4. CASE s < q
  <2>1. (s * p) + p <= q * p
    BY <1>1, <1>4
  <2>2. QED
    BY <1>2, <2>1
<1>5. CASE q = s
  BY <1>2, <1>5
<1>6. QED
  BY <1>3, <1>4, <1>5

\* What is a multiple and a remainder is divided into them
LEMMA Divided ==
  ASSUME NEW p \in Nat \ {0}, NEW q \in Nat, NEW r \in 0 .. p - 1
  PROVE  ((q * p) + r) \div p = q /\ ((q * p) + r) % p = r
<1>1. PICK a \in Nat : a = (q * p) + r
  <2>1. q * p \in Nat
    OBVIOUS
  <2>2. QED
    BY <2>1
<1>2. a \div p \in Nat /\ a % p \in 0 .. p - 1 /\ a = ((a \div p) * p) + (a % p)
  BY Division
<1>3. a \div p = q /\ a % p = r
  BY <1>1, <1>2, OneWay
<1>4. QED
  BY <1>1, <1>3

\* A step after a remainder is a step before it
LEMMA StepInside ==
  ASSUME NEW a \in Nat, NEW p \in Nat \ {0}
  PROVE  ((a % p) + 1) % p = (a + 1) % p
<1>1. PICK q \in Nat, r \in 0 .. p - 1 : a = (q * p) + r /\ a % p = r
  BY Division
<1>2. q * p \in Nat
  OBVIOUS
<1>3. CASE r + 1 < p
  <2>1. (r + 1) % p = r + 1
    BY <1>3
  <2>2. a + 1 = (q * p) + (r + 1) /\ r + 1 \in 0 .. p - 1
    BY <1>1, <1>2, <1>3
  <2>3. (a + 1) % p = r + 1
    BY <2>2, Divided
  <2>4. QED
    BY <1>1, <2>1, <2>3
<1>4. CASE r + 1 = p
  <2>1. a + 1 = ((q + 1) * p) + 0 /\ 0 \in 0 .. p - 1 /\ q + 1 \in Nat
    BY <1>1, <1>2, <1>4
  <2>2. (a + 1) % p = 0
    <3>1. PICK s \in Nat, z \in 0 .. p - 1 : s = q + 1 /\ z = 0
      BY <2>1
    <3>2. a + 1 = (s * p) + z
      BY <2>1, <3>1
    <3>3. ((s * p) + z) % p = z
      BY <3>1, Divided
    <3>4. QED
      BY <3>1, <3>2, <3>3
  <2>3. p = (1 * p) + 0 /\ 1 \in Nat
    OBVIOUS
  <2>4. p % p = 0
    <3>1. PICK s \in Nat, z \in 0 .. p - 1 : s = 1 /\ z = 0
      BY <2>1
    <3>2. p = (s * p) + z
      BY <2>3, <3>1
    <3>3. ((s * p) + z) % p = z
      BY <3>1, Divided
    <3>4. QED
      BY <3>1, <3>2, <3>3
  <2>5. QED
    BY <1>1, <1>4, <2>2, <2>4
<1>5. QED
  BY <1>1, <1>3, <1>4

\* The constants
LEMMA RomConstants ==
  /\ Size \in Nat \ {0} /\ Page \in Nat \ {0} /\ Reach \in 1 .. Size /\ Size % Page = 0
  /\ Addrs = 0 .. Size - 1
BY EepromAssumption DEF Addrs

\* A write stays in the page it begins in
LEMMA PlaceInside ==
  ASSUME NEW a \in Addrs, NEW k \in Nat
  PROVE  Place(a, k) \in Addrs /\ Place(a, k) \div Page = a \div Page
<1>1. a \in Nat /\ a + k \in Nat /\ a < Size /\ Size \in Nat /\ Page \in Nat \ {0}
  BY RomConstants
<1>2. PICK q \in Nat, r \in 0 .. Page - 1 : a = (q * Page) + r /\ q = a \div Page
  BY <1>1, Division
<1>3. PICK m \in Nat : Size = m * Page
  <2>1. Size \div Page \in Nat /\ Size = ((Size \div Page) * Page) + (Size % Page)
    BY <1>1, Division
  <2>2. (Size \div Page) * Page \in Nat
    BY <1>1, <2>1
  <2>3. Size % Page = 0
    BY RomConstants
  <2>4. Size = (Size \div Page) * Page
    BY <1>1, <2>1, <2>2, <2>3
  <2>5. QED
    BY <2>1, <2>4
<1>4. PICK s \in 0 .. Page - 1 : s = (a + k) % Page
  BY <1>1, Division
<1>5. (q * Page) + Page <= m * Page
  <2>1. q * Page < m * Page
    BY <1>1, <1>2, <1>3
  <2>2. q < m
    <3>1. SUFFICES ASSUME m <= q PROVE FALSE
      OBVIOUS
    <3>2. PICK d \in Nat : q = m + d
      <4>1. q - m \in Nat /\ q = m + (q - m)
        BY <3>1
      <4>2. QED
        BY <4>1
    <3>3. q * Page = (m * Page) + (d * Page) /\ d * Page \in Nat /\ m * Page \in Nat
      BY <1>1, <3>2
    <3>4. QED
      BY <2>1, <3>3
  <2>3. PICK d \in Nat : m = q + 1 + d
    <3>1. m - q - 1 \in Nat /\ m = q + 1 + (m - q - 1)
      BY <2>2
    <3>2. QED
      BY <3>1
  <2>4. m * Page = (q * Page) + Page + (d * Page) /\ d * Page \in Nat /\ q * Page \in Nat
    BY <1>1, <2>3
  <2>5. QED
    BY <1>1, <2>4
<1>6. Place(a, k) = (q * Page) + s
  BY <1>2, <1>4 DEF Place
<1>7. Place(a, k) \in Addrs
  <2>1. q * Page \in Nat /\ m * Page \in Nat
    BY <1>1
  <2>2. (q * Page) + s \in 0 .. Size - 1
    BY <1>1, <1>3, <1>5, <2>1
  <2>3. QED
    BY <1>6, <2>2, RomConstants
<1>8. ((q * Page) + s) \div Page = q
  BY <1>1, Divided
<1>9. QED
  BY <1>2, <1>6, <1>7, <1>8

\* It begins at its address
LEMMA PlaceFirst ==
  ASSUME NEW a \in Addrs PROVE Place(a, 0) = a
<1>1. a \in Nat /\ Page \in Nat \ {0} /\ a + 0 = a
  BY RomConstants
<1>2. a = ((a \div Page) * Page) + (a % Page)
  BY <1>1, Division
<1>3. QED
  BY <1>1, <1>2 DEF Place

\* And goes on to the next address, at the end of the page to its beginning
LEMMA PlaceAfter ==
  ASSUME NEW a \in Addrs, NEW k \in Nat
  PROVE  NextInPage(Place(a, k)) = Place(a, k + 1)
<1>1. a \in Nat /\ a + k \in Nat /\ a + (k + 1) = (a + k) + 1 /\ Page \in Nat \ {0}
  BY RomConstants
<1>2. PICK q \in Nat, s \in 0 .. Page - 1 : q = a \div Page /\ s = (a + k) % Page
  BY <1>1, Division
<1>3. PICK x \in Nat : x = (q * Page) + s
  <2>1. q * Page \in Nat
    BY <1>1
  <2>2. QED
    BY <1>1, <2>1
<1>4. x \div Page = q /\ x % Page = s
  BY <1>1, <1>3, Divided
<1>5. (x + 1) % Page = (s + 1) % Page
  BY <1>1, <1>4, StepInside
<1>6. ((a + k) + 1) % Page = (s + 1) % Page
  BY <1>1, <1>2, StepInside
<1>7. Place(a, k) = x /\ Place(a, k + 1) = (q * Page) + ((s + 1) % Page)
  BY <1>1, <1>2, <1>3, <1>6 DEF Place
<1>8. NextInPage(x) = (q * Page) + ((s + 1) % Page)
  BY <1>4, <1>5 DEF NextInPage
<1>9. QED
  BY <1>7, <1>8

\* Less than a page apart, the bytes of a write have places of their own
LEMMA PlaceApart ==
  ASSUME NEW a \in Addrs, NEW k \in Nat, NEW d \in 1 .. Page - 1
  PROVE  Place(a, k) # Place(a, k + d)
<1>1. a \in Nat /\ a + k \in Nat /\ a + (k + d) = (a + k) + d /\ Page \in Nat \ {0}
  BY RomConstants
<1>2. PICK x \in Nat : x = a + k
  BY <1>1
<1>3. PICK q \in Nat, r \in 0 .. Page - 1 : x = (q * Page) + r /\ r = x % Page
  BY <1>1, Division
<1>4. PICK u \in Nat, v \in 0 .. Page - 1 : x + d = (u * Page) + v /\ v = (x + d) % Page
  <2>1. x + d \in Nat
    BY <1>2
  <2>2. QED
    BY <1>1, <2>1, Division
<1>5. q * Page \in Nat /\ u * Page \in Nat
  BY <1>1
<1>6. r # v
  <2>1. CASE r + d < Page
    <3>1. (q * Page) + (r + d) = (u * Page) + v /\ r + d \in 0 .. Page - 1
      BY <1>1, <1>3, <1>4, <1>5, <2>1
    <3>2. r + d = v
      BY <1>1, <3>1, OneWay
    <3>3. QED
      BY <1>1, <3>2
  <2>2. CASE r + d >= Page
    <3>1. PICK z \in 0 .. Page - 1 : z = r + d - Page
      BY <1>1, <2>2
    <3>2. (q + 1) * Page = (q * Page) + Page /\ q + 1 \in Nat
      BY <1>1
    <3>3. ((q + 1) * Page) + z = (u * Page) + v
      BY <1>1, <1>3, <1>4, <1>5, <3>1, <3>2
    <3>4. z = v
      BY <1>1, <3>2, <3>3, OneWay
    <3>5. QED
      BY <1>1, <3>1, <3>4
  <2>3. QED
    BY <1>1, <2>1, <2>2
<1>7. PICK b \in Nat : b = (a \div Page) * Page
  <2>1. a \div Page \in Nat
    BY <1>1, Division
  <2>2. QED
    BY <1>1, <2>1
<1>8. Place(a, k) = b + r /\ Place(a, k + d) = b + v
  BY <1>1, <1>2, <1>3, <1>4, <1>7 DEF Place
<1>9. QED
  BY <1>1, <1>6, <1>7, <1>8

\* The address counter of a write
LEMMA CounterInside ==
  ASSUME NEW a \in Addrs PROVE NextInPage(a) \in Addrs
<1>1. NextInPage(Place(a, 0)) = Place(a, 0 + 1) /\ Place(a, 0) = a
  BY PlaceFirst, PlaceAfter
<1>2. Place(a, 0 + 1) \in Addrs
  BY PlaceInside
<1>3. QED
  BY <1>1, <1>2

\* And so does the page that i2c_read writes to
LEMMA LostInside ==
  ASSUME NEW a \in LostPage PROVE a \in Addrs /\ NextInPage(a) \in LostPage
<1>1. a \in Addrs
  BY DEF LostPage
<1>2. NextInPage(Place(a, 0)) = Place(a, 0 + 1) /\ Place(a, 0) = a
  BY <1>1, PlaceFirst, PlaceAfter
<1>3. Place(a, 0 + 1) \in Addrs /\ Place(a, 0 + 1) \div Page = a \div Page
  BY <1>1, PlaceInside
<1>4. QED
  BY <1>1, <1>2, <1>3 DEF LostPage

\* The address counter of a read
LEMMA CounterRound ==
  ASSUME NEW a \in Addrs, NEW k \in Nat
  PROVE  /\ (a + k) % Size \in Addrs
         /\ (((a + k) % Size) + 1) % Size = (a + (k + 1)) % Size
<1>1. a \in Nat /\ a + k \in Nat /\ a + (k + 1) = (a + k) + 1 /\ Size \in Nat \ {0}
  BY RomConstants
<1>2. (a + k) % Size \in Addrs
  BY <1>1, Division, RomConstants
<1>3. (((a + k) % Size) + 1) % Size = ((a + k) + 1) % Size
  BY <1>1, StepInside
<1>4. QED
  BY <1>1, <1>2, <1>3

(***************************************************************************)
(* Scripts.                                                                *)
(***************************************************************************)

\* All events
Ev == {Event(op, arg) : op \in {"start", "put", "take", "stop"},
                        arg \in {"write", "read"} \cup Nat \cup Bytes}

\* What there is to say of a command
LEMMA Kinds ==
  ASSUME NEW c \in EeCommands
  PROVE  /\ c.op \in {"write_page", "i2c_write", "read_seq", "read_rand", "read_cur", "i2c_read"}
         /\ c.op \in {"write_page", "i2c_write"} => c.addr \in 0 .. Reach - 1 /\ c.data \in Datas
         /\ c.op \in {"read_seq", "read_rand", "i2c_read"} =>
              c.addr \in 0 .. Reach - 1 /\ c.count \in Nat
         /\ c.op = "read_cur" => c.count = 1
         /\ c # Idle0
<1>1. Counts \subseteq Nat /\ 1 \in Nat
  BY EepromAssumption
<1>2. CASE c \in [op : {"write_page", "i2c_write"}, addr : 0 .. Reach - 1, data : Datas]
  BY <1>2 DEF Idle0
<1>3. CASE c \in [op : {"read_seq", "i2c_read"}, addr : 0 .. Reach - 1, count : Counts]
  <2>1. c.op \in {"read_seq", "i2c_read"} /\ c.addr \in 0 .. Reach - 1 /\ c.count \in Counts
    BY <1>3
  <2>2. c.op # Idle0.op
    BY <2>1 DEF Idle0
  <2>3. QED
    BY <1>1, <2>1, <2>2
<1>4. CASE c \in [op : {"read_rand"}, addr : 0 .. Reach - 1, count : {1}]
  BY <1>1, <1>4 DEF Idle0
<1>5. CASE c = [op |-> "read_cur", count |-> 1]
  BY <1>5 DEF Idle0
<1>6. QED
  BY <1>2, <1>3, <1>4, <1>5 DEF EeCommands

\* An address that fits the address byte arrives as it is
LEMMA Reached ==
  ASSUME NEW a \in 0 .. Reach - 1
  PROVE  a \in Nat /\ a \in Addrs /\ a % Reach = a
BY RomConstants

\* Any address byte is one of the chip's addresses
LEMMA ReachedInside ==
  ASSUME NEW b \in Nat PROVE b % Reach \in Addrs
<1>1. Reach \in Nat \ {0} /\ Reach <= Size /\ Size \in Nat
  BY RomConstants
<1>2. b % Reach \in 0 .. Reach - 1
  BY <1>1, Division
<1>3. QED
  BY <1>1, <1>2, RomConstants

\* The data of a write
LEMMA DataShape ==
  ASSUME NEW data \in Datas
  PROVE  /\ Len(data) \in Nat /\ DOMAIN data = 1 .. Len(data)
         /\ \A j \in 1 .. Len(data) : data[j] \in Bytes
<1>1. PICK n \in Counts : data \in [1 .. n -> Bytes]
  BY DEF Datas
<1>2. n \in Nat
  BY EepromAssumption
<1>3. data \in Seq(Bytes) /\ DOMAIN data = 1 .. n
  BY <1>1, <1>2
<1>4. Len(data) = n
  BY <1>2, <1>3, LenProperties
<1>5. QED
  BY <1>1, <1>2, <1>4

\* Two events and what comes behind them
LEMMA Behind ==
  ASSUME NEW d \in Seq(Ev), Len(d) = 2, NEW s \in Seq(Ev)
  PROVE  /\ d \o s # << >> /\ Head(d \o s) = d[1]
         /\ Tail(d \o s) # << >> /\ Head(Tail(d \o s)) = d[2] /\ Tail(Tail(d \o s)) = s
<1>0. PICK r : r = d \o s
  OBVIOUS
<1>1. PICK n \in Nat : n = Len(s)
  BY LenProperties
<1>2. /\ r \in Seq(Ev) /\ Len(r) = n + 2 /\ r[1] = d[1] /\ r[2] = d[2]
      /\ \A i \in 1 .. n : r[i + 2] = s[i]
  <2>1. /\ r \in Seq(Ev) /\ Len(r) = Len(d) + Len(s)
        /\ \A i \in 1 .. Len(d) + Len(s) : r[i] = IF i <= Len(d) THEN d[i] ELSE s[i - Len(d)]
    BY <1>0, ConcatProperties
  <2>2. \A i \in 1 .. n + 2 : r[i] = IF i <= 2 THEN d[i] ELSE s[i - 2]
    BY <1>1, <2>1
  <2>3. r[1] = d[1] /\ r[2] = d[2]
    <3>1. 1 \in 1 .. n + 2 /\ 2 \in 1 .. n + 2 /\ 1 <= 2 /\ 2 <= 2
      BY <1>1
    <3>2. QED
      BY <2>2, <3>1
  <2>4. ASSUME NEW i \in 1 .. n PROVE r[i + 2] = s[i]
    <3>1. i + 2 \in 1 .. n + 2 /\ ~(i + 2 <= 2) /\ (i + 2) - 2 = i
      BY <1>1
    <3>2. QED
      BY <2>2, <3>1
  <2>5. QED
    BY <1>1, <2>1, <2>3, <2>4
<1>3. r # << >> /\ Head(r) = d[1]
  BY <1>1, <1>2, HeadTailProperties, EmptySeq
<1>4. PICK t : t = Tail(r)
  OBVIOUS
<1>5. t \in Seq(Ev) /\ Len(t) = n + 1 /\ \A i \in 1 .. n + 1 : t[i] = r[i + 1]
  BY <1>1, <1>2, <1>3, <1>4, HeadTailProperties
<1>6. t # << >> /\ Head(t) = d[2]
  BY <1>1, <1>2, <1>5, HeadTailProperties, EmptySeq
<1>7. Tail(t) \in Seq(Ev) /\ Len(Tail(t)) = n /\ \A i \in 1 .. n : Tail(t)[i] = t[i + 1]
  BY <1>1, <1>5, <1>6, HeadTailProperties
<1>8. \A i \in 1 .. n : Tail(t)[i] = s[i]
  <2>1. SUFFICES ASSUME NEW i \in 1 .. n PROVE Tail(t)[i] = s[i]
    OBVIOUS
  <2>2. i + 1 \in 1 .. n + 1 /\ (i + 1) + 1 = i + 2
    BY <1>1
  <2>3. QED
    BY <1>2, <1>5, <1>7, <2>2
<1>9. Tail(t) = s
  BY <1>1, <1>7, <1>8, SeqEqual
<1>10. QED
  BY <1>0, <1>3, <1>4, <1>6, <1>9

\* What is left of a write: the next byte, in the end the stop condition
LEMMA PutsOn ==
  ASSUME NEW data \in Datas, NEW k \in 0 .. Len(data)
  PROVE  /\ PutsFrom(data, k) \in Seq(Ev) /\ PutsFrom(data, k) # << >>
         /\ k < Len(data) => /\ Head(PutsFrom(data, k)) = Event("put", data[k + 1])
                             /\ Tail(PutsFrom(data, k)) = PutsFrom(data, k + 1)
         /\ k = Len(data) => /\ Head(PutsFrom(data, k)) = Event("stop", 0)
                             /\ Tail(PutsFrom(data, k)) = << >>
<1>1. PICK n \in Nat : n = Len(data)
  BY DataShape
<1>2. \A j \in 1 .. n : data[j] \in Bytes
  BY <1>1, DataShape
<1>3. ASSUME NEW l \in 0 .. n
      PROVE  /\ PutsFrom(data, l) \in Seq(Ev) /\ Len(PutsFrom(data, l)) = n - l + 1
             /\ \A j \in 1 .. n - l + 1 : PutsFrom(data, l)[j] =
                  IF j <= n - l THEN Event("put", data[l + j]) ELSE Event("stop", 0)
  <2>1. PutsFrom(data, l) = [j \in 1 .. n - l + 1 |->
           IF j <= n - l THEN Event("put", data[l + j]) ELSE Event("stop", 0)]
    BY <1>1 DEF PutsFrom
  <2>2. ASSUME NEW j \in 1 .. n - l + 1
        PROVE  (IF j <= n - l THEN Event("put", data[l + j]) ELSE Event("stop", 0)) \in Ev
    <3>1. j <= n - l => data[l + j] \in Bytes
      BY <1>1, <1>2
    <3>2. QED
      BY <3>1 DEF Ev
  <2>3. PutsFrom(data, l) \in [1 .. n - l + 1 -> Ev] /\ n - l + 1 \in Nat
    <3>1. PICK g, m : g = PutsFrom(data, l) /\ m = n - l + 1
      OBVIOUS
    <3>2. /\ g = [j \in 1 .. m |->
                   IF j <= n - l THEN Event("put", data[l + j]) ELSE Event("stop", 0)]
      BY <2>1, <3>1
    <3>3. \A j \in 1 .. m : g[j] \in Ev
      BY <2>2, <3>1, <3>2
    <3>4. g \in [1 .. m -> Ev]
      BY <3>2, <3>3
    <3>5. m \in Nat
      BY <1>1, <3>1
    <3>6. QED
      BY <3>1, <3>4, <3>5
  <2>4. PutsFrom(data, l) \in Seq(Ev)
    BY <2>3, SeqDef
  <2>5. Len(PutsFrom(data, l)) = n - l + 1
    BY <2>3, <2>4, LenProperties
  <2>6. QED
    BY <2>1, <2>4, <2>5
<1>4. PICK s : s = PutsFrom(data, k)
  OBVIOUS
<1>5. /\ s \in Seq(Ev) /\ Len(s) = n - k + 1 /\ k \in 0 .. n
      /\ \A j \in 1 .. n - k + 1 : s[j] =
           IF j <= n - k THEN Event("put", data[k + j]) ELSE Event("stop", 0)
  BY <1>1, <1>3, <1>4
<1>6. s # << >> /\ Head(s) = s[1]
  BY <1>1, <1>5, EmptySeq
<1>7. /\ Tail(s) \in Seq(Ev) /\ Len(Tail(s)) = n - k
      /\ \A i \in 1 .. n - k : Tail(s)[i] = s[i + 1]
  BY <1>1, <1>5, <1>6, HeadTailProperties
<1>8. CASE k < n
  <2>1. Head(s) = Event("put", data[k + 1])
    BY <1>1, <1>5, <1>6, <1>8
  <2>2. PICK u : u = PutsFrom(data, k + 1)
    OBVIOUS
  <2>3. /\ u \in Seq(Ev) /\ Len(u) = n - k
        /\ \A j \in 1 .. n - k : u[j] =
             IF j <= n - (k + 1) THEN Event("put", data[(k + 1) + j]) ELSE Event("stop", 0)
    <3>1. k + 1 \in 0 .. n /\ n - (k + 1) + 1 = n - k
      BY <1>1, <1>5, <1>8
    <3>2. PICK l \in 0 .. n : l = k + 1
      BY <3>1
    <3>3. QED
      BY <1>3, <2>2, <3>1, <3>2
  <2>4. ASSUME NEW i \in 1 .. n - k PROVE Tail(s)[i] = u[i]
    <3>1. /\ i + 1 \in 1 .. n - k + 1 /\ k + (i + 1) = (k + 1) + i
          /\ (i + 1 <= n - k <=> i <= n - (k + 1))
      BY <1>1, <1>5
    <3>2. s[i + 1] = IF i + 1 <= n - k THEN Event("put", data[k + (i + 1)]) ELSE Event("stop", 0)
      BY <1>5, <3>1
    <3>3. QED
      BY <1>7, <2>3, <3>1, <3>2
  <2>5. Tail(s) = u
    BY <1>7, <2>3, <2>4, SeqEqual
  <2>6. QED
    BY <1>1, <1>4, <1>5, <1>6, <1>8, <2>1, <2>2, <2>5
<1>9. CASE k = n
  <2>1. Head(s) = Event("stop", 0)
    BY <1>1, <1>5, <1>6, <1>9
  <2>2. Tail(s) = << >>
    <3>1. Len(Tail(s)) = 0
      BY <1>1, <1>7, <1>9
    <3>2. QED
      BY <1>7, <3>1, EmptySeq
  <2>3. QED
    BY <1>1, <1>4, <1>5, <1>6, <1>9, <2>1, <2>2
<1>10. QED
  BY <1>1, <1>5, <1>8, <1>9

\* What is left of a read
LEMMA TakesOn ==
  ASSUME NEW n \in Nat
  PROVE  /\ TakesLeft(n) \in Seq(Ev) /\ TakesLeft(n) # << >>
         /\ n > 0 => /\ Head(TakesLeft(n)) = Event("take", 0)
                     /\ Tail(TakesLeft(n)) = TakesLeft(n - 1)
         /\ n = 0 => /\ Head(TakesLeft(n)) = Event("stop", 0)
                     /\ Tail(TakesLeft(n)) = << >>
         /\ Len(TakesLeft(n)) = n + 1
         /\ \A j \in 1 .. n + 1 :
              TakesLeft(n)[j] = IF j <= n THEN Event("take", 0) ELSE Event("stop", 0)
<1>1. Event("take", 0) \in Ev /\ Event("stop", 0) \in Ev
  BY DEF Ev
<1>2. ASSUME NEW l \in Nat
      PROVE  /\ TakesLeft(l) \in Seq(Ev) /\ Len(TakesLeft(l)) = l + 1
             /\ \A j \in 1 .. l + 1 : TakesLeft(l)[j] =
                  IF j <= l THEN Event("take", 0) ELSE Event("stop", 0)
  <2>1. TakesLeft(l) = [j \in 1 .. l + 1 |-> IF j <= l THEN Event("take", 0) ELSE Event("stop", 0)]
    BY DEF TakesLeft
  <2>2. TakesLeft(l) \in [1 .. l + 1 -> Ev] /\ l + 1 \in Nat
    BY <1>1, <2>1
  <2>3. TakesLeft(l) \in Seq(Ev)
    BY <2>2, SeqDef
  <2>4. Len(TakesLeft(l)) = l + 1
    BY <2>2, <2>3, LenProperties
  <2>5. QED
    BY <2>1, <2>3, <2>4
<1>3. PICK s : s = TakesLeft(n)
  OBVIOUS
<1>4. /\ s \in Seq(Ev) /\ Len(s) = n + 1
      /\ \A j \in 1 .. n + 1 : s[j] = IF j <= n THEN Event("take", 0) ELSE Event("stop", 0)
  BY <1>2, <1>3
<1>5. s # << >> /\ Head(s) = s[1]
  BY <1>4, EmptySeq
<1>6. Tail(s) \in Seq(Ev) /\ Len(Tail(s)) = n /\ \A i \in 1 .. n : Tail(s)[i] = s[i + 1]
  BY <1>4, <1>5, HeadTailProperties
<1>7. CASE n > 0
  <2>1. Head(s) = Event("take", 0)
    BY <1>4, <1>5, <1>7
  <2>2. PICK u : u = TakesLeft(n - 1)
    OBVIOUS
  <2>3. /\ u \in Seq(Ev) /\ Len(u) = n
        /\ \A j \in 1 .. n : u[j] = IF j <= n - 1 THEN Event("take", 0) ELSE Event("stop", 0)
    <3>1. n - 1 \in Nat /\ (n - 1) + 1 = n
      BY <1>7
    <3>2. QED
      BY <1>2, <2>2, <3>1
  <2>4. ASSUME NEW i \in 1 .. n PROVE Tail(s)[i] = u[i]
    <3>1. i + 1 \in 1 .. n + 1 /\ (i + 1 <= n <=> i <= n - 1)
      OBVIOUS
    <3>2. QED
      BY <1>4, <1>6, <2>3, <3>1
  <2>5. Tail(s) = u
    BY <1>6, <2>3, <2>4, SeqEqual
  <2>6. QED
    BY <1>3, <1>4, <1>5, <1>7, <2>1, <2>2, <2>5
<1>8. CASE n = 0
  <2>1. Head(s) = Event("stop", 0)
    BY <1>4, <1>5, <1>8
  <2>2. Tail(s) = << >>
    BY <1>6, <1>8, EmptySeq
  <2>3. QED
    BY <1>3, <1>4, <1>5, <1>8, <2>1, <2>2
<1>9. QED
  BY <1>7, <1>8

\* A write: the start condition, the address, the bytes
LEMMA WriteScript ==
  ASSUME NEW c \in EeCommands, c.op \in {"write_page", "i2c_write"}
  PROVE  /\ Events(c) # << >> /\ Head(Events(c)) = Event("start", "write")
         /\ Tail(Events(c)) # << >> /\ Head(Tail(Events(c))) = Event("put", c.addr)
         /\ Tail(Tail(Events(c))) = PutsFrom(c.data, 0)
<1>1. c.addr \in Nat /\ c.data \in Datas
  BY Kinds, Reached
<1>2. PICK n \in Nat : n = Len(c.data) /\ DOMAIN c.data = 1 .. n
  BY <1>1, DataShape
<1>3. \A j \in 1 .. n : c.data[j] \in Bytes
  BY <1>1, <1>2, DataShape
<1>4. PICK p : p = Puts(c.data)
  OBVIOUS
<1>5. p = [j \in 1 .. n |-> Event("put", c.data[j])]
  BY <1>2, <1>4 DEF Puts
<1>6. p \in [1 .. n -> Ev]
  <2>1. ASSUME NEW j \in 1 .. n PROVE Event("put", c.data[j]) \in Ev
    BY <1>3 DEF Ev
  <2>2. QED
    BY <1>5, <2>1
<1>7. p \in Seq(Ev) /\ Len(p) = n
  <2>1. p \in Seq(Ev)
    BY <1>6, SeqDef
  <2>2. QED
    BY <1>6, <2>1, LenProperties
<1>8. Stop \in Seq(Ev) /\ Len(Stop) = 1 /\ Stop[1] = Event("stop", 0)
  <2>1. Event("stop", 0) \in Ev
    BY DEF Ev
  <2>2. QED
    BY <2>1 DEF Stop
<1>9. p \o Stop = PutsFrom(c.data, 0)
  <2>1. PICK s : s = p \o Stop
    OBVIOUS
  <2>2. /\ s \in Seq(Ev) /\ Len(s) = n + 1
        /\ \A i \in 1 .. n + 1 : s[i] = IF i <= n THEN p[i] ELSE Stop[i - n]
    BY <1>7, <1>8, <2>1, ConcatProperties
  <2>3. s \in [1 .. n + 1 -> Ev]
    BY <2>2, LenProperties
  <2>4. ASSUME NEW i \in 1 .. n + 1
        PROVE  s[i] = IF i <= n THEN Event("put", c.data[i]) ELSE Event("stop", 0)
    <3>1. CASE i <= n
      BY <1>5, <2>2, <3>1
    <3>2. CASE ~(i <= n)
      <4>1. i - n = 1
        BY <3>2
      <4>2. QED
        BY <1>8, <2>2, <3>2, <4>1
    <3>3. QED
      BY <3>1, <3>2
  <2>5. PutsFrom(c.data, 0) =
          [i \in 1 .. n + 1 |-> IF i <= n THEN Event("put", c.data[i]) ELSE Event("stop", 0)]
    <3>1. n - 0 + 1 = n + 1 /\ n - 0 = n /\ \A i \in 1 .. n + 1 : 0 + i = i
      OBVIOUS
    <3>2. QED
      BY <1>2, <3>1 DEF PutsFrom
  <2>6. QED
    BY <2>1, <2>3, <2>4, <2>5
<1>10. PICK x, y : x = Event("start", "write") /\ y = Event("put", c.addr)
  OBVIOUS
<1>11. x \in Ev /\ y \in Ev /\ <<x, y>> \in Seq(Ev)
  <2>1. x \in Ev /\ y \in Ev
    BY <1>1, <1>10 DEF Ev
  <2>2. QED
    BY <2>1
<1>12. Events(c) = (<<x, y>> \o p) \o Stop
  BY <1>4, <1>10 DEF Events, WritePage, send_addr
<1>13. Events(c) = <<x, y>> \o (p \o Stop)
  BY <1>7, <1>8, <1>11, <1>12, ConcatAssociative
<1>14. p \o Stop \in Seq(Ev)
  BY <1>7, <1>8, ConcatProperties
<1>15. QED
  <2>1. PICK s \in Seq(Ev) : s = PutsFrom(c.data, 0)
    BY <1>9, <1>14
  <2>2. PICK d \in Seq(Ev) : d = <<x, y>> /\ Len(d) = 2 /\ d[1] = x /\ d[2] = y
    BY <1>11
  <2>3. PICK r : r = Events(c)
    OBVIOUS
  <2>4. r = d \o s
    BY <1>9, <1>13, <2>1, <2>2, <2>3
  <2>5. /\ r # << >> /\ Head(r) = d[1]
        /\ Tail(r) # << >> /\ Head(Tail(r)) = d[2] /\ Tail(Tail(r)) = s
    <3>1. Len(d) = 2
      BY <2>2
    <3>2. QED
      BY <2>4, <3>1, Behind
  <2>6. QED
    BY <1>10, <2>1, <2>2, <2>3, <2>5

\* One event and what comes behind it
LEMMA BehindOne ==
  ASSUME NEW x \in Ev, NEW s \in Seq(Ev)
  PROVE  /\ <<x>> \o s \in Seq(Ev) /\ <<x>> \o s # << >>
         /\ Head(<<x>> \o s) = x /\ Tail(<<x>> \o s) = s
<1>1. PICK r : r = <<x>> \o s
  OBVIOUS
<1>2. <<x>> \in Seq(Ev) /\ Len(<<x>>) = 1 /\ <<x>>[1] = x
  OBVIOUS
<1>3. PICK n \in Nat : n = Len(s)
  BY LenProperties
<1>4. /\ r \in Seq(Ev) /\ Len(r) = n + 1
      /\ \A i \in 1 .. n + 1 : r[i] = IF i <= 1 THEN <<x>>[i] ELSE s[i - 1]
  <2>1. /\ r \in Seq(Ev) /\ Len(r) = Len(<<x>>) + Len(s)
        /\ \A i \in 1 .. Len(<<x>>) + Len(s) :
             r[i] = IF i <= Len(<<x>>) THEN <<x>>[i] ELSE s[i - Len(<<x>>)]
    BY <1>1, <1>2, ConcatProperties
  <2>2. QED
    BY <1>2, <1>3, <2>1
<1>5. r # << >> /\ Head(r) = x
  <2>1. r # << >> /\ r[1] = x
    BY <1>2, <1>3, <1>4, EmptySeq
  <2>2. QED
    BY <1>4, <2>1
<1>6. Tail(r) \in Seq(Ev) /\ Len(Tail(r)) = n /\ \A i \in 1 .. n : Tail(r)[i] = r[i + 1]
  BY <1>3, <1>4, <1>5, HeadTailProperties
<1>7. ASSUME NEW i \in 1 .. n PROVE Tail(r)[i] = s[i]
  <2>1. i + 1 \in 1 .. n + 1 /\ ~(i + 1 <= 1) /\ (i + 1) - 1 = i
    BY <1>3
  <2>2. QED
    BY <1>4, <1>6, <2>1
<1>8. Tail(r) = s
  BY <1>3, <1>6, <1>7, SeqEqual
<1>9. QED
  BY <1>1, <1>4, <1>5, <1>8

\* The stop condition
LEMMA StopShape == Stop \in Seq(Ev) /\ Len(Stop) = 1 /\ Stop[1] = Event("stop", 0)
<1>1. Event("stop", 0) \in Ev
  BY DEF Ev
<1>2. QED
  BY <1>1 DEF Stop

\* The bytes of a read and its stop condition
LEMMA TakesStop ==
  ASSUME NEW n \in Nat
  PROVE  Takes(n) \in Seq(Ev) /\ Takes(n) \o Stop = TakesLeft(n)
<1>1. PICK p : p = Takes(n)
  OBVIOUS
<1>2. p = [j \in 1 .. n |-> Event("take", 0)]
  BY <1>1 DEF Takes
<1>3. Event("take", 0) \in Ev
  BY DEF Ev
<1>4. p \in [1 .. n -> Ev]
  BY <1>2, <1>3
<1>5. p \in Seq(Ev)
  BY <1>4, SeqDef
<1>6. Len(p) = n
  BY <1>4, <1>5, LenProperties
<1>7. PICK s : s = p \o Stop
  OBVIOUS
<1>8. /\ s \in Seq(Ev) /\ Len(s) = n + 1
      /\ \A i \in 1 .. n + 1 : s[i] = IF i <= n THEN p[i] ELSE Stop[i - n]
  <2>1. PICK e \in Seq(Ev) : e = Stop /\ Len(e) = 1
    BY StopShape
  <2>2. s = p \o e
    BY <1>7, <2>1
  <2>3. /\ p \o e \in Seq(Ev) /\ Len(p \o e) = Len(p) + Len(e)
        /\ \A i \in 1 .. Len(p) + Len(e) :
             (p \o e)[i] = IF i <= Len(p) THEN p[i] ELSE e[i - Len(p)]
    BY <1>5, ConcatProperties, Zenon
  <2>4. QED
    BY <1>6, <2>1, <2>2, <2>3
<1>9. PICK u : u = TakesLeft(n)
  OBVIOUS
<1>10. /\ u \in Seq(Ev) /\ Len(u) = n + 1
       /\ \A i \in 1 .. n + 1 : u[i] = IF i <= n THEN Event("take", 0) ELSE Event("stop", 0)
  BY <1>9, TakesOn
<1>11. ASSUME NEW i \in 1 .. n + 1 PROVE s[i] = u[i]
  <2>1. CASE i <= n
    BY <1>2, <1>8, <1>10, <2>1
  <2>2. CASE ~(i <= n)
    <3>1. i - n = 1
      BY <2>2
    <3>2. QED
      BY <1>8, <1>10, <2>2, <3>1, StopShape
  <2>3. QED
    BY <2>1, <2>2
<1>12. s = u
  BY <1>8, <1>10, <1>11, SeqEqual
<1>13. QED
  BY <1>1, <1>5, <1>7, <1>9, <1>12

\* What the second start condition of a read asks for
Turn(c) == IF c.op = "i2c_read" THEN "write" ELSE "read"

\* A read from an address
LEMMA ReadScript ==
  ASSUME NEW c \in EeCommands, c.op \in {"read_seq", "read_rand", "i2c_read"}
  PROVE  /\ Events(c) # << >> /\ Head(Events(c)) = Event("start", "write")
         /\ Tail(Events(c)) # << >> /\ Head(Tail(Events(c))) = Event("put", c.addr)
         /\ Tail(Tail(Events(c))) # << >>
         /\ Head(Tail(Tail(Events(c)))) = Event("start", Turn(c))
         /\ Tail(Tail(Tail(Events(c)))) = TakesLeft(c.count)
<1>1. c.addr \in Nat /\ c.count \in Nat
  BY Kinds, Reached
<1>2. PICK x, y, z : /\ x = Event("start", "write") /\ y = Event("put", c.addr)
                     /\ z = Event("start", Turn(c))
  OBVIOUS
<1>3. x \in Ev /\ y \in Ev /\ z \in Ev
  BY <1>1, <1>2 DEF Ev, Turn
<1>4. <<x, y>> \in Seq(Ev) /\ <<z>> \in Seq(Ev)
  BY <1>3
<1>5. Events(c) = ((<<x, y>> \o <<z>>) \o Takes(c.count)) \o Stop
  <2>1. CASE c.op = "i2c_read"
    BY <1>2, <2>1 DEF Events, I2cRead, send_addr, Turn
  <2>2. CASE c.op \in {"read_seq", "read_rand"}
    BY <1>2, <2>2 DEF Events, ReadSeq, send_addr, Turn
  <2>3. QED
    BY <2>1, <2>2
<1>6. PICK t, u : t = Takes(c.count) /\ u = TakesLeft(c.count)
  OBVIOUS
<1>7. t \in Seq(Ev) /\ t \o Stop = u /\ u \in Seq(Ev)
  BY <1>1, <1>6, TakesStop, TakesOn
<1>8. <<x, y>> \o <<z>> \in Seq(Ev)
  BY <1>4, ConcatProperties
<1>9. Events(c) = (<<x, y>> \o <<z>>) \o u
  <2>1. PICK a \in Seq(Ev) : a = <<x, y>> \o <<z>>
    BY <1>8
  <2>2. (a \o t) \o Stop = a \o (t \o Stop)
    <3>1. PICK e \in Seq(Ev) : e = Stop
      BY StopShape
    <3>2. t \in Seq(Ev)
      BY <1>7
    <3>3. (a \o t) \o e = a \o (t \o e)
      BY <3>2, ConcatAssociative
    <3>4. QED
      BY <3>1, <3>3
  <2>3. Events(c) = a \o u
    BY <1>5, <1>6, <1>7, <2>1, <2>2
  <2>4. QED
    BY <2>1, <2>3
<1>10. Events(c) = <<x, y>> \o (<<z>> \o u)
  BY <1>4, <1>7, <1>9, ConcatAssociative
<1>11. /\ <<z>> \o u \in Seq(Ev) /\ <<z>> \o u # << >>
       /\ Head(<<z>> \o u) = z /\ Tail(<<z>> \o u) = u
  BY <1>3, <1>7, BehindOne
<1>12. PICK s : s = <<z>> \o u
  OBVIOUS
<1>13. /\ Events(c) # << >> /\ Head(Events(c)) = x /\ Tail(Events(c)) # << >>
       /\ Head(Tail(Events(c))) = y /\ Tail(Tail(Events(c))) = s
  <2>1. PICK d \in Seq(Ev) : d = <<x, y>> /\ Len(d) = 2 /\ d[1] = x /\ d[2] = y
    BY <1>4
  <2>2. PICK r : r = Events(c)
    OBVIOUS
  <2>3. s \in Seq(Ev) /\ r = d \o s
    BY <1>10, <1>11, <1>12, <2>1, <2>2
  <2>4. /\ r # << >> /\ Head(r) = d[1]
        /\ Tail(r) # << >> /\ Head(Tail(r)) = d[2] /\ Tail(Tail(r)) = s
    <3>1. Len(d) = 2 /\ s \in Seq(Ev)
      BY <2>1, <2>3
    <3>2. r = d \o s
      BY <2>3
    <3>3. QED
      BY <3>1, <3>2, Behind
  <2>5. QED
    BY <2>1, <2>2, <2>4
<1>14. QED
  BY <1>2, <1>6, <1>11, <1>12, <1>13

\* A read from where the counter is
LEMMA ReadCurScript ==
  ASSUME NEW c \in EeCommands, c.op = "read_cur"
  PROVE  /\ Events(c) # << >> /\ Head(Events(c)) = Event("start", "read")
         /\ Tail(Events(c)) = TakesLeft(1)
<1>1. PICK z : z = Event("start", "read")
  OBVIOUS
<1>2. z \in Ev
  BY <1>1 DEF Ev
<1>3. <<z>> \in Seq(Ev)
  BY <1>2
<1>4. Events(c) = (<<z>> \o Takes(1)) \o Stop
  BY <1>1 DEF Events, ReadCur
<1>5. PICK t, u : t = Takes(1) /\ u = TakesLeft(1)
  OBVIOUS
<1>6. t \in Seq(Ev) /\ t \o Stop = u /\ u \in Seq(Ev)
  BY <1>5, TakesStop, TakesOn
<1>7. Events(c) = <<z>> \o u
  BY <1>3, <1>4, <1>5, <1>6, StopShape, ConcatAssociative
<1>8. QED
  BY <1>1, <1>2, <1>5, <1>6, <1>7, BehindOne

(***************************************************************************)
(* The events.                                                             *)
(***************************************************************************)

BusEvent == Start \/ StartRefused \/ Put \/ PutRefused \/ Take \/ StopCond

\* The next event of the script is the one that happens
LEMMA Which ==
  ASSUME BusEvent
  PROVE  /\ todo # << >> /\ job' = job
         /\ Head(todo).op = "start" => Start \/ StartRefused
         /\ Head(todo).op = "put" => Put \/ PutRefused
         /\ Head(todo).op = "take" => Take
         /\ Head(todo).op = "stop" => StopCond
<1>1. CASE Start
  BY <1>1 DEF Start, Does0, Next0
<1>2. CASE StartRefused
  BY <1>2 DEF StartRefused, Does0, GiveUp
<1>3. CASE Put
  BY <1>3 DEF Put, Does0, Next0
<1>4. CASE PutRefused
  BY <1>4 DEF PutRefused, Does0, GiveUp
<1>5. CASE Take
  BY <1>5 DEF Take, Does0
<1>6. CASE StopCond
  BY <1>6 DEF StopCond, Does0, Next0
<1>7. QED
  BY <1>1, <1>2, <1>3, <1>4, <1>5, <1>6 DEF BusEvent

\* What is stored has the chip's addresses
LEMMA HaltSound ==
  ASSUME Sound, Halt, failed' \in BOOLEAN
  PROVE  Sound' /\ page' = << >>
<1>1. mem' = Store /\ page' = << >> /\ at' = at /\ protected' = protected
  BY DEF Halt
<1>2. Store = [a \in Addrs |-> Store[a]]
  BY DEF Store
<1>3. mem' = [a \in Addrs |-> mem'[a]]
  BY <1>1, <1>2
<1>4. QED
  BY <1>1, <1>3 DEF Sound

\* Nothing collected, nothing stored
LEMMA HaltKeeps ==
  ASSUME Sound, Halt, page = << >>
  PROVE  mem' = mem
<1>1. \A a : {j \in DOMAIN page : page[j][1] = a} = {}
  <2>1. DOMAIN page = {}
    <3>1. Len(<< >>) = 0 /\ << >> \in Seq({})
      BY EmptySeq
    <3>2. DOMAIN << >> = 1 .. 0
      BY <3>1, LenProperties
    <3>3. QED
      BY <3>2
  <2>2. QED
    BY <2>1
<1>2. Store = [a \in Addrs |-> mem[a]]
  BY <1>1 DEF Store
<1>3. mem = [a \in Addrs |-> mem[a]] /\ mem' = Store
  BY DEF Sound, Halt
<1>4. QED
  BY <1>2, <1>3

\* A start condition that is answered
LEMMA StartDoes ==
  ASSUME Sound, Start
  PROVE  /\ Sound' /\ mem' = mem /\ at' = at /\ page' = << >> /\ buf' = buf
         /\ todo' = Tail(todo) /\ failed' = failed
         /\ mode' = (IF Head(todo).arg = "write" THEN "address" ELSE "send")
<1>1. /\ mem' = mem /\ at' = at /\ page' = << >> /\ buf' = buf
      /\ todo' = Tail(todo) /\ failed' = failed /\ protected' = protected
      /\ mode' = (IF Head(todo).arg = "write" THEN "address" ELSE "send")
  BY DEF Start, Next0, Arg0
<1>2. Sound'
  BY <1>1 DEF Sound
<1>3. QED
  BY <1>1, <1>2

\* A start condition that is refused
LEMMA StartRefusedDoes ==
  ASSUME Sound, StartRefused
  PROVE  /\ Sound' /\ page' = << >> /\ buf' = buf /\ (page = << >> => mem' = mem) /\ at' = at
         /\ \/ todo' = todo /\ failed' = failed /\ OfI2c(job)
            \/ todo' = << >> /\ failed'
<1>1. Halt
  BY DEF StartRefused
<1>2. /\ buf' = buf
      /\ \/ todo' = todo /\ failed' = failed /\ OfI2c(job)
         \/ todo' = << >> /\ failed' = TRUE
  BY DEF StartRefused, GiveUp
<1>3. failed' \in BOOLEAN
  BY <1>2 DEF Sound
<1>4. QED
  BY <1>1, <1>2, <1>3, HaltSound, HaltKeeps DEF Halt

\* A byte that is refused ends the command
LEMMA PutRefusedDoes ==
  ASSUME Sound, PutRefused
  PROVE  /\ Sound' /\ page' = << >> /\ (page = << >> => mem' = mem) /\ at' = at
         /\ todo' = << >> /\ failed' /\ Refuses
<1>1. Halt /\ GiveUp /\ Refuses
  BY DEF PutRefused
<1>2. todo' = << >> /\ failed' = TRUE
  BY <1>1 DEF GiveUp
<1>3. QED
  BY <1>1, <1>2, HaltSound, HaltKeeps DEF Halt

\* The stop condition
LEMMA StopDoes ==
  ASSUME Sound, StopCond
  PROVE  /\ Sound' /\ page' = << >> /\ (page = << >> => mem' = mem) /\ at' = at
         /\ todo' = Tail(todo) /\ failed' = failed /\ buf' = buf
<1>1. Halt /\ Next0
  BY DEF StopCond
<1>2. todo' = Tail(todo) /\ failed' = failed /\ buf' = buf
  BY <1>1 DEF Next0
<1>3. failed' \in BOOLEAN
  BY <1>2 DEF Sound
<1>4. QED
  BY <1>1, <1>2, <1>3, HaltSound, HaltKeeps DEF Halt

\* A byte that is the address
LEMMA PutAddress ==
  ASSUME Sound, Put, mode = "address", Head(todo).arg \in Nat
  PROVE  /\ Sound' /\ mem' = mem /\ at' = Head(todo).arg % Reach /\ page' = page
         /\ mode' = "data" /\ todo' = Tail(todo) /\ failed' = failed /\ buf' = buf
<1>1. /\ Accepts(Head(todo).arg) /\ mem' = mem /\ protected' = protected
      /\ todo' = Tail(todo) /\ failed' = failed /\ buf' = buf
  BY DEF Put, Next0, Arg0
<1>2. at' = Head(todo).arg % Reach /\ page' = page /\ mode' = "data"
  BY <1>1 DEF Accepts
<1>3. at' \in Addrs
  BY <1>2, ReachedInside
<1>4. QED
  BY <1>1, <1>2, <1>3 DEF Sound

\* A byte that is data
LEMMA PutData ==
  ASSUME Sound, Put, mode # "address"
  PROVE  /\ Sound' /\ mem' = mem /\ at' = NextInPage(at)
         /\ page' = Append(page, <<at, Head(todo).arg>>)
         /\ mode' = mode /\ todo' = Tail(todo) /\ failed' = failed /\ buf' = buf
<1>1. /\ Accepts(Head(todo).arg) /\ mem' = mem /\ protected' = protected
      /\ todo' = Tail(todo) /\ failed' = failed /\ buf' = buf
  BY DEF Put, Next0, Arg0
<1>2. /\ at' = NextInPage(at) /\ page' = Append(page, <<at, Head(todo).arg>>) /\ mode' = mode
      /\ ~protected
  BY <1>1 DEF Accepts
<1>3. at' \in Addrs
  BY <1>2, CounterInside DEF Sound
<1>4. QED
  BY <1>1, <1>2, <1>3 DEF Sound

\* A byte from the chip
LEMMA TakeSends ==
  ASSUME Sound, Take, mode = "send"
  PROVE  /\ Sound' /\ mem' = mem /\ at' = (at + 1) % Size /\ page' = page
         /\ mode' = mode /\ todo' = Tail(todo) /\ failed' = failed
         /\ buf' = Append(buf, mem[at])
<1>1. /\ mem' = mem /\ protected' = protected /\ at' = (at + 1) % Size /\ page' = page
      /\ mode' = mode /\ todo' = Tail(todo) /\ failed' = failed
      /\ buf' = Append(buf, mem[at])
  BY DEF Take
<1>2. at' \in Addrs
  BY <1>1, CounterRound DEF Sound
<1>3. QED
  BY <1>1, <1>2 DEF Sound

\* A byte that nobody sends: the chip takes what it sees on the bus
LEMMA TakeReleased ==
  ASSUME Sound, Take, Spilled
  PROVE  Sound' /\ mem' = mem /\ todo' = Tail(todo) /\ failed' = failed /\ Spilled'
<1>0. mode # "send" /\ mode \in {"address", "data"}
  BY DEF Spilled
<1>1. /\ mem' = mem /\ protected' = protected /\ todo' = Tail(todo) /\ failed' = failed
      /\ Accepts(Released) \/ (Refuses /\ UNCHANGED <<at, mode, page>>)
  BY <1>0 DEF Take
<1>2. Released \in Nat
  BY DEF Released
<1>3. CASE Refuses /\ UNCHANGED <<at, mode, page>>
  BY <1>1, <1>3 DEF Sound, Spilled
<1>4. CASE Accepts(Released) /\ mode = "address"
  <2>1. at' = Released % Reach /\ page' = page /\ mode' = "data"
    BY <1>4 DEF Accepts
  <2>2. at' \in Addrs /\ at' \in LostPage
    BY <1>2, <2>1, ReachedInside DEF LostPage
  <2>3. QED
    BY <1>1, <2>1, <2>2 DEF Sound, Spilled
<1>5. CASE Accepts(Released) /\ mode = "data"
  <2>1. at' = NextInPage(at) /\ page' = Append(page, <<at, Released>>) /\ mode' = mode /\ ~protected
    BY <1>5 DEF Accepts
  <2>2. at \in LostPage /\ at' \in LostPage /\ at' \in Addrs
    BY <1>5, <2>1, LostInside DEF Spilled
  <2>3. page' \in Seq(LostPage \X {Released})
    <3>1. PICK T : T = LostPage \X {Released}
      OBVIOUS
    <3>2. PICK e \in T : e = <<at, Released>>
      BY <2>2, <3>1
    <3>3. page \in Seq(T)
      BY <3>1 DEF Spilled
    <3>4. Append(page, e) \in Seq(T)
      BY <3>3, AppendProperties
    <3>5. QED
      BY <2>1, <3>1, <3>2, <3>4
  <2>4. Sound'
    BY <1>1, <2>1, <2>2 DEF Sound
  <2>5. Spilled'
    BY <1>5, <2>1, <2>2, <2>3 DEF Spilled
  <2>6. QED
    BY <1>1, <2>4, <2>5
<1>6. QED
  BY <1>0, <1>1, <1>3, <1>4, <1>5

(***************************************************************************)
(* A write.                                                                *)
(***************************************************************************)

\* The bytes of a write, all given, are stored where they belong
LEMMA StoreDoes ==
  ASSUME Sound, NEW c \in EeCommands, c = job, c.op \in {"write_page", "i2c_write"},
         Given(Len(c.data)), mem' = Store
  PROVE  Written(c)
<1>1. c.addr \in Addrs /\ c.addr \in Nat /\ c.data \in Datas
  BY Kinds, Reached
<1>2. PICK n \in Nat, s \in Addrs : n = Len(c.data) /\ s = c.addr
  BY <1>1, DataShape
<1>3. page = [j \in 1 .. n |-> <<Place(s, j - 1), c.data[j]>>]
  BY <1>2 DEF Given
<1>4. /\ DOMAIN page = 1 .. n
      /\ \A j \in 1 .. n : page[j][1] = Place(s, j - 1) /\ page[j][2] = c.data[j]
  BY <1>3
<1>5. ASSUME NEW a \in Addrs, \A j \in 1 .. n : Place(s, j - 1) # a
      PROVE  mem'[a] = mem[a]
  <2>1. {j \in DOMAIN page : page[j][1] = a} = {}
    BY <1>4, <1>5
  <2>2. Store[a] = mem[a]
    BY <2>1 DEF Store
  <2>3. QED
    BY <2>2
<1>6. ASSUME NEW j \in 1 .. n, j > n - Page
      PROVE  mem'[Place(s, j - 1)] = c.data[j]
  <2>1. PICK a \in Addrs : a = Place(s, j - 1)
    <3>1. j - 1 \in Nat
      BY <1>2
    <3>2. QED
      BY <3>1, PlaceInside
  <2>2. PICK js : js = {k \in DOMAIN page : page[k][1] = a}
    OBVIOUS
  <2>3. \A k : k \in js <=> k \in 1 .. n /\ Place(s, k - 1) = a
    BY <1>4, <2>2
  <2>4. ASSUME NEW k \in js PROVE k <= j
    <3>1. SUFFICES ASSUME j < k PROVE FALSE
      BY <1>2, <2>3
    <3>2. k \in 1 .. n /\ Place(s, k - 1) = a
      BY <2>3
    <3>3. j - 1 \in Nat /\ k - j \in 1 .. Page - 1 /\ (j - 1) + (k - j) = k - 1
      BY <1>2, <1>6, <3>1, <3>2, RomConstants
    <3>4. Place(s, j - 1) # Place(s, (j - 1) + (k - j))
      BY <3>3, PlaceApart
    <3>5. QED
      BY <2>1, <3>2, <3>3, <3>4
  <2>5. j \in js
    BY <2>1, <2>3
  <2>6. PICK i : i = CHOOSE x \in js : \A k \in js : k <= x
    OBVIOUS
  <2>7. i \in js /\ \A k \in js : k <= i
    BY <2>4, <2>5, <2>6
  <2>8. i = j
    <3>1. i <= j /\ j <= i /\ i \in 1 .. n
      BY <2>3, <2>4, <2>5, <2>7
    <3>2. QED
      BY <1>2, <3>1
  <2>9. Store[a] = page[i][2]
    BY <2>2, <2>5, <2>6 DEF Store
  <2>10. QED
    BY <1>4, <2>1, <2>8, <2>9
<1>7. DOMAIN c.data = 1 .. n
  BY <1>1, <1>2, DataShape
<1>8. Stored(mem', c)
  BY <1>2, <1>6, <1>7 DEF Stored
<1>9. \A a \in Addrs : (\A j \in DOMAIN c.data : Place(c.addr, j - 1) # a) => mem'[a] = mem[a]
  BY <1>2, <1>5, <1>7
<1>10. QED
  BY <1>8, <1>9 DEF Written

\* What is to show of an event of a write
LEMMA WriteGoesOn ==
  ASSUME job \in EeCommands, job.op \in {"write_page", "i2c_write"}, job' = job,
         Sound', Writing', todo' # << >> => ~failed', todo' = << >> => page' = << >>
  PROVE  RomInv'
<1>1. job # Idle0
  BY Kinds
<1>2. job'.op \notin {"read_seq", "read_rand", "read_cur", "i2c_read"}
  OBVIOUS
<1>3. QED
  BY <1>1, <1>2 DEF RomInv, Script

\* The next byte is given to the chip
LEMMA GiveNext ==
  ASSUME Sound, job \in EeCommands, job.op \in {"write_page", "i2c_write"}, job' = job,
         NEW k \in Nat, k < Len(job.data), Given(k), Put
  PROVE  Given(k + 1)' /\ Sound' /\ mem' = mem /\ failed' = failed /\ todo' # << >>
<1>1. job.addr \in Addrs /\ job.data \in Datas
  BY Kinds, Reached
<1>2. PICK n \in Nat, s \in Addrs, data \in Datas : n = Len(data) /\ s = job.addr /\ data = job.data
  BY <1>1, DataShape
<1>3. k \in 0 .. n /\ k + 1 \in 0 .. n
  BY <1>2
<1>4. /\ Head(todo) = Event("put", data[k + 1]) /\ Tail(todo) = PutsFrom(data, k + 1)
      /\ PutsFrom(data, k + 1) # << >>
  BY <1>1, <1>2, <1>3, PutsOn DEF Given
<1>5. Head(todo).arg = data[k + 1]
  BY <1>4 DEF Event
<1>6. mode = "data" /\ at = Place(s, k) /\ page = [j \in 1 .. k |-> <<Place(s, j - 1), data[j]>>]
  BY <1>2 DEF Given
<1>7. /\ Sound' /\ mem' = mem /\ at' = NextInPage(at)
      /\ page' = Append(page, <<at, data[k + 1]>>)
      /\ mode' = mode /\ todo' = Tail(todo) /\ failed' = failed
  BY <1>5, <1>6, PutData
<1>8. at' = Place(s, k + 1)
  BY <1>1, <1>2, <1>6, <1>7, PlaceAfter
<1>9. page' = [j \in 1 .. k + 1 |-> <<Place(s, j - 1), data[j]>>]
  <2>1. PICK T : T = Addrs \X Bytes
    OBVIOUS
  <2>2. ASSUME NEW j \in 1 .. k + 1 PROVE <<Place(s, j - 1), data[j]>> \in T
    <3>1. j - 1 \in Nat /\ j \in 1 .. n
      BY <1>3
    <3>2. Place(s, j - 1) \in Addrs /\ data[j] \in Bytes
      BY <1>1, <1>2, <3>1, PlaceInside, DataShape
    <3>3. QED
      BY <2>1, <3>2
  <2>3. PICK e : e = <<Place(s, k), data[k + 1]>>
    OBVIOUS
  <2>4. e \in T
    <3>1. k + 1 \in 1 .. k + 1 /\ (k + 1) - 1 = k
      OBVIOUS
    <3>2. QED
      BY <2>2, <2>3, <3>1
  <2>5. page \in [1 .. k -> T]
    <3>1. \A j \in 1 .. k : <<Place(s, j - 1), data[j]>> \in T
      BY <2>2
    <3>2. QED
      BY <1>6, <3>1
  <2>6. page \in Seq(T) /\ Len(page) = k
    <3>1. page \in Seq(T)
      BY <2>5, SeqDef
    <3>2. QED
      BY <2>5, <3>1, LenProperties
  <2>7. page' = Append(page, e)
    BY <1>6, <1>7, <2>3
  <2>8. /\ page' \in Seq(T) /\ Len(page') = k + 1 /\ page'[k + 1] = e
        /\ \A j \in 1 .. k : page'[j] = page[j]
    BY <2>4, <2>6, <2>7, AppendProperties
  <2>9. page' \in [1 .. k + 1 -> T]
    BY <2>8, LenProperties
  <2>10. ASSUME NEW j \in 1 .. k + 1 PROVE page'[j] = <<Place(s, j - 1), data[j]>>
    <3>1. CASE j = k + 1
      <4>1. j - 1 = k
        BY <3>1
      <4>2. QED
        BY <2>3, <2>8, <3>1, <4>1
    <3>2. CASE j # k + 1
      <4>1. j \in 1 .. k
        BY <3>2
      <4>2. QED
        BY <1>6, <2>8, <4>1
    <3>3. QED
      BY <3>1, <3>2
  <2>11. QED
    BY <2>9, <2>10
<1>10. todo' = PutsFrom(data, k + 1) /\ mode' = "data"
  BY <1>4, <1>6, <1>7
<1>11. Given(k + 1)'
  BY <1>2, <1>8, <1>9, <1>10 DEF Given
<1>12. QED
  BY <1>4, <1>7, <1>11

\* An event of a write
LEMMA WriteStep ==
  ASSUME RomInv, job \in EeCommands, job.op \in {"write_page", "i2c_write"}, BusEvent
  PROVE  RomInv' /\ Stores
<1>1. Sound /\ Writing /\ todo # << >> /\ failed = FALSE /\ job' = job
  BY Which DEF RomInv, Script, Sound
<1>2. job.addr \in 0 .. Reach - 1 /\ job.data \in Datas
  BY Kinds
<1>3. PICK n \in Nat : n = Len(job.data)
  BY <1>2, DataShape
<1>4. CASE todo = Events(job) /\ page = << >>
  <2>1. Head(todo) = Event("start", "write") /\ Tail(todo) # << >>
    BY <1>4, WriteScript
  <2>2. Head(todo).op = "start" /\ Head(todo).arg = "write"
    BY <2>1 DEF Event
  <2>3. CASE Start
    <3>1. /\ Sound' /\ mem' = mem /\ page' = << >> /\ mode' = "address"
          /\ todo' = Tail(todo) /\ failed' = failed
      BY <1>1, <2>2, <2>3, StartDoes
    <3>2. Writing'
      BY <1>1, <1>4, <3>1 DEF Writing
    <3>3. QED
      BY <1>1, <2>1, <3>1, <3>2, WriteGoesOn DEF Stores
  <2>4. CASE StartRefused
    <3>1. /\ Sound' /\ mem' = mem /\ page' = << >>
          /\ \/ todo' = todo /\ failed' = failed
             \/ todo' = << >> /\ failed'
      BY <1>1, <1>4, <2>4, StartRefusedDoes
    <3>2. Writing'
      BY <1>1, <1>4, <3>1 DEF Writing
    <3>3. QED
      BY <1>1, <3>1, <3>2, WriteGoesOn DEF Stores
  <2>5. QED
    BY <2>2, <2>3, <2>4, Which
<1>5. CASE todo = Tail(Events(job)) /\ page = << >> /\ mode = "address"
  <2>1. Head(todo) = Event("put", job.addr) /\ Tail(todo) = PutsFrom(job.data, 0)
    BY <1>5, WriteScript
  <2>2. Head(todo).op = "put" /\ Head(todo).arg = job.addr
    BY <2>1 DEF Event
  <2>3. job.addr \in Nat /\ job.addr \in Addrs /\ job.addr % Reach = job.addr
    BY <1>2, Reached
  <2>4. CASE Put
    <3>1. /\ Sound' /\ mem' = mem /\ at' = job.addr /\ page' = << >> /\ mode' = "data"
          /\ todo' = PutsFrom(job.data, 0) /\ failed' = failed
      BY <1>1, <1>5, <2>1, <2>2, <2>3, <2>4, PutAddress
    <3>2. Given(0)'
      <4>1. at' = Place(job.addr, 0)
        BY <2>3, <3>1, PlaceFirst
      <4>2. << >> = [j \in 1 .. 0 |-> <<Place(job.addr, j - 1), job.data[j]>>]
        OBVIOUS
      <4>3. QED
        BY <1>1, <3>1, <4>1, <4>2 DEF Given
    <3>3. Writing' /\ todo' # << >>
      <4>1. 0 \in 0 .. Len(job.data)
        BY <1>3
      <4>2. PutsFrom(job.data, 0) # << >>
        BY <1>2, <4>1, PutsOn
      <4>3. QED
        BY <1>1, <3>1, <3>2, <4>1, <4>2 DEF Writing
    <3>4. QED
      BY <1>1, <3>1, <3>3, WriteGoesOn DEF Stores
  <2>5. CASE PutRefused
    <3>1. Refuses
      BY <1>1, <2>5, PutRefusedDoes
    <3>2. QED
      BY <1>5, <3>1 DEF Refuses
  <2>6. QED
    BY <2>2, <2>4, <2>5, Which
<1>6. ASSUME NEW k \in 0 .. Len(job.data), Given(k), k < n PROVE RomInv' /\ Stores
  <2>1. k \in Nat /\ k + 1 \in 0 .. Len(job.data)
    BY <1>3, <1>6
  <2>2. Head(todo).op = "put"
    <3>1. Head(todo) = Event("put", job.data[k + 1])
      BY <1>2, <1>3, <1>6, PutsOn DEF Given
    <3>2. QED
      BY <3>1 DEF Event
  <2>3. CASE Put
    <3>1. Given(k + 1)' /\ Sound' /\ mem' = mem /\ failed' = failed /\ todo' # << >>
      BY <1>1, <1>3, <1>6, <2>1, <2>3, GiveNext
    <3>2. Writing'
      BY <1>1, <2>1, <3>1 DEF Writing
    <3>3. QED
      BY <1>1, <3>1, <3>2, WriteGoesOn DEF Stores
  <2>4. CASE PutRefused
    <3>1. /\ Sound' /\ page' = << >> /\ (page = << >> => mem' = mem)
          /\ todo' = << >> /\ failed' /\ Refuses
      BY <1>1, <2>4, PutRefusedDoes
    <3>2. page = << >>
      <4>1. mode = "data"
        BY <1>6 DEF Given
      <4>2. QED
        BY <1>1, <3>1, <4>1 DEF Refuses, Sound
    <3>3. Writing'
      BY <3>1 DEF Writing
    <3>4. QED
      BY <1>1, <3>1, <3>2, <3>3, WriteGoesOn DEF Stores
  <2>5. QED
    BY <2>2, <2>3, <2>4, Which
<1>7. ASSUME Given(Len(job.data)) PROVE RomInv' /\ Stores
  <2>1. Head(todo) = Event("stop", 0) /\ Tail(todo) = << >>
    <3>1. n \in 0 .. n
      OBVIOUS
    <3>2. QED
      BY <1>2, <1>3, <1>7, <3>1, PutsOn DEF Given
  <2>2. StopCond
    <3>1. Head(todo).op = "stop"
      BY <2>1 DEF Event
    <3>2. QED
      BY <3>1, Which
  <2>3. Sound' /\ page' = << >> /\ todo' = << >> /\ failed' = failed /\ mem' = Store
    BY <1>1, <2>1, <2>2, StopDoes DEF StopCond, Halt
  <2>4. Written(job)
    BY <1>1, <1>7, <2>3, StoreDoes
  <2>5. Holds'
    BY <1>1, <2>4 DEF Holds, Written
  <2>6. Writing'
    BY <2>3, <2>5 DEF Writing
  <2>7. RomInv'
    BY <1>1, <2>3, <2>6, WriteGoesOn
  <2>8. Stores
    BY <1>1, <2>3, <2>4 DEF Stores
  <2>9. QED
    BY <2>7, <2>8
<1>8. QED
  <2>1. ASSUME NEW k \in 0 .. Len(job.data), Given(k) PROVE RomInv' /\ Stores
    <3>1. CASE k < n
      BY <1>6, <2>1, <3>1
    <3>2. CASE k = n
      BY <1>3, <1>7, <2>1, <3>2
    <3>3. QED
      BY <1>3, <3>1, <3>2
  <2>2. QED
    BY <1>1, <1>4, <1>5, <2>1 DEF Writing

(***************************************************************************)
(* Reads.                                                                  *)
(***************************************************************************)

\* What is to show of an event of a read
LEMMA ReadGoesOn ==
  ASSUME job \in EeCommands, job' = job, Sound', todo' # << >> => ~failed', page' = << >>,
         \/ job.op \in {"read_seq", "read_rand"} /\ ReadingAt'
         \/ job.op = "read_cur" /\ ReadingOn'
  PROVE  RomInv'
<1>1. job # Idle0
  BY Kinds
<1>2. CASE job.op \in {"read_seq", "read_rand"} /\ ReadingAt'
  <2>1. job'.op \notin {"write_page", "i2c_write", "read_cur", "i2c_read"}
    BY <1>2
  <2>2. QED
    BY <1>1, <1>2, <2>1 DEF RomInv, Script
<1>3. CASE job.op = "read_cur" /\ ReadingOn'
  <2>1. job'.op \notin {"write_page", "i2c_write", "read_seq", "read_rand", "i2c_read"}
    BY <1>3
  <2>2. QED
    BY <1>1, <1>3, <2>1 DEF RomInv, Script
<1>4. QED
  BY <1>2, <1>3

\* The next byte is taken from the chip
LEMMA TakeNext ==
  ASSUME Sound, job \in EeCommands, job.op \in {"read_seq", "read_rand"}, job' = job,
         NEW k \in Nat, k < job.count, at = (job.addr + k) % Size, Taken(k),
         mem' = mem, buf' = Append(buf, mem[at])
  PROVE  Taken(k + 1)' /\ (at + 1) % Size = (job.addr + (k + 1)) % Size
<1>1. job.addr \in Addrs /\ job.count \in Nat
  BY Kinds, Reached
<1>2. PICK s : s = job.addr
  OBVIOUS
<1>3. (at + 1) % Size = (s + (k + 1)) % Size /\ at \in Addrs
  BY <1>1, <1>2, CounterRound
<1>4. PICK T : T = {mem[a] : a \in Addrs}
  OBVIOUS
<1>5. ASSUME NEW j \in 1 .. k + 1 PROVE mem[(s + j - 1) % Size] \in T
  <2>1. j - 1 \in Nat /\ s + (j - 1) = s + j - 1
    BY <1>1, <1>2, RomConstants
  <2>2. (s + (j - 1)) % Size \in Addrs
    BY <1>1, <1>2, <2>1, CounterRound
  <2>3. QED
    BY <1>4, <2>1, <2>2
<1>6. buf = [j \in 1 .. k |-> mem[(s + j - 1) % Size]]
  BY <1>2 DEF Taken
<1>7. buf \in [1 .. k -> T]
  <2>1. \A j \in 1 .. k : mem[(s + j - 1) % Size] \in T
    BY <1>5
  <2>2. QED
    BY <1>6, <2>1
<1>8. buf \in Seq(T) /\ Len(buf) = k
  <2>1. buf \in Seq(T)
    BY <1>7, SeqDef
  <2>2. QED
    BY <1>7, <2>1, LenProperties
<1>9. PICK e \in T : e = mem[at]
  BY <1>3, <1>4
<1>10. /\ buf' \in Seq(T) /\ Len(buf') = k + 1 /\ buf'[k + 1] = e
       /\ \A j \in 1 .. k : buf'[j] = buf[j]
  <2>1. buf' = Append(buf, e)
    BY <1>9
  <2>2. QED
    BY <1>8, <2>1, AppendProperties
<1>11. buf' \in [1 .. k + 1 -> T]
  BY <1>10, LenProperties
<1>12. ASSUME NEW j \in 1 .. k + 1 PROVE buf'[j] = mem[(s + j - 1) % Size]
  <2>1. CASE j = k + 1
    <3>1. s + j - 1 = s + k
      BY <1>1, <1>2, <2>1, RomConstants
    <3>2. QED
      BY <1>2, <1>9, <1>10, <2>1, <3>1
  <2>2. CASE j # k + 1
    <3>1. j \in 1 .. k
      BY <2>2
    <3>2. QED
      BY <1>6, <1>10, <3>1
  <2>3. QED
    BY <2>1, <2>2
<1>13. buf' = [j \in 1 .. k + 1 |-> mem[(s + j - 1) % Size]]
  BY <1>11, <1>12
<1>14. Taken(k + 1)'
  BY <1>2, <1>13 DEF Taken
<1>15. QED
  BY <1>2, <1>3, <1>14

\* An event of a read from an address
LEMMA ReadStep ==
  ASSUME RomInv, job \in EeCommands, job.op \in {"read_seq", "read_rand"}, BusEvent
  PROVE  RomInv' /\ Stores
<1>1. Sound /\ ReadingAt /\ todo # << >> /\ failed = FALSE /\ job' = job /\ page = << >>
  BY Which DEF RomInv, Script, Sound, ReadingAt
<1>2. /\ job.addr \in Addrs /\ job.addr \in Nat /\ job.addr % Reach = job.addr
      /\ job.count \in Nat /\ ~OfI2c(job) /\ Turn(job) = "read"
  BY Kinds, Reached DEF OfI2c, Turn
<1>3. PICK n \in Nat : n = job.count
  BY <1>2
<1>4. CASE todo = Events(job) /\ buf = << >>
  <2>1. Head(todo).op = "start" /\ Head(todo).arg = "write" /\ Tail(todo) # << >>
    BY <1>4, ReadScript DEF Event
  <2>2. CASE Start
    <3>1. /\ Sound' /\ mem' = mem /\ page' = << >> /\ mode' = "address" /\ buf' = << >>
          /\ todo' = Tail(todo) /\ failed' = failed
      BY <1>1, <1>4, <2>1, <2>2, StartDoes
    <3>2. ReadingAt'
      BY <1>1, <1>4, <3>1 DEF ReadingAt
    <3>3. QED
      BY <1>1, <3>1, <3>2, ReadGoesOn DEF Stores
  <2>3. CASE StartRefused
    <3>1. Sound' /\ mem' = mem /\ page' = << >> /\ todo' = << >> /\ failed'
      BY <1>1, <1>2, <2>3, StartRefusedDoes
    <3>2. ReadingAt'
      BY <3>1 DEF ReadingAt
    <3>3. QED
      BY <1>1, <3>1, <3>2, ReadGoesOn DEF Stores
  <2>4. QED
    BY <2>1, <2>2, <2>3, Which
<1>5. CASE todo = Tail(Events(job)) /\ mode = "address" /\ buf = << >>
  <2>1. Head(todo).op = "put" /\ Head(todo).arg = job.addr /\ Tail(todo) # << >>
    BY <1>5, ReadScript DEF Event
  <2>2. CASE Put
    <3>1. /\ Sound' /\ mem' = mem /\ at' = job.addr /\ page' = << >> /\ buf' = << >>
          /\ todo' = Tail(todo) /\ failed' = failed
      BY <1>1, <1>2, <1>5, <2>1, <2>2, PutAddress
    <3>2. ReadingAt'
      BY <1>1, <1>5, <3>1 DEF ReadingAt
    <3>3. QED
      BY <1>1, <3>1, <3>2, ReadGoesOn DEF Stores
  <2>3. CASE PutRefused
    <3>1. Refuses
      BY <1>1, <2>3, PutRefusedDoes
    <3>2. QED
      BY <1>5, <3>1 DEF Refuses
  <2>4. QED
    BY <2>1, <2>2, <2>3, Which
<1>6. CASE todo = Tail(Tail(Events(job))) /\ at = job.addr /\ buf = << >>
  <2>1. Head(todo).op = "start" /\ Head(todo).arg = "read" /\ Tail(todo) = TakesLeft(n)
    <3>1. Head(todo) = Event("start", Turn(job)) /\ Tail(todo) = TakesLeft(job.count)
      BY <1>6, ReadScript
    <3>2. QED
      BY <1>2, <1>3, <3>1 DEF Event
  <2>2. CASE Start
    <3>1. /\ Sound' /\ mem' = mem /\ page' = << >> /\ mode' = "send" /\ buf' = << >>
          /\ todo' = TakesLeft(n) /\ failed' = failed /\ at' = job.addr
      BY <1>1, <1>6, <2>1, <2>2, StartDoes
    <3>2. at' = (job.addr + 0) % Size
      <4>1. job.addr + 0 = job.addr /\ job.addr % Size = job.addr
        <5>1. job.addr \in 0 .. Size - 1 /\ Size \in Nat \ {0}
          BY <1>2, RomConstants
        <5>2. PICK a \in 0 .. Size - 1 : a = job.addr
          BY <5>1
        <5>3. a + 0 = a /\ a % Size = a
          BY <5>1
        <5>4. QED
          BY <5>2, <5>3
      <4>2. QED
        BY <3>1, <4>1
    <3>3. Taken(0)'
      BY <3>1 DEF Taken
    <3>4. ReadingAt'
      <4>1. 0 \in 0 .. job.count /\ job.count - 0 = n
        BY <1>3
      <4>2. QED
        BY <1>1, <3>1, <3>2, <3>3, <4>1 DEF ReadingAt
    <3>5. QED
      BY <1>1, <3>1, <3>4, ReadGoesOn DEF Stores
  <2>3. CASE StartRefused
    <3>1. Sound' /\ mem' = mem /\ page' = << >> /\ todo' = << >> /\ failed'
      BY <1>1, <1>2, <2>3, StartRefusedDoes
    <3>2. ReadingAt'
      BY <3>1 DEF ReadingAt
    <3>3. QED
      BY <1>1, <3>1, <3>2, ReadGoesOn DEF Stores
  <2>4. QED
    BY <2>1, <2>2, <2>3, Which
<1>7. ASSUME NEW k \in 0 .. job.count, todo = TakesLeft(job.count - k), mode = "send",
             at = (job.addr + k) % Size, Taken(k)
      PROVE  RomInv' /\ Stores
  <2>1. n - k \in Nat /\ todo = TakesLeft(n - k) /\ k \in 0 .. n
    BY <1>3, <1>7
  <2>2. CASE k < n
    <3>1. Head(todo).op = "take" /\ Tail(todo) = TakesLeft(n - (k + 1))
      <4>1. n - k > 0 /\ (n - k) - 1 = n - (k + 1)
        BY <2>1, <2>2
      <4>2. Head(todo) = Event("take", 0) /\ Tail(todo) = TakesLeft((n - k) - 1)
        BY <2>1, <4>1, TakesOn
      <4>3. QED
        BY <4>1, <4>2 DEF Event
    <3>2. /\ Sound' /\ mem' = mem /\ at' = (at + 1) % Size /\ page' = << >>
          /\ mode' = mode /\ todo' = Tail(todo) /\ failed' = failed
          /\ buf' = Append(buf, mem[at])
      BY <1>1, <1>7, <3>1, Which, TakeSends
    <3>3. Taken(k + 1)' /\ (at + 1) % Size = (job.addr + (k + 1)) % Size
      <4>1. k \in Nat /\ k < job.count
        BY <1>3, <2>1, <2>2
      <4>2. QED
        BY <1>1, <1>7, <3>2, <4>1, TakeNext
    <3>4. ReadingAt'
      <4>1. k + 1 \in 0 .. job.count
        BY <1>3, <2>1, <2>2
      <4>2. /\ todo' = TakesLeft(job.count - (k + 1)) /\ mode' = "send"
            /\ at' = (job.addr + (k + 1)) % Size
        BY <1>3, <1>7, <3>1, <3>2, <3>3
      <4>3. QED
        BY <1>1, <3>2, <3>3, <4>1, <4>2 DEF ReadingAt
    <3>5. QED
      BY <1>1, <3>2, <3>4, ReadGoesOn DEF Stores
  <2>3. CASE k = n
    <3>1. Head(todo).op = "stop" /\ Tail(todo) = << >>
      <4>1. n - k = 0
        BY <2>3
      <4>2. Head(todo) = Event("stop", 0) /\ Tail(todo) = << >>
        BY <2>1, <4>1, TakesOn
      <4>3. QED
        BY <4>2 DEF Event
    <3>2. Sound' /\ page' = << >> /\ mem' = mem /\ todo' = << >> /\ buf' = buf
      BY <1>1, <3>1, Which, StopDoes
    <3>3. Taken(job.count)'
      BY <1>1, <1>3, <1>7, <2>3, <3>2 DEF Taken
    <3>4. ReadingAt'
      BY <1>1, <3>2, <3>3 DEF ReadingAt
    <3>5. QED
      BY <1>1, <3>2, <3>4, ReadGoesOn DEF Stores
  <2>4. QED
    BY <2>1, <2>2, <2>3
<1>8. QED
  BY <1>1, <1>4, <1>5, <1>6, <1>7 DEF ReadingAt

\* An event of a read from where the counter is
LEMMA ReadCurStep ==
  ASSUME RomInv, job \in EeCommands, job.op = "read_cur", BusEvent
  PROVE  RomInv' /\ Stores
<1>1. Sound /\ ReadingOn /\ todo # << >> /\ failed = FALSE /\ job' = job /\ page = << >>
  BY Which DEF RomInv, Script, Sound, ReadingOn
<1>2. ~OfI2c(job) /\ TakesLeft(1) # << >> /\ TakesLeft(0) # << >>
  BY TakesOn DEF OfI2c
<1>3. CASE todo = Events(job) /\ buf = << >>
  <2>1. Head(todo).op = "start" /\ Head(todo).arg = "read" /\ Tail(todo) = TakesLeft(1)
    BY <1>3, ReadCurScript DEF Event
  <2>2. CASE Start
    <3>1. /\ Sound' /\ mem' = mem /\ page' = << >> /\ mode' = "send" /\ buf' = << >>
          /\ todo' = TakesLeft(1) /\ failed' = failed
      BY <1>1, <1>3, <2>1, <2>2, StartDoes
    <3>2. ReadingOn'
      BY <3>1 DEF ReadingOn
    <3>3. QED
      BY <1>1, <3>1, <3>2, ReadGoesOn DEF Stores
  <2>3. CASE StartRefused
    <3>1. Sound' /\ mem' = mem /\ page' = << >> /\ todo' = << >> /\ failed'
      BY <1>1, <1>2, <2>3, StartRefusedDoes
    <3>2. ReadingOn'
      BY <3>1 DEF ReadingOn
    <3>3. QED
      BY <1>1, <3>1, <3>2, ReadGoesOn DEF Stores
  <2>4. QED
    BY <2>1, <2>2, <2>3, Which
<1>4. CASE todo = TakesLeft(1) /\ mode = "send" /\ buf = << >>
  <2>1. Head(todo).op = "take" /\ Tail(todo) = TakesLeft(0)
    <3>1. Head(todo) = Event("take", 0) /\ Tail(todo) = TakesLeft(1 - 1)
      <4>1. PICK n \in Nat : n = 1 /\ n > 0
        OBVIOUS
      <4>2. Head(TakesLeft(n)) = Event("take", 0) /\ Tail(TakesLeft(n)) = TakesLeft(n - 1)
        BY <4>1, TakesOn
      <4>3. QED
        BY <1>4, <4>1, <4>2
    <3>2. 1 - 1 = 0
      OBVIOUS
    <3>3. QED
      BY <3>1, <3>2 DEF Event
  <2>2. /\ Sound' /\ mem' = mem /\ at' = (at + 1) % Size /\ page' = << >>
        /\ todo' = TakesLeft(0) /\ failed' = failed /\ buf' = Append(buf, mem[at])
    BY <1>1, <1>4, <2>1, Which, TakeSends
  <2>3. (at' + Size - 1) % Size = at
    <3>1. Size \in Nat \ {0} /\ at \in 0 .. Size - 1
      BY <1>1, RomConstants DEF Sound
    <3>2. CASE at + 1 < Size
      <4>1. at' = at + 1
        BY <2>2, <3>1, <3>2
      <4>2. at' + Size - 1 = (1 * Size) + at
        BY <3>1, <4>1
      <4>3. ((1 * Size) + at) % Size = at
        BY <3>1, Divided
      <4>4. QED
        BY <4>2, <4>3
    <3>3. CASE at + 1 = Size
      <4>1. (Size + 0) % Size = 0
        <5>1. PICK q \in Nat, r \in 0 .. Size - 1 : q = 1 /\ r = 0
          BY <3>1
        <5>2. ((q * Size) + r) % Size = r
          BY <3>1, <5>1, Divided
        <5>3. (q * Size) + r = Size + 0
          BY <3>1, <5>1
        <5>4. QED
          BY <5>1, <5>2, <5>3
      <4>2. at' = 0
        BY <2>2, <3>1, <3>3, <4>1
      <4>3. at' + Size - 1 = at /\ at % Size = at
        BY <3>1, <3>3, <4>2
      <4>4. QED
        BY <4>3
    <3>4. QED
      BY <3>1, <3>2, <3>3
  <2>4. One'
    <3>1. PICK T, e : T = {mem[at]} /\ e = mem[at]
      OBVIOUS
    <3>2. << >> \in Seq(T) /\ Len(<< >>) = 0 /\ e \in T
      BY <3>1, EmptySeq
    <3>3. buf' = Append(<< >>, e)
      BY <1>4, <2>2, <3>1
    <3>4. Len(buf') = 1 /\ buf'[1] = e
      BY <3>2, <3>3, AppendProperties
    <3>5. QED
      BY <2>2, <2>3, <3>1, <3>4 DEF One
  <2>5. ReadingOn'
    BY <2>2, <2>4 DEF ReadingOn
  <2>6. QED
    BY <1>1, <2>2, <2>5, ReadGoesOn DEF Stores
<1>5. CASE todo = TakesLeft(0) /\ One
  <2>1. Head(todo).op = "stop" /\ Tail(todo) = << >>
    <3>1. Head(todo) = Event("stop", 0) /\ Tail(todo) = << >>
      BY <1>5, TakesOn
    <3>2. QED
      BY <3>1 DEF Event
  <2>2. /\ Sound' /\ page' = << >> /\ mem' = mem /\ todo' = << >> /\ buf' = buf /\ at' = at
    BY <1>1, <2>1, Which, StopDoes
  <2>3. ReadingOn'
    BY <1>5, <2>2 DEF ReadingOn, One
  <2>4. QED
    BY <1>1, <2>2, <2>3, ReadGoesOn DEF Stores
<1>6. QED
  BY <1>1, <1>3, <1>4, <1>5 DEF ReadingOn

\* What i2c_read has given the chip is stored in the page it goes to
LEMMA SpillStored ==
  ASSUME Sound, Spilled, mem' = Store
  PROVE  \A a \in Addrs : mem'[a] # mem[a] => a \in LostPage
<1>1. SUFFICES ASSUME NEW a \in Addrs, a \notin LostPage PROVE mem'[a] = mem[a]
  OBVIOUS
<1>2. \A j \in DOMAIN page : page[j][1] \in LostPage
  <2>1. \A j \in DOMAIN page : page[j] \in LostPage \X {Released}
    BY LenProperties DEF Spilled
  <2>2. QED
    BY <2>1
<1>3. {j \in DOMAIN page : page[j][1] = a} = {}
  BY <1>1, <1>2
<1>4. Store[a] = mem[a]
  BY <1>3 DEF Store
<1>5. QED
  BY <1>4

\* An event of i2c_read: it writes, but to one page, and ends with a stop
\* condition
LEMMA BlindStep ==
  ASSUME RomInv, job \in EeCommands, job.op = "i2c_read", BusEvent
  PROVE  RomInv' /\ Stores
<1>1. Sound /\ Blind /\ todo # << >> /\ failed = FALSE /\ job' = job
  BY Which DEF RomInv, Script, Sound
<1>2. job.addr \in Nat /\ job.count \in Nat /\ job # Idle0
  BY Kinds, Reached
<1>3. ASSUME Sound', Blind', todo' # << >> => ~failed', todo' = << >> => page' = << >>,
             \A a \in Addrs : mem'[a] # mem[a] => a \in LostPage
      PROVE  RomInv' /\ Stores
  <2>1. job'.op \notin {"write_page", "i2c_write", "read_seq", "read_rand", "read_cur"}
    BY <1>1
  <2>2. QED
    BY <1>1, <1>2, <1>3, <2>1 DEF RomInv, Script, Stores
<1>4. ASSUME Start \/ StartRefused, Tail(todo) # << >>, page = << >>,
             \/ todo = Events(job)
             \/ todo = Tail(Tail(Events(job))),
             Head(todo).arg = "write",
             todo' = Tail(todo) /\ page' = << >> /\ mode' = "address" => Blind'
      PROVE  RomInv' /\ Stores
  <2>1. CASE Start
    <3>1. /\ Sound' /\ mem' = mem /\ page' = << >> /\ todo' = Tail(todo) /\ failed' = failed
          /\ mode' = "address"
      BY <1>1, <1>4, <2>1, StartDoes
    <3>2. QED
      BY <1>1, <1>3, <1>4, <3>1
  <2>2. CASE StartRefused
    <3>1. /\ Sound' /\ page' = << >> /\ mem' = mem
          /\ \/ todo' = todo /\ failed' = failed
             \/ todo' = << >> /\ failed'
      BY <1>1, <1>4, <2>2, StartRefusedDoes
    <3>2. Blind'
      BY <1>1, <1>4, <3>1 DEF Blind
    <3>3. QED
      BY <1>1, <1>3, <3>1, <3>2
  <2>3. QED
    BY <1>4, <2>1, <2>2
<1>5. CASE todo = Events(job) /\ page = << >>
  <2>1. /\ Head(todo).op = "start" /\ Head(todo).arg = "write" /\ Tail(todo) # << >>
    BY <1>5, ReadScript DEF Event
  <2>2. todo' = Tail(todo) /\ page' = << >> /\ mode' = "address" => Blind'
    BY <1>1, <1>5 DEF Blind
  <2>3. QED
    BY <1>1, <1>4, <1>5, <2>1, <2>2, Which
<1>6. CASE todo = Tail(Events(job)) /\ page = << >> /\ mode = "address"
  <2>1. Head(todo).op = "put" /\ Head(todo).arg = job.addr /\ Tail(todo) # << >>
    BY <1>6, ReadScript DEF Event
  <2>2. CASE Put
    <3>1. Sound' /\ mem' = mem /\ page' = page /\ todo' = Tail(todo) /\ failed' = failed
      BY <1>1, <1>2, <1>6, <2>1, <2>2, PutAddress
    <3>2. Blind'
      BY <1>1, <1>6, <3>1 DEF Blind
    <3>3. QED
      BY <1>1, <1>3, <2>1, <3>1, <3>2
  <2>3. CASE PutRefused
    <3>1. Sound' /\ page' = << >> /\ mem' = mem /\ todo' = << >>
      BY <1>1, <1>6, <2>3, PutRefusedDoes
    <3>2. Blind'
      BY <3>1 DEF Blind
    <3>3. QED
      BY <1>3, <3>1, <3>2
  <2>4. QED
    BY <2>1, <2>2, <2>3, Which
<1>7. CASE todo = Tail(Tail(Events(job))) /\ page = << >>
  <2>1. /\ Head(todo).op = "start" /\ Head(todo).arg = "write"
        /\ Tail(todo) = TakesLeft(job.count)
    <3>1. Head(todo) = Event("start", Turn(job)) /\ Tail(todo) = TakesLeft(job.count)
      BY <1>7, ReadScript
    <3>2. QED
      BY <3>1 DEF Event, Turn
  <2>2. Tail(todo) # << >>
    BY <1>2, <2>1, TakesOn
  <2>3. ASSUME todo' = Tail(todo), page' = << >>, mode' = "address" PROVE Blind'
    <3>1. job.count \in 0 .. job.count
      BY <1>2
    <3>2. Spilled'
      BY <2>3 DEF Spilled
    <3>3. QED
      BY <1>1, <2>1, <2>3, <3>1, <3>2 DEF Blind
  <2>4. QED
    BY <1>1, <1>4, <1>7, <2>1, <2>2, <2>3, Which
<1>8. ASSUME NEW k \in 0 .. job.count, todo = TakesLeft(k), Spilled PROVE RomInv' /\ Stores
  <2>1. k \in Nat
    BY <1>2
  <2>2. CASE k > 0
    <3>1. /\ Head(todo) = Event("take", 0) /\ Tail(todo) = TakesLeft(k - 1)
      BY <1>8, <2>1, <2>2, TakesOn
    <3>2. k - 1 \in Nat /\ k - 1 \in 0 .. job.count
      BY <1>2, <2>1, <2>2
    <3>3. Head(todo).op = "take" /\ TakesLeft(k - 1) # << >>
      <4>1. TakesLeft(k - 1) # << >>
        BY <3>2, TakesOn
      <4>2. QED
        BY <3>1, <4>1 DEF Event
    <3>4. /\ Sound' /\ mem' = mem /\ todo' = TakesLeft(k - 1) /\ failed' = failed /\ Spilled'
      BY <1>1, <1>8, <3>1, <3>3, Which, TakeReleased
    <3>5. Blind'
      BY <1>1, <3>2, <3>4 DEF Blind
    <3>6. QED
      BY <1>1, <1>3, <3>3, <3>4, <3>5
  <2>3. CASE k = 0
    <3>1. Head(todo).op = "stop" /\ Tail(todo) = << >>
      <4>1. Head(todo) = Event("stop", 0) /\ Tail(todo) = << >>
        BY <1>8, <2>1, <2>3, TakesOn
      <4>2. QED
        BY <4>1 DEF Event
    <3>2. Sound' /\ page' = << >> /\ todo' = << >> /\ mem' = Store
      BY <1>1, <3>1, Which, StopDoes DEF StopCond, Halt
    <3>3. \A a \in Addrs : mem'[a] # mem[a] => a \in LostPage
      BY <1>1, <1>8, <3>2, SpillStored
    <3>4. Blind'
      BY <3>2 DEF Blind
    <3>5. QED
      BY <1>3, <3>2, <3>3, <3>4
  <2>4. QED
    BY <2>1, <2>2, <2>3
<1>9. QED
  BY <1>1, <1>5, <1>6, <1>7, <1>8 DEF Blind

(***************************************************************************)
(* All steps.                                                              *)
(***************************************************************************)

\* A command is issued when there is none
LEMMA IssueStep ==
  ASSUME RomInv, EeIssue PROVE RomInv' /\ Stores
<1>1. PICK c \in EeCommands : job' = c /\ todo' = Events(c)
  BY DEF EeIssue
<1>2. /\ job = Idle0 /\ failed' = FALSE /\ buf' = << >> /\ mem' = mem /\ at' = at
      /\ mode' = mode /\ page' = page /\ protected' = protected
  BY DEF EeIssue, romVars
<1>3. Sound' /\ page' = << >>
  BY <1>2 DEF RomInv, Sound, Script
<1>4. c # Idle0 /\ c.op \in {"write_page", "i2c_write", "read_seq", "read_rand", "read_cur", "i2c_read"}
  BY Kinds
<1>5. Script'
  <2>1. CASE c.op \in {"write_page", "i2c_write"}
    BY <1>1, <1>2, <1>3, <1>4, <2>1 DEF Script, Writing
  <2>2. CASE c.op \in {"read_seq", "read_rand"}
    BY <1>1, <1>2, <1>3, <1>4, <2>2 DEF Script, ReadingAt
  <2>3. CASE c.op = "read_cur"
    BY <1>1, <1>2, <1>3, <1>4, <2>3 DEF Script, ReadingOn
  <2>4. CASE c.op = "i2c_read"
    BY <1>1, <1>2, <1>3, <1>4, <2>4 DEF Script, Blind
  <2>5. QED
    BY <1>4, <2>1, <2>2, <2>3, <2>4
<1>6. QED
  BY <1>2, <1>3, <1>5 DEF RomInv, Stores

\* A command returns when its script is done; what it reports is so
LEMMA ReturnStep ==
  ASSUME RomInv, EeReturn PROVE RomInv' /\ Stores /\ Reports
<1>1. /\ job # Idle0 /\ todo = << >> /\ job' = Idle0 /\ todo' = todo /\ failed' = failed
      /\ mem' = mem /\ at' = at /\ page' = page /\ protected' = protected
  BY DEF EeReturn, romVars
<1>2. job \in EeCommands
  BY <1>1 DEF RomInv, Script
<1>3. RomInv'
  <2>1. Sound'
    BY <1>1 DEF RomInv, Sound
  <2>2. Script'
    BY <1>1 DEF RomInv, Script, Idle0
  <2>3. QED
    BY <2>1, <2>2 DEF RomInv
<1>4. Stores
  BY <1>1 DEF Stores
<1>5. Reports
  <2>1. CASE failed
    <3>1. ~(Ret > 0)
      BY <2>1 DEF Ret
    <3>2. QED
      BY <2>1, <3>1 DEF Reports
  <2>2. CASE ~failed /\ job.op \in {"write_page", "i2c_write"}
    <3>1. Writing
      BY <2>2 DEF RomInv, Script
    <3>2. Events(job) # << >> /\ Tail(Events(job)) # << >>
      BY <1>2, <2>2, WriteScript
    <3>3. \A k \in 0 .. Len(job.data) : ~Given(k)
      <4>1. job.data \in Datas
        BY <1>2, <2>2, Kinds
      <4>2. QED
        BY <1>1, <4>1, PutsOn DEF Given
    <3>4. Stored(mem, job)
      BY <1>1, <2>2, <3>1, <3>2, <3>3 DEF Writing, Holds
    <3>5. QED
      BY <2>2, <3>4 DEF Reports
  <2>3. CASE ~failed /\ job.op \in {"read_seq", "read_rand"}
    <3>1. ReadingAt
      BY <2>3 DEF RomInv, Script
    <3>2. Events(job) # << >> /\ Tail(Events(job)) # << >> /\ Tail(Tail(Events(job))) # << >>
      BY <1>2, <2>3, ReadScript
    <3>3. \A k \in 0 .. job.count : TakesLeft(job.count - k) # << >>
      <4>1. job.count \in Nat
        BY <1>2, <2>3, Kinds
      <4>2. \A k \in 0 .. job.count : job.count - k \in Nat
        BY <4>1
      <4>3. QED
        BY <4>2, TakesOn
    <3>4. buf = [j \in 1 .. job.count |-> mem[(job.addr + j - 1) % Size]]
      BY <1>1, <2>3, <3>1, <3>2, <3>3 DEF ReadingAt, Taken
    <3>5. QED
      BY <2>3, <3>4 DEF Reports
  <2>4. CASE ~failed /\ job.op = "read_cur"
    <3>1. ReadingOn
      BY <2>4 DEF RomInv, Script
    <3>2. Events(job) # << >> /\ TakesLeft(1) # << >> /\ TakesLeft(0) # << >>
      BY <1>2, <2>4, ReadCurScript, TakesOn
    <3>3. One
      BY <1>1, <2>4, <3>1, <3>2 DEF ReadingOn
    <3>4. QED
      BY <2>4, <3>3 DEF Reports, One
  <2>5. CASE job.op = "i2c_read"
    BY <2>5 DEF Reports
  <2>6. QED
    BY <1>2, <2>1, <2>2, <2>3, <2>4, <2>5, Kinds
<1>6. QED
  BY <1>3, <1>4, <1>5

\* Nothing is said of whether the chip is storing
LEMMA SameRom ==
  ASSUME RomInv, UNCHANGED <<mem, at, mode, page, protected, jobVars>>
  PROVE  RomInv' /\ Stores /\ Reports
<1>1. /\ mem' = mem /\ at' = at /\ mode' = mode /\ page' = page /\ protected' = protected
      /\ job' = job /\ todo' = todo /\ failed' = failed /\ buf' = buf
  BY DEF jobVars
<1>2. Sound'
  BY <1>1 DEF RomInv, Sound
<1>3. Holds' = Holds /\ \A k : Given(k)' = Given(k)
  BY <1>1 DEF Holds, Given, Stored
<1>4. Writing' = Writing
  BY <1>1, <1>3 DEF Writing
<1>5. ReadingAt' = ReadingAt
  BY <1>1 DEF ReadingAt, Taken
<1>6. ReadingOn' = ReadingOn /\ Blind' = Blind
  BY <1>1 DEF ReadingOn, One, Blind, Spilled
<1>7. Script'
  BY <1>1, <1>4, <1>5, <1>6 DEF RomInv, Script
<1>8. QED
  BY <1>1, <1>2, <1>7 DEF RomInv, Stores, Reports

\* Every step
LEMMA RomStep ==
  ASSUME RomInv, [Next]_vars PROVE RomInv' /\ (UNCHANGED eeVars \/ (Stores /\ Reports))
<1>1. CASE UNCHANGED eeVars
  <2>1. UNCHANGED <<mem, at, mode, page, protected, jobVars>>
    BY <1>1 DEF eeVars, romVars
  <2>2. QED
    BY <1>1, <2>1, SameRom
<1>2. CASE EeIssue
  <2>1. Reports
    BY <1>2 DEF EeIssue, Reports
  <2>2. QED
    BY <1>2, <2>1, IssueStep
<1>3. CASE EeReturn
  BY <1>3, ReturnStep
<1>4. CASE CycleEnd
  <2>1. UNCHANGED <<mem, at, mode, page, protected, jobVars>>
    BY <1>4 DEF CycleEnd, jobVars
  <2>2. QED
    BY <2>1, SameRom
<1>5. CASE BusEvent
  <2>1. job' = job /\ todo # << >>
    BY <1>5, Which
  <2>2. job \in EeCommands
    BY <2>1 DEF RomInv, Script
  <2>3. Reports
    BY <2>1 DEF Reports
  <2>4. RomInv' /\ Stores
    BY <1>5, <2>2, Kinds, WriteStep, ReadStep, ReadCurStep, BlindStep
  <2>5. QED
    BY <2>3, <2>4
<1>6. UNCHANGED eeVars \/ EeIssue \/ EeRun
  BY DEF Next, Spi, I2c, vars
<1>7. EeRun => EeReturn \/ CycleEnd \/ BusEvent
  BY DEF EeRun, BusEvent
<1>8. QED
  BY <1>1, <1>2, <1>3, <1>4, <1>5, <1>6, <1>7

\* The beginning
LEMMA RomInit == ASSUME Init PROVE RomInv
<1>1. /\ mem = [a \in Addrs |-> 0] /\ at = 0 /\ page = << >> /\ protected \in BOOLEAN
      /\ job = Idle0 /\ todo = << >> /\ failed = FALSE
  BY DEF Init, EeInit
<1>2. 0 \in Addrs
  BY RomConstants
<1>3. mem = [a \in Addrs |-> mem[a]]
  BY <1>1
<1>4. Sound
  BY <1>1, <1>2, <1>3 DEF Sound
<1>5. Script
  BY <1>1 DEF Script, Idle0
<1>6. QED
  BY <1>4, <1>5 DEF RomInv

\* What the EEPROM holds and what was done about it belong together, for chips
\* and pages of every size, data of every length and any number of commands on
\* both buses: the contents change only by a write that was not refused, to
\* what it means, or by i2c_read, in one page; a write that was not refused has
\* stored its bytes when it returns, the last ones if it rolled over in its
\* page, and a read that was not has read them.  Not judged are the three
\* returns that say something else: the count of write_page for bytes it has
\* gone over, the 0 of a refused i2c_write, the 0 of a read_rand that has read.
THEOREM WhatIsReportedIsSo == Spec => Reported
<1>1. Init => RomInv
  BY RomInit
<1>2. RomInv /\ [Next]_vars => RomInv'
  BY RomStep
<1>3. RomInv /\ [Next]_vars => [Stores /\ Reports]_eeVars
  BY RomStep
<1>4. QED
  BY <1>1, <1>2, <1>3, PTL DEF Spec, Reported

-----------------------------------------------------------------------------
(***************************************************************************)
(* The codec.  The inductive invariant: how far each user has come in its  *)
(* program, and what that leaves of the selects and of what was heard.     *)
(***************************************************************************)

\* All accesses: registers, selects and bytes are numbers
Acc == {Access(op, arg) : op \in {"get", "low", "high", "csn", "send", "receive", "convert"},
                          arg \in Nat \cup SUBSET Nat}

\* An access that takes the data select low, or high, whatever it was
Lowers(a) == (a.op = "low" /\ a.arg = xDcs) \/ (a.op = "csn" /\ xDcs \in a.arg)
Raises(a) == (a.op = "high" /\ a.arg = xDcs) \/ (a.op = "csn" /\ xDcs \notin a.arg)

\* A change of one select comes right behind the reading of the register
Paired(s) ==
  \A i \in 1 .. Len(s) : s[i].op \in {"low", "high"} => i > 1 /\ s[i - 1].op = "get"

\* A program that never takes the data select low, and takes it high before it
\* sends anything
Mute(s) ==
  \A i \in 1 .. Len(s) :
     ~Lowers(s[i]) /\ (s[i].op = "send" => \E j \in 1 .. i - 1 : Raises(s[j]))

\* What is left of one: the select may be high already
MuteLeft(s) ==
  \A i \in 1 .. Len(s) :
     /\ ~Lowers(s[i])
     /\ s[i].op = "send" => xDcs \notin softcs \/ \E j \in 1 .. i - 1 : Raises(s[j])

\* And of one with paired accesses: the register may be read already
PairedLeft(u) ==
  \A i \in 1 .. Len(prog[u]) :
     prog[u][i].op \in {"low", "high"} =>
        IF i = 1 THEN val[u] = softcs ELSE prog[u][i - 1].op = "get"

\* A program without its first p accesses
Left(s, p) == [i \in 1 .. Len(s) - p |-> s[i + p]]

Plays == {"play", "play_sync"}

\* What was heard so far is older than the chunk being played, but for its
\* first m bytes, which came last
Older == \A i \in 1 .. Len(heard) : heard[i] \div Span < 9 + calls
Heard(u, m) ==
  /\ m <= Len(heard) /\ \A j \in 1 .. m : heard[Len(heard) - m + j] = call[u].data[j]
  /\ m = 0 => Older
  /\ m > 0 => heard # << >> /\ heard[Len(heard)] = Byte(calls - 1, m)

\* How far the program that plays a chunk has come: the select, then a send and
\* a receive for each byte, the select again
Playing(u) ==
  LET n == Len(call[u].data)
      P == sdi_send_buffer(call[u].data)
  IN  \/ \E p \in 0 .. 3 : prog[u] = Left(P, p) /\ Older
      \/ \E m \in 0 .. n : prog[u] = Left(P, 4 + 2 * m) /\ xDcs \in softcs /\ Heard(u, m)
      \/ \E m \in 1 .. n : prog[u] = Left(P, 3 + 2 * m) /\ xDcs \in softcs /\ Heard(u, m)
      \/ prog[u] = << >> /\ Heard(u, n)

\* Where each user is in its command
Follows(u) ==
  /\ PairedLeft(u)
  /\ call[u] = Idle => prog[u] = << >>
  /\ call[u].op \in Plays =>
       /\ device = "codec" /\ calls > 0 /\ Playing(u)
       /\ Len(call[u].data) \in Chunks /\ call[u].data = Chunk(calls - 1, Len(call[u].data))
  /\ call[u].op \notin Plays => MuteLeft(prog[u])

\* The shell runs one command at a time
OneCommand == \A u, v \in Users : u = v \/ call[u] = Idle \/ call[v] = Idle

HearInv ==
  /\ calls \in Nat /\ heard \in Seq(Nat) /\ Hears
  /\ \A i \in 1 .. Len(heard) : heard[i] \div Span < 10 + calls
  /\ prog \in [Users -> Seq(Acc)]
  /\ call = [u \in Users |-> call[u]] /\ val = [u \in Users |-> val[u]]
  /\ OneCommand /\ \A u \in Users : Follows(u)

(***************************************************************************)
(* The codec: programs.                                                    *)
(***************************************************************************)

\* A program in which every send comes behind a raise; one that lowers nothing
Fine(s) == s \in Seq(Acc) /\ Paired(s) /\ Mute(s)
Harmless(s) == s \in Seq(Acc) /\ Paired(s) /\ \A i \in 1 .. Len(s) : ~Lowers(s[i])
Raised(s) == \E j \in 1 .. Len(s) : Raises(s[j])

\* Accesses are what they are made of
LEMMA AccessShape ==
  ASSUME NEW op \in {"get", "low", "high", "csn", "send", "receive", "convert"},
         NEW arg \in Nat \cup SUBSET Nat
  PROVE  Access(op, arg) \in Acc /\ Access(op, arg).op = op /\ Access(op, arg).arg = arg
BY DEF Acc, Access

\* The elements of a sequence behind another
LEMMA Joined ==
  ASSUME NEW a \in Seq(Acc), NEW b \in Seq(Acc)
  PROVE  /\ a \o b \in Seq(Acc) /\ Len(a \o b) = Len(a) + Len(b)
         /\ Len(a) \in Nat /\ Len(b) \in Nat
         /\ \A i \in 1 .. Len(a) : (a \o b)[i] = a[i]
         /\ \A i \in 1 .. Len(b) : (a \o b)[Len(a) + i] = b[i]
<1>1. PICK s : s = a \o b
  OBVIOUS
<1>2. PICK m \in Nat, n \in Nat : m = Len(a) /\ n = Len(b)
  BY LenProperties
<1>3. /\ s \in Seq(Acc) /\ Len(s) = m + n
      /\ \A i \in 1 .. m + n : s[i] = IF i <= m THEN a[i] ELSE b[i - m]
  BY <1>1, <1>2, ConcatProperties
<1>4. \A i \in 1 .. m : s[i] = a[i]
  BY <1>2, <1>3
<1>5. ASSUME NEW i \in 1 .. n PROVE s[m + i] = b[i]
  <2>1. m + i \in 1 .. m + n /\ ~(m + i <= m) /\ (m + i) - m = i
    BY <1>2
  <2>2. QED
    BY <1>3, <2>1
<1>6. QED
  BY <1>1, <1>2, <1>3, <1>4, <1>5

\* Accesses that belong together stay together
LEMMA PairedPlus ==
  ASSUME NEW a \in Seq(Acc), NEW b \in Seq(Acc), Paired(a), Paired(b)
  PROVE  Paired(a \o b)
<1>1. PICK s : s = a \o b
  OBVIOUS
<1>2. PICK m \in Nat, n \in Nat : m = Len(a) /\ n = Len(b)
  BY LenProperties
<1>3. /\ Len(s) = m + n /\ (\A i \in 1 .. m : s[i] = a[i]) /\ (\A i \in 1 .. n : s[m + i] = b[i])
  BY <1>1, <1>2, Joined
<1>4. ASSUME NEW i \in 1 .. m + n, s[i].op \in {"low", "high"}
      PROVE  i > 1 /\ s[i - 1].op = "get"
  <2>1. CASE i <= m
    <3>1. i \in 1 .. m /\ s[i] = a[i]
      BY <1>2, <1>3, <2>1
    <3>2. i > 1 /\ a[i - 1].op = "get"
      BY <1>2, <1>4, <3>1 DEF Paired
    <3>3. i - 1 \in 1 .. m
      BY <1>2, <3>1, <3>2
    <3>4. QED
      BY <1>3, <3>2, <3>3
  <2>2. CASE ~(i <= m)
    <3>1. PICK k \in 1 .. n : i = m + k
      <4>1. i - m \in 1 .. n /\ i = m + (i - m)
        BY <1>2, <2>2
      <4>2. QED
        BY <4>1
    <3>2. s[i] = b[k]
      BY <1>3, <3>1
    <3>3. k > 1 /\ b[k - 1].op = "get"
      BY <1>2, <1>4, <3>2 DEF Paired
    <3>4. k - 1 \in 1 .. n /\ i - 1 = m + (k - 1) /\ i > 1
      BY <1>2, <3>1, <3>3
    <3>5. QED
      BY <1>3, <3>3, <3>4
  <2>3. QED
    BY <2>1, <2>2
<1>5. QED
  BY <1>1, <1>3, <1>4 DEF Paired

\* Behind a raise anything may be sent
LEMMA MutePlus ==
  ASSUME NEW a \in Seq(Acc), NEW b \in Seq(Acc), Mute(a),
         \/ Mute(b)
         \/ Raised(a) /\ \A i \in 1 .. Len(b) : ~Lowers(b[i])
  PROVE  Mute(a \o b)
<1>1. PICK s : s = a \o b
  OBVIOUS
<1>2. PICK m \in Nat, n \in Nat : m = Len(a) /\ n = Len(b)
  BY LenProperties
<1>3. /\ Len(s) = m + n /\ (\A i \in 1 .. m : s[i] = a[i]) /\ (\A i \in 1 .. n : s[m + i] = b[i])
  BY <1>1, <1>2, Joined
<1>4. ASSUME NEW i \in 1 .. m + n
      PROVE  ~Lowers(s[i]) /\ (s[i].op = "send" => \E j \in 1 .. i - 1 : Raises(s[j]))
  <2>1. CASE i <= m
    <3>1. i \in 1 .. m /\ s[i] = a[i]
      BY <1>2, <1>3, <2>1
    <3>2. ~Lowers(a[i]) /\ (a[i].op = "send" => \E j \in 1 .. i - 1 : Raises(a[j]))
      BY <1>2, <3>1 DEF Mute
    <3>3. \A j \in 1 .. i - 1 : s[j] = a[j]
      BY <1>2, <1>3, <3>1
    <3>4. QED
      BY <3>1, <3>2, <3>3
  <2>2. CASE ~(i <= m)
    <3>1. PICK k \in 1 .. n : i = m + k
      <4>1. i - m \in 1 .. n /\ i = m + (i - m)
        BY <1>2, <2>2
      <4>2. QED
        BY <4>1
    <3>2. s[i] = b[k]
      BY <1>3, <3>1
    <3>3. CASE Mute(b)
      <4>1. ~Lowers(b[k]) /\ (b[k].op = "send" => \E j \in 1 .. k - 1 : Raises(b[j]))
        BY <1>2, <3>3 DEF Mute
      <4>2. ASSUME NEW j \in 1 .. k - 1, Raises(b[j])
            PROVE  m + j \in 1 .. i - 1 /\ Raises(s[m + j])
        <5>1. j \in 1 .. n /\ m + j \in 1 .. i - 1
          BY <1>2, <3>1
        <5>2. QED
          BY <1>3, <4>2, <5>1
      <4>3. QED
        BY <3>2, <4>1, <4>2
    <3>4. CASE Raised(a) /\ \A j \in 1 .. Len(b) : ~Lowers(b[j])
      <4>1. PICK j \in 1 .. m : Raises(a[j])
        BY <1>2, <3>4 DEF Raised
      <4>2. j \in 1 .. i - 1 /\ s[j] = a[j]
        BY <1>2, <1>3, <3>1, <4>1
      <4>3. QED
        BY <1>2, <3>2, <3>4, <4>1, <4>2
    <3>5. QED
      BY <3>3, <3>4
  <2>3. QED
    BY <2>1, <2>2
<1>5. QED
  BY <1>1, <1>3, <1>4 DEF Mute

\* Programs one behind the other, and one behind a raise
LEMMA FinePlus ==
  ASSUME NEW a, NEW b, Fine(a), Fine(b) PROVE Fine(a \o b)
BY PairedPlus, MutePlus, Joined DEF Fine

\* What comes behind a raise need not be fine by itself
LEMMA RaisedPlus ==
  ASSUME NEW a, NEW b, Fine(a), Raised(a), Harmless(b) PROVE Fine(a \o b) /\ Raised(a \o b)
<1>1. a \in Seq(Acc) /\ b \in Seq(Acc)
  BY DEF Fine, Harmless
<1>2. Paired(a \o b) /\ Mute(a \o b) /\ a \o b \in Seq(Acc)
  BY <1>1, PairedPlus, MutePlus, Joined DEF Fine, Harmless
<1>3. PICK j \in 1 .. Len(a) : Raises(a[j])
  BY DEF Raised
<1>4. PICK m \in Nat, n \in Nat : m = Len(a) /\ n = Len(b)
  BY <1>1, LenProperties
<1>5. j \in 1 .. Len(a \o b) /\ (a \o b)[j] = a[j]
  BY <1>1, <1>3, <1>4, Joined
<1>6. QED
  BY <1>2, <1>3, <1>5 DEF Fine, Raised

\* A raise in the second of two programs is one in both
LEMMA PlusRaised ==
  ASSUME NEW a, NEW b, Fine(a), Fine(b), Raised(b) PROVE Raised(a \o b)
<1>1. a \in Seq(Acc) /\ b \in Seq(Acc)
  BY DEF Fine
<1>2. PICK j \in 1 .. Len(b) : Raises(b[j])
  BY DEF Raised
<1>3. PICK m \in Nat, n \in Nat : m = Len(a) /\ n = Len(b)
  BY <1>1, LenProperties
<1>4. m + j \in 1 .. Len(a \o b) /\ (a \o b)[m + j] = b[j]
  BY <1>1, <1>2, <1>3, Joined
<1>5. QED
  BY <1>2, <1>4 DEF Raised

\* Where the access r of the round q is
Nth(n, q, r) == n * (q - 1) + r

\* k rounds of n accesses each, and a program that is made of them
Even(n, k, round) ==
  /\ n \in Nat \ {0} /\ k \in Nat /\ Len(round) = k
  /\ \A q \in 1 .. k : round[q] \in Seq(Acc) /\ Len(round[q]) = n

Laid(n, k, round, s) ==
  /\ s \in Seq(Acc) /\ Len(s) = n * k /\ n * k \in Nat
  /\ \A q \in 1 .. k : \A r \in 1 .. n :
       Nth(n, q, r) \in 1 .. n * k /\ s[Nth(n, q, r)] = round[q][r]
  /\ \A i \in 1 .. n * k : \E q \in 1 .. k : \E r \in 1 .. n : i = Nth(n, q, r)

\* The rounds of a loop are laid one behind the other
LEMMA RoundsShape ==
  ASSUME NEW n, NEW k, NEW round, Even(n, k, round)
  PROVE  Laid(n, k, round, Rounds(n, round))
<1>e. /\ n \in Nat \ {0} /\ k \in Nat /\ Len(round) = k
      /\ \A q \in 1 .. k : round[q] \in Seq(Acc) /\ Len(round[q]) = n
  BY DEF Even
<1> USE <1>e
<1>1. PICK s : s = Rounds(n, round)
  OBVIOUS
<1>2. n * k \in Nat
  OBVIOUS
<1>3. s = [i \in 1 .. n * k |-> round[((i - 1) \div n) + 1][((i - 1) % n) + 1]]
  BY <1>1 DEF Rounds
<1>4. ASSUME NEW i \in 1 .. n * k
      PROVE  /\ ((i - 1) \div n) + 1 \in 1 .. k /\ ((i - 1) % n) + 1 \in 1 .. n
             /\ i = n * (((i - 1) \div n) + 1 - 1) + (((i - 1) % n) + 1)
  <2>1. PICK d, r : d = (i - 1) \div n /\ r = (i - 1) % n
    OBVIOUS
  <2>2. i - 1 \in Nat /\ i - 1 < n * k
    BY <1>2
  <2>3. d \in Nat /\ r \in 0 .. n - 1 /\ i - 1 = (d * n) + r
    BY <2>1, <2>2, Division
  <2>4. d < k
    <3>1. SUFFICES ASSUME k <= d PROVE FALSE
      BY <2>3
    <3>2. PICK e \in Nat : d = k + e
      <4>1. d - k \in Nat /\ d = k + (d - k)
        BY <2>3, <3>1
      <4>2. QED
        BY <4>1
    <3>3. d * n = (n * k) + (e * n) /\ e * n \in Nat
      BY <3>2
    <3>4. QED
      BY <1>2, <2>2, <2>3, <3>3
  <2>5. d + 1 \in 1 .. k /\ r + 1 \in 1 .. n
    BY <2>3, <2>4
  <2>6. i = n * (d + 1 - 1) + (r + 1)
    <3>1. d + 1 - 1 = d /\ d * n = n * d /\ d * n \in Nat
      BY <2>3
    <3>2. QED
      BY <2>3, <3>1
  <2>7. QED
    BY <2>1, <2>5, <2>6
<1>5. \A i \in 1 .. n * k : s[i] \in Acc
  <2>1. SUFFICES ASSUME NEW i \in 1 .. n * k PROVE s[i] \in Acc
    OBVIOUS
  <2>2. PICK q \in 1 .. k, r \in 1 .. n : q = ((i - 1) \div n) + 1 /\ r = ((i - 1) % n) + 1
    BY <1>4
  <2>3. s[i] = round[q][r]
    BY <1>3, <2>2
  <2>4. QED
    BY <2>3, ElementOfSeq
<1>6. s \in [1 .. n * k -> Acc]
  BY <1>3, <1>5
<1>7. s \in Seq(Acc) /\ Len(s) = n * k
  <2>1. s \in Seq(Acc)
    BY <1>2, <1>6, SeqDef
  <2>2. QED
    BY <1>2, <1>6, <2>1, LenProperties
<1>8. ASSUME NEW q \in 1 .. k, NEW r \in 1 .. n
      PROVE  n * (q - 1) + r \in 1 .. n * k /\ s[n * (q - 1) + r] = round[q][r]
  <2>1. PICK e \in Nat, f \in Nat : e = q - 1 /\ f = k - q
    <3>1. q - 1 \in Nat /\ k - q \in Nat
      OBVIOUS
    <3>2. QED
      BY <3>1
  <2>2. n * k = (n * e) + n + (n * f) /\ n * e \in Nat /\ n * f \in Nat
    <3>1. k = e + 1 + f
      BY <2>1
    <3>2. n * (e + 1 + f) = (n * e) + n + (n * f)
      OBVIOUS
    <3>3. QED
      BY <3>1, <3>2
  <2>3. PICK i \in 1 .. n * k : i = n * e + r
    <3>1. n * e + r \in 1 .. n * k
      BY <2>2
    <3>2. QED
      BY <3>1
  <2>4. i - 1 = (e * n) + (r - 1) /\ r - 1 \in 0 .. n - 1
    <3>1. n * e = e * n /\ n * e \in Nat
      OBVIOUS
    <3>2. QED
      BY <2>3, <3>1
  <2>5. (i - 1) \div n = e /\ (i - 1) % n = r - 1
    <3>1. ((e * n) + (r - 1)) \div n = e /\ ((e * n) + (r - 1)) % n = r - 1
      BY <2>4, Divided
    <3>2. QED
      BY <2>4, <3>1
  <2>6. s[i] = round[e + 1][(r - 1) + 1]
    BY <1>3, <2>5
  <2>7. e + 1 = q /\ (r - 1) + 1 = r
    BY <2>1
  <2>8. QED
    BY <2>1, <2>3, <2>6, <2>7
<1>9. ASSUME NEW i \in 1 .. n * k
      PROVE  \E q \in 1 .. k : \E r \in 1 .. n : i = n * (q - 1) + r
  <2>1. PICK q \in 1 .. k, r \in 1 .. n : q = ((i - 1) \div n) + 1 /\ r = ((i - 1) % n) + 1
    BY <1>4
  <2>2. i = n * (q - 1) + r
    BY <1>4, <2>1
  <2>3. QED
    BY <2>2
<1>10. QED
  BY <1>1, <1>2, <1>7, <1>8, <1>9 DEF Nth, Laid

\* A loop of fine rounds is fine
LEMMA FineRounds ==
  ASSUME NEW n \in Nat \ {0}, NEW k \in Nat, NEW round, Len(round) = k,
         \A q \in 1 .. k : Fine(round[q]) /\ Len(round[q]) = n
  PROVE  Fine(Rounds(n, round))
<1>1. PICK s : s = Rounds(n, round)
  OBVIOUS
<1>2. \A q \in 1 .. k : round[q] \in Seq(Acc) /\ Len(round[q]) = n
  BY DEF Fine
<1>0. PICK m : m = n * k
  OBVIOUS
<1>3. /\ s \in Seq(Acc) /\ Len(s) = m /\ m \in Nat
      /\ \A q \in 1 .. k : \A r \in 1 .. n :
           Nth(n, q, r) \in 1 .. m /\ s[Nth(n, q, r)] = round[q][r]
      /\ \A i \in 1 .. m : \E q \in 1 .. k : \E r \in 1 .. n : i = Nth(n, q, r)
  <2>1. Even(n, k, round)
    BY <1>2 DEF Even
  <2>2. Laid(n, k, round, s)
    BY <1>1, <2>1, RoundsShape
  <2>3. QED
    BY <1>0, <2>2 DEF Laid
<1>4. ASSUME NEW i \in 1 .. m
      PROVE  /\ s[i].op \in {"low", "high"} => i > 1 /\ s[i - 1].op = "get"
             /\ ~Lowers(s[i])
             /\ s[i].op = "send" => \E j \in 1 .. i - 1 : Raises(s[j])
  <2>1. PICK q \in 1 .. k, r \in 1 .. n : i = Nth(n, q, r)
    BY <1>3
  <2>2. PICK w : w = round[q]
    OBVIOUS
  <2>3. PICK b \in Nat : b = n * (q - 1)
    <3>1. q - 1 \in Nat
      OBVIOUS
    <3>2. n * (q - 1) \in Nat
      BY <3>1
    <3>3. QED
      BY <3>2
  <2>4. i = b + r /\ \A l \in 1 .. n : s[b + l] = w[l]
    <3>1. \A l \in 1 .. n : Nth(n, q, l) = b + l
      BY <2>3 DEF Nth
    <3>2. \A l \in 1 .. n : s[Nth(n, q, l)] = w[l]
      BY <1>3, <2>2
    <3>3. QED
      BY <2>1, <3>1, <3>2
  <2>5. /\ w[r].op \in {"low", "high"} => r > 1 /\ w[r - 1].op = "get"
        /\ ~Lowers(w[r])
        /\ w[r].op = "send" => \E j \in 1 .. r - 1 : Raises(w[j])
    BY <2>2 DEF Fine, Paired, Mute
  <2>6. ASSUME r > 1 PROVE i > 1 /\ s[i - 1] = w[r - 1]
    <3>1. r - 1 \in 1 .. n /\ i - 1 = b + (r - 1) /\ i > 1
      BY <2>3, <2>4, <2>6
    <3>2. QED
      BY <2>4, <3>1
  <2>7. ASSUME NEW j \in 1 .. r - 1, Raises(w[j]) PROVE b + j \in 1 .. i - 1 /\ Raises(s[b + j])
    <3>1. j \in 1 .. n /\ b + j \in 1 .. i - 1
      BY <2>3, <2>4
    <3>2. QED
      BY <2>4, <2>7, <3>1
  <2>8. s[i] = w[r]
    BY <2>4
  <2>9. QED
    BY <2>5, <2>6, <2>7, <2>8
<1>5. QED
  BY <1>1, <1>3, <1>4 DEF Fine, Paired, Mute

\* Bytes on the bus: each is sent, and one received for it
LEMMA TransferShape ==
  ASSUME NEW bytes \in Seq(Nat)
  PROVE  /\ Harmless(Transfer(bytes)) /\ Len(Transfer(bytes)) = 2 * Len(bytes)
         /\ \A q \in 1 .. Len(bytes) :
              /\ Transfer(bytes)[2 * (q - 1) + 1] = Access("send", bytes[q])
              /\ Transfer(bytes)[2 * (q - 1) + 2] = Access("receive", 0)
<1>1. PICK k \in Nat : k = Len(bytes)
  BY LenProperties
<1>2. PICK round : round = [q \in 1 .. k |-> spi_write_for_response(bytes[q])]
  OBVIOUS
<1>3. ASSUME NEW q \in 1 .. k
      PROVE  /\ round[q] \in Seq(Acc) /\ Len(round[q]) = 2
             /\ round[q][1] = Access("send", bytes[q]) /\ round[q][2] = Access("receive", 0)
  <2>1. bytes[q] \in Nat
    BY <1>1, ElementOfSeq
  <2>2. PICK x \in Acc, y \in Acc : x = Access("send", bytes[q]) /\ y = Access("receive", 0)
    BY <2>1, AccessShape
  <2>3. round[q] = <<x, y>>
    BY <1>2, <2>2 DEF spi_write_for_response
  <2>4. QED
    BY <2>2, <2>3
<1>4. Len(round) = k
  <2>1. round \in [1 .. k -> Seq(Acc)]
    BY <1>2, <1>3
  <2>2. round \in Seq(Seq(Acc))
    BY <2>1, SeqDef
  <2>3. QED
    BY <2>1, <2>2, LenProperties
<1>5. PICK s : s = Transfer(bytes)
  OBVIOUS
<1>6. s = Rounds(2, round)
  BY <1>1, <1>2, <1>5 DEF Transfer
<1>7. PICK n \in Nat \ {0}, m \in Nat : n = 2 /\ m = n * k
  OBVIOUS
<1>8. /\ s \in Seq(Acc) /\ Len(s) = m
      /\ \A q \in 1 .. k : \A r \in 1 .. n : s[Nth(n, q, r)] = round[q][r]
      /\ \A i \in 1 .. m : \E q \in 1 .. k : \E r \in 1 .. n : i = Nth(n, q, r)
  <2>1. \A q \in 1 .. k : round[q] \in Seq(Acc) /\ Len(round[q]) = n
    BY <1>3, <1>7
  <2>2. s = Rounds(n, round)
    BY <1>6, <1>7
  <2>3. Even(n, k, round)
    BY <1>4, <1>7, <2>1 DEF Even
  <2>4. Laid(n, k, round, s)
    BY <2>2, <2>3, RoundsShape
  <2>5. QED
    BY <1>7, <2>4 DEF Laid
<1>9. ASSUME NEW q \in 1 .. k
      PROVE  /\ s[Nth(n, q, 1)] = Access("send", bytes[q])
             /\ s[Nth(n, q, 2)] = Access("receive", 0)
  <2>1. 1 \in 1 .. n /\ 2 \in 1 .. n
    BY <1>7
  <2>2. s[Nth(n, q, 1)] = round[q][1] /\ s[Nth(n, q, 2)] = round[q][2]
    BY <1>8, <2>1
  <2>3. QED
    BY <1>3, <2>2
<1>10. ASSUME NEW i \in 1 .. m PROVE s[i].op \in {"send", "receive"}
  <2>1. PICK q \in 1 .. k, r \in 1 .. n : i = Nth(n, q, r)
    BY <1>8
  <2>2. Access("send", bytes[q]).op = "send" /\ Access("receive", 0).op = "receive"
    BY DEF Access
  <2>3. CASE r = 1
    <3>1. s[i] = Access("send", bytes[q])
      BY <1>9, <2>1, <2>3
    <3>2. QED
      BY <2>2, <3>1
  <2>4. CASE r = 2
    <3>1. s[i] = Access("receive", 0)
      BY <1>9, <2>1, <2>4
    <3>2. QED
      BY <2>2, <3>1
  <2>5. QED
    BY <1>7, <2>3, <2>4
<1>11. Harmless(s)
  <2>1. \A i \in 1 .. Len(s) : s[i].op \in {"send", "receive"}
    BY <1>8, <1>10
  <2>2. QED
    BY <1>8, <2>1 DEF Harmless, Paired, Lowers
<1>12. QED
  <2>1. \A q \in 1 .. k : Nth(n, q, 1) = 2 * (q - 1) + 1 /\ Nth(n, q, 2) = 2 * (q - 1) + 2
    BY <1>7 DEF Nth
  <2>2. \A q \in 1 .. k : /\ s[2 * (q - 1) + 1] = Access("send", bytes[q])
                          /\ s[2 * (q - 1) + 2] = Access("receive", 0)
    BY <1>9, <2>1
  <2>3. QED
    BY <1>1, <1>5, <1>7, <1>8, <1>11, <2>2

\* One access
LEMMA OneAccess ==
  ASSUME NEW x \in Acc PROVE <<x>> \in Seq(Acc) /\ Len(<<x>>) = 1 /\ <<x>>[1] = x
OBVIOUS

\* All selects at once
LEMMA CsnShape ==
  ASSUME NEW low \in SUBSET Nat, xDcs \notin low
  PROVE  Fine(spi_set_csn(low)) /\ Raised(spi_set_csn(low)) /\ Len(spi_set_csn(low)) = 1
<1>1. PICK x \in Acc : x = Access("csn", low) /\ x.op = "csn" /\ x.arg = low
  <2>1. PICK arg \in Nat \cup SUBSET Nat : arg = low
    OBVIOUS
  <2>2. PICK op \in {"get", "low", "high", "csn", "send", "receive", "convert"} : op = "csn"
    OBVIOUS
  <2>3. Access(op, arg) \in Acc
    BY DEF Acc
  <2>4. Access(op, arg).op = op /\ Access(op, arg).arg = arg
    BY DEF Access
  <2>5. QED
    BY <2>1, <2>2, <2>3, <2>4
<1>2. PICK s : s = spi_set_csn(low)
  OBVIOUS
<1>3. s = <<x>>
  BY <1>1, <1>2 DEF spi_set_csn
<1>4. s \in Seq(Acc) /\ Len(s) = 1 /\ s[1] = x
  BY <1>3, OneAccess
<1>5. ~Lowers(x) /\ Raises(x) /\ x.op = "csn"
  BY <1>1 DEF Lowers, Raises
<1>6. Paired(s) /\ Mute(s)
  BY <1>4, <1>5 DEF Paired, Mute
<1>7. Raised(s)
  BY <1>4, <1>5 DEF Raised
<1>8. QED
  BY <1>2, <1>4, <1>6, <1>7 DEF Fine

\* One select
LEMMA CsShape ==
  ASSUME NEW cs \in Nat, NEW status \in {0, 1}
  PROVE  LET s == spi_set_cs(cs, status) IN
         /\ s \in Seq(Acc) /\ Len(s) = 2 /\ Paired(s)
         /\ s[1] = Access("get", 0)
         /\ s[2] = Access(IF status = 0 THEN "low" ELSE "high", cs)
         /\ ~(cs = xDcs /\ status = 0) => Fine(s)
         /\ cs = xDcs /\ status = 1 => Raised(s)
<1>1. PICK x \in Acc : x = Access("get", 0) /\ x.op = "get" /\ x.arg = 0
  BY AccessShape
<1>2. PICK y \in Acc : /\ y = Access(IF status = 0 THEN "low" ELSE "high", cs)
                       /\ y.op = (IF status = 0 THEN "low" ELSE "high") /\ y.arg = cs
  BY AccessShape
<1>3. PICK s : s = spi_set_cs(cs, status)
  OBVIOUS
<1>4. s = <<x, y>>
  BY <1>1, <1>2, <1>3 DEF spi_set_cs
<1>5. s \in Seq(Acc) /\ Len(s) = 2 /\ s[1] = x /\ s[2] = y
  BY <1>4
<1>6. Paired(s)
  BY <1>1, <1>5 DEF Paired
<1>7. ASSUME ~(cs = xDcs /\ status = 0) PROVE Fine(s)
  <2>1. ~Lowers(x) /\ ~Lowers(y) /\ x.op # "send" /\ y.op # "send"
    BY <1>1, <1>2, <1>7 DEF Lowers
  <2>2. \A i \in 1 .. Len(s) : s[i] = x \/ s[i] = y
    BY <1>5
  <2>3. Mute(s)
    BY <2>1, <2>2 DEF Mute
  <2>4. QED
    BY <1>5, <1>6, <2>3 DEF Fine
<1>8. ASSUME cs = xDcs, status = 1 PROVE Raised(s)
  <2>1. Raises(y)
    BY <1>2, <1>8 DEF Raises
  <2>2. QED
    BY <1>5, <2>1 DEF Raised
<1>9. QED
  BY <1>1, <1>2, <1>3, <1>5, <1>6, <1>7, <1>8

\* The command interface is selected, the data interface is not
LEMMA ControlShape ==
  Fine(control_mode_on) /\ Raised(control_mode_on) /\ Len(control_mode_on) = 4
<1>1. xCs \in Nat /\ xDcs \in Nat /\ xCs # xDcs /\ 0 \in {0, 1} /\ 1 \in {0, 1}
  BY DEF xCs, xDcs
<1>2. PICK a, b : a = spi_set_cs(xCs, 0) /\ b = spi_set_cs(xDcs, 1)
  OBVIOUS
<1>3. Fine(a) /\ a \in Seq(Acc) /\ Len(a) = 2
  BY <1>1, <1>2, CsShape
<1>4. PICK one \in {0, 1} : one = 1
  OBVIOUS
<1>5. b = spi_set_cs(xDcs, one)
  BY <1>2, <1>4
<1>6. Fine(b) /\ Raised(b) /\ b \in Seq(Acc) /\ Len(b) = 2
  BY <1>1, <1>4, <1>5, CsShape
<1>7. Fine(a \o b) /\ Raised(a \o b)
  BY <1>3, <1>6, FinePlus, PlusRaised
<1>8. Len(a \o b) = 4
  BY <1>3, <1>6, Joined
<1>9. QED
  BY <1>2, <1>7, <1>8 DEF control_mode_on

\* A command of the codec on the bus
LEMMA OnTheBus ==
  ASSUME NEW bytes \in Seq(Nat)
  PROVE  LET s == control_mode_on \o Transfer(bytes) \o mode_off IN
         Fine(s) /\ Raised(s) /\ Len(s) = 5 + (2 * Len(bytes))
<1>1. Fine(mode_off) /\ Raised(mode_off) /\ Len(mode_off) = 1
  <2>1. {} \in SUBSET Nat /\ xDcs \notin {}
    OBVIOUS
  <2>2. QED
    BY <2>1, CsnShape DEF mode_off
<1>2. PICK a, b, c : a = control_mode_on /\ b = Transfer(bytes) /\ c = mode_off
  OBVIOUS
<1>3. Fine(a) /\ Raised(a) /\ Len(a) = 4
  BY <1>2, ControlShape
<1>4. Harmless(b) /\ Len(b) = 2 * Len(bytes)
  BY <1>2, TransferShape
<1>5. PICK d : d = a \o b
  OBVIOUS
<1>6. Fine(d) /\ Raised(d)
  BY <1>3, <1>4, <1>5, RaisedPlus
<1>7. a \in Seq(Acc) /\ b \in Seq(Acc) /\ c \in Seq(Acc) /\ d \in Seq(Acc)
  BY <1>1, <1>2, <1>3, <1>4, <1>6 DEF Fine, Harmless
<1>8. Len(d) = 4 + (2 * Len(bytes))
  <2>1. Len(d) = Len(a) + Len(b)
    BY <1>5, <1>7, Joined
  <2>2. QED
    BY <1>3, <1>4, <2>1
<1>9. Fine(d \o c) /\ Raised(d \o c)
  BY <1>1, <1>2, <1>6, FinePlus, PlusRaised
<1>10. Len(d \o c) = 5 + (2 * Len(bytes))
  <2>1. Len(d \o c) = Len(d) + Len(c) /\ Len(bytes) \in Nat
    BY <1>7, Joined, LenProperties
  <2>2. QED
    BY <1>1, <1>2, <1>8, <2>1
<1>11. QED
  BY <1>2, <1>5, <1>9, <1>10

\* Reading and writing a register
LEMMA RegisterShape ==
  /\ \A reg \in Nat : Fine(read_register(reg))
  /\ \A reg \in Nat : \A value \in Seq(Nat) :
       Fine(write_register(reg, value))
       /\ (Len(value) = 2 => Len(write_register(reg, value)) = 13)
<1>1. ASSUME NEW reg \in Nat PROVE Fine(read_register(reg))
  <2>1. PICK bytes : bytes = <<VS_READ_COMMAND, reg, Filler, Filler>>
    OBVIOUS
  <2>2. bytes \in Seq(Nat)
    BY <2>1 DEF VS_READ_COMMAND, Filler
  <2>3. read_register(reg) = control_mode_on \o Transfer(bytes) \o mode_off
    BY <2>1 DEF read_register
  <2>4. QED
    BY <2>2, <2>3, OnTheBus
<1>2. ASSUME NEW reg \in Nat, NEW value \in Seq(Nat)
      PROVE  /\ Fine(write_register(reg, value))
             /\ Len(value) = 2 => Len(write_register(reg, value)) = 13
  <2>1. PICK head \in Seq(Nat) : head = <<VS_WRITE_COMMAND, reg>> /\ Len(head) = 2
    <3>1. VS_WRITE_COMMAND \in Nat
      BY DEF VS_WRITE_COMMAND
    <3>2. <<VS_WRITE_COMMAND, reg>> \in Seq(Nat) /\ Len(<<VS_WRITE_COMMAND, reg>>) = 2
      BY <3>1
    <3>3. QED
      BY <3>2
  <2>2. PICK bytes : bytes = head \o value
    OBVIOUS
  <2>3. bytes \in Seq(Nat) /\ Len(bytes) = 2 + Len(value)
    BY <2>1, <2>2, ConcatProperties
  <2>4. write_register(reg, value) = control_mode_on \o Transfer(bytes) \o mode_off
    BY <2>1, <2>2 DEF write_register
  <2>5. PICK s : s = control_mode_on \o Transfer(bytes) \o mode_off
    OBVIOUS
  <2>6. Fine(s) /\ Len(s) = 5 + (2 * Len(bytes))
    BY <2>3, <2>5, OnTheBus
  <2>7. Len(value) = 2 => Len(s) = 13
    BY <2>3, <2>6
  <2>8. QED
    BY <2>4, <2>5, <2>6, <2>7
<1>3. QED
  BY <1>1, <1>2

\* A register and what to write to it, and a list of them
Pairs == {p \in Nat \X Seq(Nat) : Len(p[2]) = 2}
Listed(w) == w \in Seq(Pairs)

\* The registers are written one after the other
LEMMA SetupShape ==
  ASSUME NEW w, Listed(w) PROVE Fine(Setup(w))
<1>1. PICK k \in Nat : k = Len(w)
  BY LenProperties DEF Listed
<1>2. DOMAIN w = 1 .. k
  BY <1>1, LenProperties DEF Listed
<1>3. PICK round : round = [q \in 1 .. k |-> write_register(w[q][1], w[q][2])]
  OBVIOUS
<1>4. PICK n \in Nat \ {0} : n = 13
  OBVIOUS
<1>5. Len(write_register(0, <<0, 0>>)) = n
  <2>1. PICK value \in Seq(Nat), reg \in Nat : value = <<0, 0>> /\ Len(value) = 2 /\ reg = 0
    <3>1. <<0, 0>> \in Seq(Nat) /\ Len(<<0, 0>>) = 2 /\ 0 \in Nat
      OBVIOUS
    <3>2. QED
      BY <3>1
  <2>2. Len(write_register(reg, value)) = 13
    BY <2>1, RegisterShape
  <2>3. QED
    BY <1>4, <2>1, <2>2
<1>6. ASSUME NEW q \in 1 .. k PROVE Fine(round[q]) /\ Len(round[q]) = n
  <2>1. w[q] \in Pairs
    BY <1>1, ElementOfSeq DEF Listed
  <2>2. w[q][1] \in Nat /\ w[q][2] \in Seq(Nat) /\ Len(w[q][2]) = 2
    BY <2>1 DEF Pairs
  <2>3. QED
    BY <1>3, <1>4, <2>2, RegisterShape
<1>7. Len(round) = k
  <2>1. round \in [1 .. k -> Seq(Acc)]
    BY <1>3, <1>6 DEF Fine
  <2>2. round \in Seq(Seq(Acc))
    BY <2>1, SeqDef
  <2>3. QED
    BY <2>1, <2>2, LenProperties
<1>8. Setup(w) = Rounds(n, round)
  BY <1>2, <1>3, <1>5 DEF Setup
<1>9. QED
  BY <1>6, <1>7, <1>8, FineRounds

\* All selects high
LEMMA OffShape == Fine(spi_set_csn({})) /\ Raised(spi_set_csn({}))
<1>1. {} \in SUBSET Nat /\ xDcs \notin {}
  OBVIOUS
<1>2. QED
  BY <1>1, CsnShape

\* The codec is set up
LEMMA InitShape ==
  ASSUME NEW w, Listed(w)
  PROVE  Fine(play_mode_init(w)) /\ Fine(record_mode_init(w))
<1>1. PICK a, b, c, d : a = spi_set_cs(xCs, 1) /\ b = spi_set_cs(xDcs, 1)
                        /\ c = spi_set_csn({}) /\ d = Setup(w)
  OBVIOUS
<1>2. PICK one \in {0, 1} : one = 1
  OBVIOUS
<1>3. xCs \in Nat /\ xDcs \in Nat /\ one # 0
  BY <1>2 DEF xCs, xDcs
<1>4. Fine(a) /\ Fine(b)
  <2>1. a = spi_set_cs(xCs, one) /\ b = spi_set_cs(xDcs, one)
    BY <1>1, <1>2
  <2>2. QED
    BY <1>3, <2>1, CsShape
<1>5. Fine(c) /\ Fine(d)
  BY <1>1, OffShape, SetupShape
<1>6. PICK e, f : e = a \o b /\ f = e \o c
  OBVIOUS
<1>7. Fine(e)
  BY <1>4, <1>6, FinePlus
<1>8. Fine(f)
  BY <1>5, <1>6, <1>7, FinePlus
<1>9. Fine(f \o d)
  BY <1>5, <1>8, FinePlus
<1>10. PICK g : g = c \o c
  OBVIOUS
<1>11. Fine(g)
  BY <1>5, <1>10, FinePlus
<1>12. Fine(g \o d)
  BY <1>5, <1>11, FinePlus
<1>13. play_mode_init(w) = f \o d /\ record_mode_init(w) = g \o d
  BY <1>1, <1>6, <1>10 DEF play_mode_init, record_mode_init
<1>14. QED
  BY <1>9, <1>12, <1>13

\* The converter is read
LEMMA ValueShape == ASSUME NEW mux \in Nat PROVE Fine(getADCValue(mux))
<1>1. PICK bytes \in Seq(Nat) : bytes = <<Config(mux), 1, Config(mux), 1>>
  <2>1. Config(mux) \in Nat
    BY DEF Config
  <2>2. <<Config(mux), 1, Config(mux), 1>> \in Seq(Nat)
    BY <2>1
  <2>3. QED
    BY <2>2
<1>2. PICK x \in Acc : x = Access("convert", 0) /\ x.op = "convert"
  <2>1. PICK arg \in Nat \cup SUBSET Nat : arg = 0
    OBVIOUS
  <2>2. PICK op \in {"get", "low", "high", "csn", "send", "receive", "convert"} : op = "convert"
    OBVIOUS
  <2>3. Access(op, arg) \in Acc
    BY DEF Acc
  <2>4. Access(op, arg).op = op
    BY DEF Access
  <2>5. QED
    BY <2>1, <2>2, <2>3, <2>4
<1>3. PICK a, b, c, d : a = spi_set_csn({2}) /\ b = Transfer(bytes)
                        /\ c = spi_set_csn({}) /\ d = <<x>>
  OBVIOUS
<1>4. Fine(a) /\ Raised(a)
  <2>1. {2} \in SUBSET Nat /\ xDcs \notin {2}
    BY DEF xDcs
  <2>2. QED
    BY <1>3, <2>1, CsnShape
<1>5. Harmless(b)
  BY <1>3, TransferShape
<1>6. Fine(c)
  BY <1>3, OffShape
<1>7. Fine(d)
  <2>1. d \in Seq(Acc) /\ Len(d) = 1 /\ d[1] = x
    BY <1>3, OneAccess
  <2>2. ~Lowers(x)
    BY <1>2 DEF Lowers
  <2>3. Paired(d) /\ Mute(d)
    BY <1>2, <2>1, <2>2 DEF Paired, Mute
  <2>4. QED
    BY <2>1, <2>3 DEF Fine
<1>8. PICK e, f, g : e = a \o b /\ f = e \o c /\ g = f \o d
  OBVIOUS
<1>9. Fine(e)
  BY <1>4, <1>5, <1>8, RaisedPlus
<1>10. Fine(f)
  BY <1>6, <1>8, <1>9, FinePlus
<1>11. Fine(g)
  BY <1>7, <1>8, <1>10, FinePlus
<1>12. Reading(mux) = g
  BY <1>1, <1>2, <1>3, <1>8 DEF Reading
<1>13. Fine(g \o g)
  BY <1>11, FinePlus
<1>14. QED
  BY <1>12, <1>13 DEF getADCValue

\* A register and two bytes
LEMMA OnePair ==
  ASSUME NEW r \in Nat, NEW h \in Nat, NEW l \in Nat PROVE <<r, <<h, l>>>> \in Pairs
<1>1. PICK v \in Seq(Nat) : v = <<h, l>> /\ Len(v) = 2
  <2>1. <<h, l>> \in Seq(Nat) /\ Len(<<h, l>>) = 2
    OBVIOUS
  <2>2. QED
    BY <2>1
<1>2. PICK p : p = <<r, v>>
  OBVIOUS
<1>3. p \in Nat \X Seq(Nat) /\ p[2] = v
  BY <1>2
<1>4. QED
  BY <1>1, <1>2, <1>3 DEF Pairs

\* What the program writes to set the codec up
LEMMA ListsShape == Listed(Boot) /\ Listed(Record)
<1>1. /\ SCI_MODE \in Nat /\ SCI_BASS \in Nat /\ SCI_CLOCKF \in Nat /\ SCI_AUDATA \in Nat
      /\ SCI_VOL \in Nat /\ SCI_AICTRL0 \in Nat /\ SCI_AICTRL1 \in Nat
  BY DEF SCI_MODE, SCI_BASS, SCI_CLOCKF, SCI_AUDATA, SCI_VOL, SCI_AICTRL0, SCI_AICTRL1
<1>2. Listed(Boot)
  <2>1. PICK a, b, c, d, e, f, g :
          /\ a = <<SCI_VOL, <<255, 255>>>> /\ b = <<SCI_AUDATA, <<0, 10>>>>
          /\ c = <<SCI_VOL, <<254, 254>>>> /\ d = <<SCI_AUDATA, <<172, 69>>>>
          /\ e = <<SCI_VOL, <<32, 32>>>> /\ f = <<SCI_MODE, <<8, 4>>>>
          /\ g = <<SCI_CLOCKF, <<184, 0>>>>
    OBVIOUS
  <2>2. a \in Pairs /\ b \in Pairs /\ c \in Pairs /\ d \in Pairs
    BY <1>1, <2>1, OnePair
  <2>3. e \in Pairs /\ f \in Pairs /\ g \in Pairs
    BY <1>1, <2>1, OnePair
  <2>4. <<a, b, c, d, e, f, g>> \in Seq(Pairs)
    BY <2>2, <2>3
  <2>5. QED
    BY <2>1, <2>4 DEF Boot, Listed
<1>3. Listed(Record)
  <2>1. PICK a, b, c, d, e, f :
          /\ a = <<SCI_BASS, <<0, 0>>>> /\ b = <<SCI_CLOCKF, <<68, 48>>>>
          /\ c = <<SCI_AICTRL0, <<0, 12>>>> /\ d = <<SCI_AICTRL1, <<4, 0>>>>
          /\ e = <<SCI_MODE, <<56, 4>>>> /\ f = <<SCI_VOL, <<254, 254>>>>
    OBVIOUS
  <2>2. a \in Pairs /\ b \in Pairs /\ c \in Pairs /\ d \in Pairs
    BY <1>1, <2>1, OnePair
  <2>3. e \in Pairs /\ f \in Pairs
    BY <1>1, <2>1, OnePair
  <2>4. <<a, b, c, d, e, f>> \in Seq(Pairs)
    BY <2>2, <2>3
  <2>5. QED
    BY <2>1, <2>4 DEF Record, Listed
<1>4. QED
  BY <1>2, <1>3

\* No program but one that plays sends a byte while the codec listens for data
LEMMA ProgramShape ==
  ASSUME NEW c \in Commands, c.op \notin Plays PROVE Fine(Program(c)) /\ c.op # "idle"
<1>1. CASE c \in ConverterCommands
  <2>1. PICK m \in Inputs : c = [op |-> "value", mux |-> m]
    BY <1>1 DEF ConverterCommands
  <2>2. m \in Nat
    BY SpiAssumption
  <2>3. c.op = "value" /\ c.mux = m
    BY <2>1
  <2>4. Program(c) = getADCValue(m)
    BY <2>3 DEF Program
  <2>5. QED
    BY <2>2, <2>3, <2>4, ValueShape
<1>2. CASE c = [op |-> "boot", writes |-> Boot]
  <2>1. c.op = "boot" /\ c.writes = Boot
    BY <1>2
  <2>2. Program(c) = play_mode_init(Boot)
    BY <2>1 DEF Program
  <2>3. QED
    BY <2>1, <2>2, ListsShape, InitShape
<1>3. CASE c = [op |-> "record", writes |-> Record]
  <2>1. c.op = "record" /\ c.writes = Record
    BY <1>3
  <2>2. Program(c) = record_mode_init(Record)
    BY <2>1 DEF Program
  <2>3. QED
    BY <2>1, <2>2, ListsShape, InitShape
<1>4. CASE \E vol \in {7} : c = [op |-> "write", writes |-> << <<SCI_VOL, <<vol, vol>>>> >>]
  <2>1. PICK vol \in {7} : c = [op |-> "write", writes |-> << <<SCI_VOL, <<vol, vol>>>> >>]
    BY <1>4
  <2>2. PICK v \in Seq(Nat) : v = <<vol, vol>>
    <3>1. <<vol, vol>> \in Seq(Nat)
      OBVIOUS
    <3>2. QED
      BY <3>1
  <2>3. c.op = "write" /\ c.writes = << <<SCI_VOL, v>> >>
    BY <2>1, <2>2
  <2>4. c.writes[1][1] = SCI_VOL /\ c.writes[1][2] = v /\ SCI_VOL \in Nat
    BY <2>3 DEF SCI_VOL
  <2>5. Program(c) = write_register(SCI_VOL, v)
    BY <2>3, <2>4 DEF Program
  <2>6. QED
    BY <2>3, <2>4, <2>5, RegisterShape
<1>5. CASE \E r \in {SCI_VOL} : c = [op |-> "read", reg |-> r]
  <2>1. c.op = "read" /\ c.reg = SCI_VOL /\ SCI_VOL \in Nat
    BY <1>5 DEF SCI_VOL
  <2>2. Program(c) = read_register(SCI_VOL)
    BY <2>1 DEF Program
  <2>3. QED
    BY <2>1, <2>2, RegisterShape
<1>6. CASE \E n \in Chunks : \/ c = [op |-> "play", data |-> Chunk(calls, n)]
                           \/ c = [op |-> "play_sync", data |-> Chunk(calls, n)]
  BY <1>6 DEF Plays
<1>7. QED
  BY <1>1, <1>2, <1>3, <1>4, <1>5, <1>6 DEF Commands, CodecCommands

\* A byte tells its chunk and its place
LEMMA ByteShape ==
  ASSUME NEW k \in Nat, NEW j \in Nat, j < Span
  PROVE  /\ Byte(k, j) \in Nat /\ Byte(k, j) \div Span = 10 + k /\ Byte(k, j) % Span = j
         /\ j > 0 => Byte(k, j) = Byte(k, j - 1) + 1
<1>1. Span \in Nat \ {0}
  BY SpiAssumption
<1>2. PICK q \in Nat, p \in Nat \ {0} : q = 10 + k /\ p = Span
  BY <1>1
<1>3. q * p \in Nat /\ j \in 0 .. p - 1
  BY <1>2
<1>4. ((q * p) + j) \div p = q /\ ((q * p) + j) % p = j
  BY <1>3, Divided
<1>5. Byte(k, j) = (q * p) + j /\ Byte(k, j - 1) = (q * p) + (j - 1)
  BY <1>2 DEF Byte
<1>6. QED
  BY <1>2, <1>3, <1>4, <1>5

\* What is played
LEMMA ChunkShape ==
  ASSUME NEW k \in Nat, NEW n \in Chunks
  PROVE  /\ Chunk(k, n) \in Seq(Nat) /\ Len(Chunk(k, n)) = n /\ n \in Nat /\ n < Span
         /\ \A j \in 1 .. n : Chunk(k, n)[j] = Byte(k, j)
<1>1. n \in Nat /\ n < Span /\ Span \in Nat
  BY SpiAssumption
<1>2. PICK s : s = Chunk(k, n)
  OBVIOUS
<1>3. s = [j \in 1 .. n |-> Byte(k, j)]
  BY <1>2 DEF Chunk
<1>4. \A j \in 1 .. n : Byte(k, j) \in Nat
  <2>1. \A j \in 1 .. n : j \in Nat /\ j < Span
    BY <1>1
  <2>2. QED
    BY <2>1, ByteShape
<1>5. s \in [1 .. n -> Nat]
  BY <1>3, <1>4
<1>6. s \in Seq(Nat)
  BY <1>1, <1>5, SeqDef
<1>7. Len(s) = n
  BY <1>1, <1>5, <1>6, LenProperties
<1>8. QED
  BY <1>1, <1>2, <1>3, <1>6, <1>7

\* The data interface is selected in four accesses, of which the last two take
\* the select low
LEMMA SelectShape ==
  /\ data_mode_on \in Seq(Acc) /\ Len(data_mode_on) = 4 /\ Paired(data_mode_on)
  /\ data_mode_on[1].op = "get" /\ data_mode_on[3].op = "get"
  /\ data_mode_on[2].op = "high" /\ data_mode_on[4] = Access("low", xDcs)
<1>1. xCs \in Nat /\ xDcs \in Nat /\ 0 \in {0, 1} /\ 1 \in {0, 1}
  BY DEF xCs, xDcs
<1>2. PICK a, b : a = spi_set_cs(xCs, 1) /\ b = spi_set_cs(xDcs, 0)
  OBVIOUS
<1>3. PICK one \in {0, 1} : one = 1
  OBVIOUS
<1>4. a = spi_set_cs(xCs, one) /\ one # 0
  BY <1>2, <1>3
<1>5. /\ a \in Seq(Acc) /\ Len(a) = 2 /\ Paired(a) /\ a[1] = Access("get", 0)
      /\ a[2] = Access("high", xCs)
  BY <1>1, <1>3, <1>4, CsShape
<1>6. /\ b \in Seq(Acc) /\ Len(b) = 2 /\ Paired(b) /\ b[1] = Access("get", 0)
      /\ b[2] = Access("low", xDcs)
  BY <1>1, <1>2, CsShape
<1>7. PICK s : s = a \o b
  OBVIOUS
<1>8. s \in Seq(Acc) /\ Paired(s)
  BY <1>5, <1>6, <1>7, Joined, PairedPlus
<1>9. /\ Len(s) = Len(a) + Len(b)
      /\ \A i \in 1 .. Len(a) : s[i] = a[i]
      /\ \A i \in 1 .. Len(b) : s[Len(a) + i] = b[i]
  BY <1>5, <1>6, <1>7, Joined
<1>10. Len(s) = 4 /\ s[1] = a[1] /\ s[2] = a[2] /\ s[3] = b[1] /\ s[4] = b[2]
  BY <1>5, <1>6, <1>9
<1>11. Access("get", 0).op = "get" /\ Access("high", xCs).op = "high"
  BY DEF Access
<1>12. QED
  BY <1>2, <1>5, <1>6, <1>7, <1>8, <1>10, <1>11 DEF data_mode_on

\* The program that plays: four accesses, then a byte sent and one received for
\* each byte, then all selects high
LEMMA PlayShape ==
  ASSUME NEW data \in Seq(Nat), NEW n \in Nat, n = Len(data)
  PROVE  LET P == sdi_send_buffer(data) IN
         /\ P \in Seq(Acc) /\ Len(P) = 5 + 2 * n /\ Paired(P)
         /\ P[1].op = "get" /\ P[2].op = "high" /\ P[3].op = "get" /\ P[4] = Access("low", xDcs)
         /\ \A m \in 0 .. n - 1 : /\ P[5 + 2 * m] = Access("send", data[m + 1])
                                 /\ P[6 + 2 * m] = Access("receive", 0)
         /\ P[5 + 2 * n] = Access("csn", {})
<1>1. PICK a, b, c : a = data_mode_on /\ b = Transfer(data) /\ c = mode_off
  OBVIOUS
<1>2. /\ a \in Seq(Acc) /\ Len(a) = 4 /\ Paired(a) /\ a[1].op = "get" /\ a[2].op = "high"
      /\ a[3].op = "get" /\ a[4] = Access("low", xDcs)
  BY <1>1, SelectShape
<1>3. /\ b \in Seq(Acc) /\ Len(b) = 2 * n /\ Paired(b)
      /\ \A q \in 1 .. n : /\ b[2 * (q - 1) + 1] = Access("send", data[q])
                           /\ b[2 * (q - 1) + 2] = Access("receive", 0)
  BY <1>1, TransferShape DEF Harmless
<1>4. c \in Seq(Acc) /\ Len(c) = 1 /\ Paired(c) /\ c[1] = Access("csn", {})
  <2>1. Fine(c) /\ Len(c) = 1
    <3>1. {} \in SUBSET Nat /\ xDcs \notin {}
      OBVIOUS
    <3>2. QED
      BY <1>1, <3>1, CsnShape DEF mode_off
  <2>2. c = <<Access("csn", {})>>
    BY <1>1 DEF mode_off, spi_set_csn
  <2>3. QED
    BY <2>1, <2>2 DEF Fine
<1>5. PICK d, P : d = a \o b /\ P = d \o c
  OBVIOUS
<1>6. /\ d \in Seq(Acc) /\ Paired(d) /\ Len(d) = Len(a) + Len(b)
      /\ \A i \in 1 .. Len(a) : d[i] = a[i]
      /\ \A i \in 1 .. Len(b) : d[Len(a) + i] = b[i]
  <2>1. Paired(d)
    BY <1>2, <1>3, <1>5, PairedPlus
  <2>2. /\ d \in Seq(Acc) /\ Len(d) = Len(a) + Len(b)
        /\ \A i \in 1 .. Len(a) : d[i] = a[i]
        /\ \A i \in 1 .. Len(b) : d[Len(a) + i] = b[i]
    <3>1. a \in Seq(Acc) /\ b \in Seq(Acc) /\ d = a \o b
      BY <1>2, <1>3, <1>5
    <3>2. QED
      BY <3>1, Joined
  <2>3. QED
    BY <2>1, <2>2
<1>7. Len(d) = 4 + 2 * n
  BY <1>2, <1>3, <1>6
<1>8. /\ P \in Seq(Acc) /\ Paired(P) /\ Len(P) = Len(d) + Len(c)
      /\ \A i \in 1 .. Len(d) : P[i] = d[i]
      /\ \A i \in 1 .. Len(c) : P[Len(d) + i] = c[i]
  <2>1. Paired(P)
    BY <1>4, <1>5, <1>6, PairedPlus
  <2>2. /\ P \in Seq(Acc) /\ Len(P) = Len(d) + Len(c)
        /\ \A i \in 1 .. Len(d) : P[i] = d[i]
        /\ \A i \in 1 .. Len(c) : P[Len(d) + i] = c[i]
    <3>1. c \in Seq(Acc) /\ d \in Seq(Acc) /\ P = d \o c
      BY <1>4, <1>5, <1>6
    <3>2. QED
      BY <3>1, Joined
  <2>3. QED
    BY <2>1, <2>2
<1>9. Len(P) = 5 + 2 * n
  BY <1>4, <1>7, <1>8
<1>10. P[1] = a[1] /\ P[2] = a[2] /\ P[3] = a[3] /\ P[4] = a[4]
  <2>1. 1 \in 1 .. Len(a) /\ 2 \in 1 .. Len(a) /\ 3 \in 1 .. Len(a) /\ 4 \in 1 .. Len(a)
    BY <1>2
  <2>2. 1 \in 1 .. Len(d) /\ 2 \in 1 .. Len(d) /\ 3 \in 1 .. Len(d) /\ 4 \in 1 .. Len(d)
    BY <1>7
  <2>3. QED
    BY <1>6, <1>8, <2>1, <2>2
<1>11. ASSUME NEW m \in 0 .. n - 1
       PROVE  /\ P[5 + 2 * m] = Access("send", data[m + 1])
              /\ P[6 + 2 * m] = Access("receive", 0)
  <2>1. PICK q \in 1 .. n : q = m + 1
    <3>1. m + 1 \in 1 .. n
      OBVIOUS
    <3>2. QED
      BY <3>1
  <2>2. PICK i \in 1 .. Len(b), j \in 1 .. Len(b) : i = 2 * (q - 1) + 1 /\ j = 2 * (q - 1) + 2
    <3>1. 2 * (q - 1) + 1 \in 1 .. Len(b) /\ 2 * (q - 1) + 2 \in 1 .. Len(b)
      BY <1>3
    <3>2. QED
      BY <3>1
  <2>3. b[i] = Access("send", data[q]) /\ b[j] = Access("receive", 0)
    BY <1>3, <2>2
  <2>4. d[Len(a) + i] = b[i] /\ d[Len(a) + j] = b[j]
    BY <1>6
  <2>5. /\ Len(a) + i = 5 + 2 * m /\ Len(a) + j = 6 + 2 * m
        /\ 5 + 2 * m \in 1 .. Len(d) /\ 6 + 2 * m \in 1 .. Len(d)
    BY <1>2, <1>7, <2>1, <2>2
  <2>6. P[5 + 2 * m] = d[5 + 2 * m] /\ P[6 + 2 * m] = d[6 + 2 * m]
    BY <1>8, <2>5
  <2>7. QED
    BY <2>1, <2>3, <2>4, <2>5, <2>6
<1>12. P[5 + 2 * n] = Access("csn", {})
  <2>1. PICK i \in 1 .. Len(c) : i = 1
    BY <1>4
  <2>2. P[Len(d) + i] = c[i] /\ Len(d) + i = 5 + 2 * n
    BY <1>7, <1>8, <2>1
  <2>3. QED
    BY <1>4, <2>1, <2>2
<1>13. sdi_send_buffer(data) = P
  BY <1>1, <1>5 DEF sdi_send_buffer
<1>14. QED
  BY <1>2, <1>8, <1>9, <1>10, <1>11, <1>12, <1>13

\* A program without its first accesses
LEMMA LeftShape ==
  ASSUME NEW s \in Seq(Acc), NEW p \in 0 .. Len(s)
  PROVE  /\ Left(s, p) \in Seq(Acc) /\ Len(Left(s, p)) = Len(s) - p
         /\ \A i \in 1 .. Len(s) - p : Left(s, p)[i] = s[i + p]
<1>1. PICK n \in Nat : n = Len(s)
  BY LenProperties
<1>2. PICK t : t = Left(s, p)
  OBVIOUS
<1>3. t = [i \in 1 .. n - p |-> s[i + p]]
  BY <1>1, <1>2 DEF Left
<1>4. ASSUME NEW i \in 1 .. n - p PROVE s[i + p] \in Acc
  <2>1. i + p \in 1 .. n
    BY <1>1
  <2>2. QED
    BY <1>1, <2>1, ElementOfSeq
<1>5. t \in [1 .. n - p -> Acc] /\ n - p \in Nat
  BY <1>1, <1>3, <1>4
<1>6. t \in Seq(Acc)
  BY <1>5, SeqDef
<1>7. Len(t) = n - p
  BY <1>5, <1>6, LenProperties
<1>8. QED
  BY <1>1, <1>2, <1>3, <1>6, <1>7

\* The next access, and what is left behind it
LEMMA LeftOn ==
  ASSUME NEW s \in Seq(Acc), NEW p \in 0 .. Len(s) - 1
  PROVE  Left(s, p) # << >> /\ Head(Left(s, p)) = s[p + 1] /\ Tail(Left(s, p)) = Left(s, p + 1)
<1>1. PICK n \in Nat : n = Len(s)
  BY LenProperties
<1>b. PICK q \in 0 .. Len(s) : q = p + 1
  <2>1. p + 1 \in 0 .. Len(s)
    BY <1>1
  <2>2. QED
    BY <2>1
<1>a. p \in 0 .. Len(s)
  BY <1>1
<1>2. PICK t, r : t = Left(s, p) /\ r = Left(s, q)
  OBVIOUS
<1>3. /\ t \in Seq(Acc) /\ Len(t) = n - p /\ \A i \in 1 .. n - p : t[i] = s[i + p]
  BY <1>1, <1>a, <1>2, LeftShape
<1>4. /\ r \in Seq(Acc) /\ Len(r) = n - q /\ \A i \in 1 .. n - q : r[i] = s[i + q]
  BY <1>1, <1>2, LeftShape
<1>5. t # << >> /\ Head(t) = t[1]
  BY <1>1, <1>3, EmptySeq, HeadTailProperties
<1>6. PICK w : w = Tail(t)
  OBVIOUS
<1>7. w \in Seq(Acc) /\ Len(w) = n - p - 1 /\ \A i \in 1 .. Len(w) : w[i] = t[i + 1]
  BY <1>1, <1>3, <1>5, <1>6, HeadTailProperties
<1>8. ASSUME NEW i \in 1 .. Len(w) PROVE w[i] = r[i]
  <2>1. i + 1 \in 1 .. n - p /\ i \in 1 .. n - q /\ (i + 1) + p = i + q
    BY <1>1, <1>b, <1>7
  <2>2. QED
    BY <1>3, <1>4, <1>7, <2>1
<1>9. w = r
  <2>1. Len(w) = Len(r)
    BY <1>1, <1>b, <1>4, <1>7
  <2>2. QED
    BY <1>4, <1>7, <1>8, <2>1, SeqEqual
<1>10. t[1] = s[p + 1]
  <2>1. 1 \in 1 .. n - p
    BY <1>1
  <2>2. QED
    BY <1>3, <2>1
<1>11. QED
  BY <1>b, <1>2, <1>5, <1>6, <1>9, <1>10

(***************************************************************************)
(* The codec: the steps.                                                   *)
(***************************************************************************)

\* A user with nothing to do
LEMMA Quiet ==
  ASSUME NEW u, call'[u] = Idle, prog'[u] = << >>
  PROVE  Follows(u)'
<1>1. Idle.op \notin Plays
  BY DEF Idle, Plays
<1>2. Len(<< >>) = 0
  BY EmptySeq
<1>3. PairedLeft(u)' /\ MuteLeft(prog[u])'
  BY <1>2 DEF PairedLeft, MuteLeft
<1>4. QED
  BY <1>1, <1>3 DEF Follows

\* An access done: the first one of its program
LEMMA Stepping ==
  ASSUME HearInv, NEW u \in Users, NEW op, Advance(u, op)
  PROVE  /\ prog[u] \in Seq(Acc) /\ prog[u] # << >> /\ Head(prog[u]) = prog[u][1] /\ prog[u][1].op = op
         /\ 1 \in 1 .. Len(prog[u]) /\ prog[u][1] \in Acc
         /\ prog'[u] = Tail(prog[u]) /\ prog'[u] \in Seq(Acc)
         /\ Len(prog[u]) \in Nat /\ Len(prog'[u]) = Len(prog[u]) - 1
         /\ \A i \in 1 .. Len(prog'[u]) : prog'[u][i] = prog[u][i + 1]
         /\ prog' \in [Users -> Seq(Acc)]
         /\ call'[u] = call[u] /\ calls' = calls /\ device' = device /\ call' = call
         /\ call[u] # Idle
         /\ \A v \in Users : v # u => call[v] = Idle /\ Follows(v)'
<1>1. prog \in [Users -> Seq(Acc)] /\ prog[u] \in Seq(Acc)
  BY DEF HearInv
<1>2. /\ prog[u] # << >> /\ Head(prog[u]).op = op /\ prog' = [prog EXCEPT ![u] = Tail(@)]
      /\ device' = device /\ calls' = calls /\ call' = call
  BY DEF Advance
<1>3. PICK s : s = prog[u]
  OBVIOUS
<1>4. s \in Seq(Acc) /\ s # << >>
  BY <1>1, <1>2, <1>3
<1>5. Len(s) \in Nat \ {0} /\ Head(s) = s[1]
  BY <1>4, EmptySeq
<1>6. s[1] \in Acc
  BY <1>4, <1>5, ElementOfSeq
<1>7. PICK t : t = Tail(s)
  OBVIOUS
<1>8. t \in Seq(Acc) /\ Len(t) = Len(s) - 1 /\ \A i \in 1 .. Len(t) : t[i] = s[i + 1]
  BY <1>4, <1>7, HeadTailProperties
<1>9. prog'[u] = t /\ \A v \in Users : v # u => prog'[v] = prog[v]
  BY <1>1, <1>2, <1>3, <1>7
<1>10. prog' \in [Users -> Seq(Acc)]
  BY <1>1, <1>2, <1>3, <1>7, <1>8
<1>11. call[u] # Idle
  BY <1>2 DEF HearInv, Follows
<1>12. ASSUME NEW v \in Users, v # u PROVE call[v] = Idle /\ Follows(v)'
  <2>1. call[v] = Idle
    BY <1>11, <1>12 DEF HearInv, OneCommand
  <2>2. prog[v] = << >>
    BY <2>1 DEF HearInv, Follows
  <2>3. call'[v] = Idle /\ prog'[v] = << >>
    BY <1>2, <1>9, <1>12, <2>1, <2>2
  <2>4. QED
    BY <2>1, <2>3, Quiet
<1>13. QED
  BY <1>2, <1>3, <1>4, <1>5, <1>6, <1>7, <1>8, <1>9, <1>10, <1>11, <1>12

\* Nobody changes the register between the reading of it and the change
LEMMA PairedRest ==
  ASSUME HearInv, NEW u \in Users, NEW op, Advance(u, op),
         op = "get" => val'[u] = softcs'
  PROVE  PairedLeft(u)'
<1>1. PICK s, t : s = prog[u] /\ t = prog'[u]
  OBVIOUS
<1>2. /\ s[1].op = op /\ Len(s) \in Nat /\ Len(t) = Len(s) - 1
      /\ \A i \in 1 .. Len(t) : t[i] = s[i + 1]
  BY <1>1, Stepping
<1>3. \A i \in 1 .. Len(s) : s[i].op \in {"low", "high"} =>
         IF i = 1 THEN val[u] = softcs ELSE s[i - 1].op = "get"
  BY <1>1 DEF HearInv, Follows, PairedLeft
<1>4. ASSUME NEW i \in 1 .. Len(t), t[i].op \in {"low", "high"}
      PROVE  IF i = 1 THEN val'[u] = softcs' ELSE t[i - 1].op = "get"
  <2>1. PICK k \in 1 .. Len(s) : k = i + 1 /\ k # 1 /\ k - 1 = i
    <3>1. i + 1 \in 1 .. Len(s) /\ i + 1 # 1 /\ (i + 1) - 1 = i
      BY <1>2
    <3>2. QED
      BY <3>1
  <2>2. s[i].op = "get"
    BY <1>2, <1>3, <1>4, <2>1
  <2>3. CASE i = 1
    BY <1>2, <2>2, <2>3
  <2>4. CASE i # 1
    <3>1. i - 1 \in 1 .. Len(t) /\ (i - 1) + 1 = i
      BY <1>2, <2>4
    <3>2. t[i - 1] = s[i]
      BY <1>2, <3>1
    <3>3. QED
      BY <2>2, <2>4, <3>2
  <2>5. QED
    BY <2>3, <2>4
<1>5. QED
  BY <1>1, <1>4 DEF PairedLeft

\* What is not to be heard stays so
LEMMA MuteRest ==
  ASSUME HearInv, NEW u \in Users, NEW op, Advance(u, op), MuteLeft(prog[u]),
         xDcs \notin softcs \/ Raises(prog[u][1]) => xDcs \notin softcs'
  PROVE  MuteLeft(prog[u])'
<1>1. PICK s, t : s = prog[u] /\ t = prog'[u]
  OBVIOUS
<1>2. /\ s[1].op = op /\ Len(s) \in Nat /\ Len(t) = Len(s) - 1
      /\ \A i \in 1 .. Len(t) : t[i] = s[i + 1]
  BY <1>1, Stepping
<1>3. ASSUME NEW i \in 1 .. Len(t)
      PROVE  /\ ~Lowers(t[i])
             /\ t[i].op = "send" => xDcs \notin softcs' \/ \E j \in 1 .. i - 1 : Raises(t[j])
  <2>1. PICK k \in 1 .. Len(s) : k = i + 1
    <3>1. i + 1 \in 1 .. Len(s)
      BY <1>2
    <3>2. QED
      BY <3>1
  <2>2. t[i] = s[k]
    BY <1>2, <2>1
  <2>3. /\ ~Lowers(s[k])
        /\ s[k].op = "send" => xDcs \notin softcs \/ \E j \in 1 .. k - 1 : Raises(s[j])
    BY <1>1 DEF MuteLeft
  <2>4. ASSUME NEW j \in 1 .. k - 1, Raises(s[j]), xDcs \in softcs'
        PROVE  \E l \in 1 .. i - 1 : Raises(t[l])
    <3>1. j # 1
      BY <1>1, <2>4
    <3>2. j - 1 \in 1 .. i - 1 /\ j - 1 \in 1 .. Len(t) /\ (j - 1) + 1 = j
      BY <1>2, <2>1, <3>1
    <3>3. t[j - 1] = s[j]
      BY <1>2, <3>2
    <3>4. QED
      BY <2>4, <3>2, <3>3
  <2>5. QED
    BY <2>2, <2>3, <2>4
<1>4. QED
  BY <1>1, <1>3 DEF MuteLeft

\* An access of a program that plays
PlayOn(u, op, n, P) ==
  /\ n \in Nat /\ n < Span /\ device = "codec"
  /\ \/ \E p \in 1 .. 3 : prog'[u] = Left(P, p) /\ Older /\ op \in {"get", "high"}
     \/ prog'[u] = Left(P, 4) /\ Older /\ op = "low" /\ prog[u][1].arg = xDcs
     \/ \E m \in 1 .. n : /\ prog'[u] = Left(P, 3 + 2 * m) /\ Heard(u, m - 1)
                          /\ op = "send" /\ xDcs \in softcs
                          /\ prog[u][1].arg = Byte(calls - 1, m)
     \/ \E m \in 1 .. n : /\ prog'[u] = Left(P, 4 + 2 * m) /\ Heard(u, m)
                          /\ op = "receive" /\ xDcs \in softcs
     \/ prog'[u] = << >> /\ Heard(u, n) /\ op = "csn" /\ prog[u][1].arg = {}

\* How a chunk goes on
LEMMA PlayStep ==
  ASSUME HearInv, NEW u \in Users, NEW op, Advance(u, op), call[u].op \in Plays,
         NEW n, n = Len(call[u].data), NEW P, P = sdi_send_buffer(call[u].data)
  PROVE  PlayOn(u, op, n, P)
<1>1. PICK data : data = call[u].data
  OBVIOUS
<1>2. /\ device = "codec" /\ calls - 1 \in Nat /\ n \in Chunks /\ data = Chunk(calls - 1, n)
      /\ Playing(u)
  BY <1>1 DEF HearInv, Follows
<1>3. PICK k \in Nat : k = calls - 1
  BY <1>2
<1>4. /\ data \in Seq(Nat) /\ n \in Nat /\ n < Span /\ n = Len(data)
      /\ \A j \in 1 .. n : data[j] = Byte(k, j)
  <2>1. PICK c : c = Chunk(k, n)
    OBVIOUS
  <2>2. /\ c \in Seq(Nat) /\ Len(c) = n /\ n \in Nat /\ n < Span
        /\ \A j \in 1 .. n : c[j] = Byte(k, j)
    <3>1. n \in Chunks
      BY <1>2
    <3>2. /\ Chunk(k, n) \in Seq(Nat) /\ Len(Chunk(k, n)) = n /\ n \in Nat /\ n < Span
          /\ \A j \in 1 .. n : Chunk(k, n)[j] = Byte(k, j)
      BY <3>1, ChunkShape
    <3>3. QED
      BY <2>1, <3>2
  <2>3. data = c
    BY <1>2, <1>3, <2>1
  <2>4. QED
    BY <2>2, <2>3
<1>5. n \in Nat
  BY <1>4
<1>6. /\ P \in Seq(Acc) /\ Len(P) = 5 + 2 * n
      /\ P[1].op = "get" /\ P[2].op = "high" /\ P[3].op = "get" /\ P[4] = Access("low", xDcs)
      /\ \A m \in 0 .. n - 1 : /\ P[5 + 2 * m] = Access("send", data[m + 1])
                              /\ P[6 + 2 * m] = Access("receive", 0)
      /\ P[5 + 2 * n] = Access("csn", {})
  BY <1>1, <1>4, <1>5, PlayShape
<1>7. /\ prog[u][1].op = op /\ Head(prog[u]) = prog[u][1] /\ prog[u] # << >>
      /\ prog'[u] = Tail(prog[u])
  BY Stepping
<1>8. ASSUME NEW p \in 0 .. Len(P) - 1, prog[u] = Left(P, p)
      PROVE  prog[u][1] = P[p + 1] /\ prog'[u] = Left(P, p + 1)
  BY <1>6, <1>7, <1>8, LeftOn
<1>9. CASE \E p \in 0 .. 3 : prog[u] = Left(P, p) /\ Older
  <2>1. PICK p \in 0 .. 3 : prog[u] = Left(P, p) /\ Older
    BY <1>9
  <2>2. p \in 0 .. Len(P) - 1
    BY <1>4, <1>6
  <2>3. prog[u][1] = P[p + 1] /\ prog'[u] = Left(P, p + 1)
    BY <1>8, <2>1, <2>2
  <2>4. CASE p \in 0 .. 2
    <3>1. PICK q \in 1 .. 3 : q = p + 1
      BY <2>4
    <3>2. P[q].op \in {"get", "high"}
      BY <1>6
    <3>3. prog'[u] = Left(P, q) /\ op \in {"get", "high"}
      BY <1>7, <2>3, <3>1, <3>2
    <3>4. QED
      BY <1>2, <1>4, <2>1, <3>3 DEF PlayOn
  <2>5. CASE p = 3
    <3>1. Access("low", xDcs).op = "low" /\ Access("low", xDcs).arg = xDcs
      BY DEF Access
    <3>2. prog[u][1] = P[4] /\ prog'[u] = Left(P, 4)
      BY <2>3, <2>5
    <3>3. QED
      BY <1>2, <1>4, <1>6, <1>7, <2>1, <3>1, <3>2 DEF PlayOn
  <2>6. QED
    BY <2>4, <2>5
<1>10. CASE \E m \in 0 .. n : prog[u] = Left(P, 4 + 2 * m) /\ xDcs \in softcs /\ Heard(u, m)
  <2>1. PICK m \in 0 .. n : prog[u] = Left(P, 4 + 2 * m) /\ xDcs \in softcs /\ Heard(u, m)
    BY <1>10
  <2>2. PICK p \in 0 .. Len(P) - 1 : p = 4 + 2 * m
    <3>1. 4 + 2 * m \in 0 .. Len(P) - 1
      BY <1>4, <1>6
    <3>2. QED
      BY <3>1
  <2>3. prog[u][1] = P[p + 1] /\ prog'[u] = Left(P, p + 1) /\ p + 1 = 5 + 2 * m
    <3>1. prog[u] = Left(P, p)
      BY <2>1, <2>2
    <3>2. p + 1 = 5 + 2 * m
      BY <1>5, <2>2
    <3>3. QED
      BY <1>8, <3>1, <3>2
  <2>4. CASE m < n
    <3>1. PICK l \in 1 .. n : l = m + 1
      <4>1. m + 1 \in 1 .. n
        BY <1>4, <2>4
      <4>2. QED
        BY <4>1
    <3>2. P[5 + 2 * m] = Access("send", data[m + 1])
      <4>1. m \in 0 .. n - 1
        BY <1>5, <2>4
      <4>2. QED
        BY <1>6, <4>1
    <3>3. prog[u][1] = Access("send", data[l])
      BY <2>3, <3>1, <3>2
    <3>4. Access("send", data[l]).op = "send" /\ Access("send", data[l]).arg = data[l]
      BY DEF Access
    <3>5. prog[u][1].arg = Byte(calls - 1, l) /\ op = "send"
      BY <1>3, <1>4, <1>7, <3>3, <3>4
    <3>6. 5 + 2 * m = 3 + 2 * l /\ l - 1 = m
      BY <3>1
    <3>7. prog'[u] = Left(P, 3 + 2 * l) /\ Heard(u, l - 1)
      BY <2>1, <2>3, <3>6
    <3>8. QED
      BY <1>2, <1>4, <2>1, <3>5, <3>7 DEF PlayOn
  <2>5. CASE m = n
    <3>1. /\ prog[u][1] = Access("csn", {}) /\ Access("csn", {}).op = "csn"
          /\ Access("csn", {}).arg = {}
      BY <1>6, <2>3, <2>5 DEF Access
    <3>2. PICK e \in 0 .. Len(P) : e = Len(P)
      BY <1>4, <1>6
    <3>3. p + 1 = e
      BY <1>4, <1>6, <2>2, <2>5, <3>2
    <3>4. PICK r : r = Left(P, e)
      OBVIOUS
    <3>5. r \in Seq(Acc) /\ Len(r) = 0
      <4>1. r \in Seq(Acc) /\ Len(r) = Len(P) - e
        BY <1>6, <3>4, LeftShape
      <4>2. QED
        BY <1>4, <1>6, <3>2, <4>1
    <3>6. r = << >>
      BY <3>5, EmptySeq
    <3>7. QED
      BY <1>2, <1>4, <1>7, <2>1, <2>3, <2>5, <3>1, <3>3, <3>4, <3>6 DEF PlayOn
  <2>6. QED
    <3>1. m < n \/ m = n
      BY <1>5
    <3>2. QED
      BY <2>4, <2>5, <3>1
<1>11. CASE \E m \in 1 .. n : prog[u] = Left(P, 3 + 2 * m) /\ xDcs \in softcs /\ Heard(u, m)
  <2>1. PICK m \in 1 .. n : prog[u] = Left(P, 3 + 2 * m) /\ xDcs \in softcs /\ Heard(u, m)
    BY <1>11
  <2>2. PICK p \in 0 .. Len(P) - 1 : p = 3 + 2 * m
    <3>1. 3 + 2 * m \in 0 .. Len(P) - 1
      BY <1>4, <1>6
    <3>2. QED
      BY <3>1
  <2>3. prog[u][1] = P[p + 1] /\ prog'[u] = Left(P, p + 1) /\ p + 1 = 4 + 2 * m
    <3>1. prog[u] = Left(P, p)
      BY <2>1, <2>2
    <3>2. p + 1 = 4 + 2 * m
      BY <1>5, <2>2
    <3>3. QED
      BY <1>8, <3>1, <3>2
  <2>4. PICK l \in 0 .. n - 1 : l = m - 1
    <3>1. m - 1 \in 0 .. n - 1
      BY <1>4
    <3>2. QED
      BY <3>1
  <2>5. P[6 + 2 * l] = Access("receive", 0) /\ 6 + 2 * l = 4 + 2 * m
    <3>1. P[6 + 2 * l] = Access("receive", 0)
      BY <1>6
    <3>2. 6 + 2 * l = 4 + 2 * m
      BY <1>5, <2>4
    <3>3. QED
      BY <3>1, <3>2
  <2>6. prog[u][1] = Access("receive", 0) /\ Access("receive", 0).op = "receive"
    BY <2>3, <2>5 DEF Access
  <2>7. prog'[u] = Left(P, 4 + 2 * m) /\ op = "receive"
    BY <1>7, <2>3, <2>6
  <2>8. QED
    BY <1>2, <1>4, <2>1, <2>7 DEF PlayOn
<1>12. prog[u] # << >>
  BY <1>7
<1>13. QED
  BY <1>2, <1>9, <1>10, <1>11, <1>12 DEF Playing

\* A step that does not add to what was heard
LEMMA Unheard ==
  ASSUME HearInv, NEW u \in Users, NEW op, Advance(u, op), heard' = heard,
         val' = [v \in Users |-> val'[v]], PairedLeft(u)',
         call[u].op \notin Plays => MuteLeft(prog[u])',
         call[u].op \in Plays => Playing(u)'
  PROVE  HearInv'
<1>1. /\ prog' \in [Users -> Seq(Acc)] /\ call' = call /\ calls' = calls /\ device' = device
      /\ call[u] # Idle /\ \A v \in Users : v # u => Follows(v)'
  BY Stepping
<1>2. Follows(u)'
  <2>1. Follows(u)
    BY DEF HearInv
  <2>2. QED
    BY <1>1, <2>1 DEF Follows
<1>3. Hears' /\ OneCommand'
  BY <1>1 DEF HearInv, Hears, OneCommand
<1>4. QED
  BY <1>1, <1>2, <1>3 DEF HearInv

\* The register is read
LEMMA GetStep == ASSUME HearInv, NEW u \in Users, GetCs(u) PROVE HearInv'
<1>1. /\ Advance(u, "get") /\ val' = [val EXCEPT ![u] = softcs]
      /\ softcs' = softcs /\ heard' = heard
  BY DEF GetCs, busVars, chipVars
<1>2. val' = [v \in Users |-> val'[v]] /\ val'[u] = softcs'
  BY <1>1 DEF HearInv
<1>3. PairedLeft(u)'
  BY <1>1, <1>2, PairedRest
<1>4. prog[u][1].op = "get"
  BY <1>1, Stepping
<1>5. ASSUME call[u].op \notin Plays PROVE MuteLeft(prog[u])'
  <2>1. ~Raises(prog[u][1])
    BY <1>4 DEF Raises
  <2>2. MuteLeft(prog[u])
    BY <1>5 DEF HearInv, Follows
  <2>3. QED
    BY <1>1, <2>1, <2>2, MuteRest
<1>6. ASSUME call[u].op \in Plays PROVE Playing(u)'
  <2>1. PICK n, P : n = Len(call[u].data) /\ P = sdi_send_buffer(call[u].data)
    OBVIOUS
  <2>2. \E p \in 1 .. 3 : prog'[u] = Left(P, p) /\ Older
    BY <1>1, <1>6, <2>1, PlayStep DEF PlayOn
  <2>3. call'[u] = call[u] /\ calls' = calls
    BY <1>1, Stepping
  <2>4. Older => Older'
    BY <1>1, <2>3 DEF Older
  <2>5. QED
    BY <2>1, <2>2, <2>3, <2>4 DEF Playing
<1>7. QED
  BY <1>1, <1>2, <1>3, <1>5, <1>6, Unheard

\* A byte is received
LEMMA ReceiveStep == ASSUME HearInv, NEW u \in Users, Receive(u) PROVE HearInv'
<1>1. /\ Advance(u, "receive") /\ val' = val /\ softcs' = softcs /\ heard' = heard
  BY DEF Receive, chipVars
<1>2. val' = [v \in Users |-> val'[v]]
  BY <1>1 DEF HearInv
<1>3. PairedLeft(u)'
  BY <1>1, PairedRest
<1>4. prog[u][1].op = "receive"
  BY <1>1, Stepping
<1>5. ASSUME call[u].op \notin Plays PROVE MuteLeft(prog[u])'
  <2>1. ~Raises(prog[u][1])
    BY <1>4 DEF Raises
  <2>2. MuteLeft(prog[u])
    BY <1>5 DEF HearInv, Follows
  <2>3. QED
    BY <1>1, <2>1, <2>2, MuteRest
<1>6. ASSUME call[u].op \in Plays PROVE Playing(u)'
  <2>1. PICK n, P : n = Len(call[u].data) /\ P = sdi_send_buffer(call[u].data)
    OBVIOUS
  <2>2. /\ n \in Nat
        /\ \E m \in 1 .. n : prog'[u] = Left(P, 4 + 2 * m) /\ Heard(u, m) /\ xDcs \in softcs
    BY <1>1, <1>6, <2>1, PlayStep DEF PlayOn
  <2>3. call'[u] = call[u] /\ calls' = calls
    BY <1>1, Stepping
  <2>4. PICK m \in 1 .. n : prog'[u] = Left(P, 4 + 2 * m) /\ Heard(u, m) /\ xDcs \in softcs
    BY <2>2
  <2>5. Heard(u, m)' /\ m \in 0 .. n
    BY <1>1, <2>2, <2>3, <2>4 DEF Heard, Older
  <2>6. QED
    BY <1>1, <2>1, <2>3, <2>4, <2>5 DEF Playing
<1>7. QED
  BY <1>1, <1>2, <1>3, <1>5, <1>6, Unheard

\* A conversion is waited for
LEMMA AwaitStep == ASSUME HearInv, NEW u \in Users, Await(u) PROVE HearInv'
<1>1. /\ Advance(u, "convert") /\ val' = val /\ softcs' = softcs /\ heard' = heard
  BY DEF Await, Convert, busVars
<1>2. val' = [v \in Users |-> val'[v]]
  BY <1>1 DEF HearInv
<1>3. PairedLeft(u)'
  BY <1>1, PairedRest
<1>4. prog[u][1].op = "convert"
  BY <1>1, Stepping
<1>5. ASSUME call[u].op \notin Plays PROVE MuteLeft(prog[u])'
  <2>1. ~Raises(prog[u][1])
    BY <1>4 DEF Raises
  <2>2. MuteLeft(prog[u])
    BY <1>5 DEF HearInv, Follows
  <2>3. QED
    BY <1>1, <2>1, <2>2, MuteRest
<1>6. call[u].op \notin Plays
  <2>1. PICK n, P : n = Len(call[u].data) /\ P = sdi_send_buffer(call[u].data)
    OBVIOUS
  <2>2. QED
    BY <1>1, <2>1, PlayStep DEF PlayOn
<1>7. QED
  BY <1>1, <1>2, <1>3, <1>5, <1>6, Unheard

\* The selects are changed
LEMMA SetStep == ASSUME HearInv, NEW u \in Users, SetCs(u) PROVE HearInv'
<1>1. val' = val /\ heard' = heard
  BY DEF SetCs, Select
<1>2. val' = [v \in Users |-> val'[v]]
  BY <1>1 DEF HearInv
<1>3. PairedLeft(u)
  BY DEF HearInv, Follows
<1>4. PICK n, P : n = Len(call[u].data) /\ P = sdi_send_buffer(call[u].data)
  OBVIOUS
<1>5. CASE Advance(u, "low") /\ Select(val[u] \cup {Arg(u)})
  <2>1. prog[u][1].op = "low" /\ 1 \in 1 .. Len(prog[u]) /\ Head(prog[u]) = prog[u][1]
    BY <1>5, Stepping
  <2>2. val[u] = softcs
    BY <1>3, <2>1 DEF PairedLeft
  <2>3. softcs' = softcs \cup {prog[u][1].arg}
    BY <1>5, <2>1, <2>2 DEF Select, Arg
  <2>4. PairedLeft(u)'
    BY <1>5, PairedRest
  <2>5. ASSUME call[u].op \notin Plays PROVE MuteLeft(prog[u])'
    <3>1. MuteLeft(prog[u])
      BY <2>5 DEF HearInv, Follows
    <3>2. prog[u][1].arg # xDcs
      BY <2>1, <3>1 DEF MuteLeft, Lowers
    <3>3. ~Raises(prog[u][1])
      BY <2>1 DEF Raises
    <3>4. xDcs \notin softcs => xDcs \notin softcs'
      BY <2>3, <3>2
    <3>5. QED
      BY <1>5, <3>1, <3>3, <3>4, MuteRest
  <2>6. ASSUME call[u].op \in Plays PROVE Playing(u)'
    <3>1. n \in Nat /\ n < Span /\ prog'[u] = Left(P, 4) /\ Older /\ prog[u][1].arg = xDcs
      <4>1. PICK op : op = "low"
        OBVIOUS
      <4>2. Advance(u, op)
        BY <1>5, <4>1
      <4>3. PlayOn(u, op, n, P)
        BY <1>4, <2>6, <4>2, PlayStep
      <4>4. QED
        BY <4>1, <4>3 DEF PlayOn
    <3>2. call'[u] = call[u] /\ calls' = calls
      BY <1>5, Stepping
    <3>3. xDcs \in softcs'
      BY <2>3, <3>1
    <3>4. PICK m \in 0 .. n : m = 0
      BY <3>1
    <3>5. Heard(u, m)'
      BY <1>1, <3>1, <3>2, <3>4 DEF Heard, Older
    <3>6. prog'[u] = Left(P, 4 + 2 * m)
      BY <3>1, <3>4
    <3>7. QED
      BY <1>4, <3>2, <3>3, <3>5, <3>6 DEF Playing
  <2>7. QED
    BY <1>1, <1>2, <1>5, <2>4, <2>5, <2>6, Unheard
<1>6. CASE Advance(u, "high") /\ Select(val[u] \ {Arg(u)})
  <2>1. prog[u][1].op = "high" /\ 1 \in 1 .. Len(prog[u]) /\ Head(prog[u]) = prog[u][1]
    BY <1>6, Stepping
  <2>2. val[u] = softcs
    BY <1>3, <2>1 DEF PairedLeft
  <2>3. softcs' = softcs \ {prog[u][1].arg}
    BY <1>6, <2>1, <2>2 DEF Select, Arg
  <2>4. PairedLeft(u)'
    BY <1>6, PairedRest
  <2>5. ASSUME call[u].op \notin Plays PROVE MuteLeft(prog[u])'
    <3>1. MuteLeft(prog[u])
      BY <2>5 DEF HearInv, Follows
    <3>2. xDcs \notin softcs \/ Raises(prog[u][1]) => xDcs \notin softcs'
      BY <2>1, <2>3 DEF Raises
    <3>3. QED
      BY <1>6, <3>1, <3>2, MuteRest
  <2>6. ASSUME call[u].op \in Plays PROVE Playing(u)'
    <3>1. \E p \in 1 .. 3 : prog'[u] = Left(P, p) /\ Older
      BY <1>4, <1>6, <2>6, PlayStep DEF PlayOn
    <3>2. call'[u] = call[u] /\ calls' = calls
      BY <1>6, Stepping
    <3>3. Older => Older'
      BY <1>1, <3>2 DEF Older
    <3>4. QED
      BY <1>4, <3>1, <3>2, <3>3 DEF Playing
  <2>7. QED
    BY <1>1, <1>2, <1>6, <2>4, <2>5, <2>6, Unheard
<1>7. CASE Advance(u, "csn") /\ Select(Arg(u))
  <2>1. prog[u][1].op = "csn" /\ 1 \in 1 .. Len(prog[u]) /\ Head(prog[u]) = prog[u][1]
    BY <1>7, Stepping
  <2>2. softcs' = prog[u][1].arg
    BY <1>7, <2>1 DEF Select, Arg
  <2>3. PairedLeft(u)'
    BY <1>7, PairedRest
  <2>4. ASSUME call[u].op \notin Plays PROVE MuteLeft(prog[u])'
    <3>1. MuteLeft(prog[u])
      BY <2>4 DEF HearInv, Follows
    <3>2. xDcs \notin prog[u][1].arg
      BY <2>1, <3>1 DEF MuteLeft, Lowers
    <3>3. QED
      BY <1>7, <2>2, <3>1, <3>2, MuteRest
  <2>5. ASSUME call[u].op \in Plays PROVE Playing(u)'
    <3>1. prog'[u] = << >> /\ Heard(u, n)
      BY <1>4, <1>7, <2>5, PlayStep DEF PlayOn
    <3>2. call'[u] = call[u] /\ calls' = calls
      BY <1>7, Stepping
    <3>3. Heard(u, n)'
      BY <1>1, <3>1, <3>2 DEF Heard, Older
    <3>4. QED
      BY <1>4, <3>1, <3>2, <3>3 DEF Playing
  <2>6. QED
    BY <1>1, <1>2, <1>7, <2>3, <2>4, <2>5, Unheard
<1>8. QED
  BY <1>5, <1>6, <1>7 DEF SetCs

\* A byte is sent
LEMMA SendStep == ASSUME HearInv, NEW u \in Users, Send(u) PROVE HearInv'
<1>1. Advance(u, "send") /\ softcs' = softcs /\ val' = val /\ Shift(Arg(u))
  BY DEF Send
<1>2. val' = [v \in Users |-> val'[v]]
  BY <1>1 DEF HearInv
<1>3. PairedLeft(u)'
  BY <1>1, PairedRest
<1>4. /\ prog[u][1].op = "send" /\ 1 \in 1 .. Len(prog[u]) /\ Head(prog[u]) = prog[u][1]
      /\ prog' \in [Users -> Seq(Acc)]
      /\ call' = call /\ calls' = calls /\ device' = device
      /\ \A v \in Users : v # u => Follows(v)'
  BY <1>1, Stepping
<1>5. CASE call[u].op \notin Plays
  <2>1. MuteLeft(prog[u])
    BY <1>5 DEF HearInv, Follows
  <2>2. xDcs \notin softcs
    <3>1. xDcs \notin softcs \/ \E j \in 1 .. 1 - 1 : Raises(prog[u][j])
      BY <1>4, <2>1 DEF MuteLeft
    <3>2. QED
      BY <3>1
  <2>3. heard' = heard
    BY <1>1, <2>2 DEF Shift
  <2>4. MuteLeft(prog[u])'
    BY <1>1, <2>1, <2>2, MuteRest
  <2>5. QED
    BY <1>1, <1>2, <1>3, <1>5, <2>3, <2>4, Unheard
<1>6. CASE call[u].op \in Plays
  <2>1. PICK n, P : n = Len(call[u].data) /\ P = sdi_send_buffer(call[u].data)
    OBVIOUS
  <2>2. /\ n \in Nat /\ n < Span /\ device = "codec"
        /\ \E m \in 1 .. n : /\ prog'[u] = Left(P, 3 + 2 * m) /\ Heard(u, m - 1) /\ xDcs \in softcs
                             /\ prog[u][1].arg = Byte(calls - 1, m)
    <3>1. PICK op : op = "send"
      OBVIOUS
    <3>2. Advance(u, op)
      BY <1>1, <3>1
    <3>3. PlayOn(u, op, n, P)
      BY <1>6, <2>1, <3>2, PlayStep
    <3>4. QED
      BY <3>1, <3>3 DEF PlayOn
  <2>3. PICK m \in 1 .. n :
          /\ prog'[u] = Left(P, 3 + 2 * m) /\ Heard(u, m - 1) /\ xDcs \in softcs
          /\ prog[u][1].arg = Byte(calls - 1, m)
    BY <2>2
  <2>4. /\ calls \in Nat /\ calls > 0 /\ heard \in Seq(Nat) /\ Hears
        /\ \A i \in 1 .. Len(heard) : heard[i] \div Span < 10 + calls
    BY <1>6 DEF HearInv, Follows
  <2>5. PICK x \in Nat : x = Byte(calls - 1, m)
    <3>1. calls - 1 \in Nat /\ m \in Nat /\ m < Span /\ Span \in Nat
      BY <2>2, <2>4, SpiAssumption
    <3>2. QED
      BY <3>1, ByteShape
  <2>6. /\ m \in Nat \ {0} /\ x \div Span = 9 + calls /\ x % Span = m
        /\ x = Byte(calls - 1, m - 1) + 1
    <3>1. calls - 1 \in Nat /\ m \in Nat /\ m > 0 /\ m < Span /\ Span \in Nat
      BY <2>2, <2>4, SpiAssumption
    <3>2. PICK c \in Nat : c = calls - 1 /\ 10 + c = 9 + calls
      BY <2>4, <3>1
    <3>3. /\ Byte(c, m) \div Span = 10 + c /\ Byte(c, m) % Span = m
          /\ Byte(c, m) = Byte(c, m - 1) + 1
      BY <3>1, ByteShape
    <3>4. QED
      BY <2>5, <3>1, <3>2, <3>3
  <2>7. PICK k \in Nat : k = Len(heard)
    BY <2>4, LenProperties
  <2>8. PICK h : h = heard'
    OBVIOUS
  <2>9. h = Append(heard, x)
    BY <1>1, <1>4, <2>2, <2>3, <2>5, <2>8 DEF Shift, Arg
  <2>10. /\ h \in Seq(Nat) /\ Len(h) = k + 1
         /\ \A i \in 1 .. k : h[i] = heard[i]
         /\ h[k + 1] = x
    BY <2>4, <2>7, <2>9, AppendProperties
  <2>11. Heard(u, m)'
    <3>1. h # << >>
      BY <2>7, <2>10, EmptySeq
    <3>2. PICK d : d = call[u].data
      OBVIOUS
    <3>3. d[m] = x
      <4>1. n \in Chunks /\ d = Chunk(calls - 1, n) /\ calls - 1 \in Nat
        BY <1>6, <2>1, <2>4, <3>2 DEF HearInv, Follows
      <4>2. PICK c \in Nat : c = calls - 1
        BY <4>1
      <4>3. \A j \in 1 .. n : Chunk(c, n)[j] = Byte(c, j)
        BY <4>1, ChunkShape
      <4>4. QED
        BY <2>3, <2>5, <4>1, <4>2, <4>3
    <3>4. m - 1 <= k /\ \A j \in 1 .. m - 1 : heard[k - (m - 1) + j] = d[j]
      BY <2>3, <2>7, <3>2 DEF Heard
    <3>5. ASSUME NEW j \in 1 .. m PROVE h[k + 1 - m + j] = d[j]
      <4>1. CASE j = m
        <5>1. k + 1 - m + j = k + 1
          BY <2>6, <2>7, <4>1
        <5>2. QED
          BY <2>10, <3>3, <4>1, <5>1
      <4>2. CASE j # m
        <5>1. j \in 1 .. m - 1 /\ k + 1 - m + j = k - (m - 1) + j
              /\ k - (m - 1) + j \in 1 .. k
          BY <2>6, <2>7, <3>4, <4>2
        <5>2. QED
          BY <2>10, <3>4, <5>1
      <4>3. QED
        BY <4>1, <4>2
    <3>6. m <= k + 1 /\ m > 0
      BY <2>6, <2>7, <3>4
    <3>7. heard'[Len(heard')] = Byte(calls' - 1, m)
      BY <1>4, <2>5, <2>7, <2>8, <2>10
    <3>8. call'[u].data = d /\ heard' = h /\ Len(h) = k + 1
      BY <1>4, <2>8, <2>10, <3>2
    <3>9. QED
      BY <3>1, <3>5, <3>6, <3>7, <3>8 DEF Heard
  <2>12. Playing(u)'
    BY <1>1, <1>4, <2>1, <2>3, <2>11 DEF Playing
  <2>13. \A i \in 1 .. Len(h) : h[i] \div Span < 10 + calls
    <3>1. x \div Span < 10 + calls
      BY <2>4, <2>6
    <3>2. \A i \in 1 .. k + 1 : i \in 1 .. k \/ i = k + 1
      OBVIOUS
    <3>3. \A i \in 1 .. k : h[i] \div Span < 10 + calls
      BY <2>4, <2>7, <2>10
    <3>4. QED
      BY <2>10, <3>1, <3>2, <3>3
  <2>14. \/ x % Span = 1 /\ (k + 1 = 1 \/ h[k] \div Span < x \div Span)
         \/ k + 1 > 1 /\ x = h[k] + 1
    <3>1. CASE m = 1
      <4>1. \A i \in 1 .. k : heard[i] \div Span < 9 + calls
        BY <2>3, <2>7, <3>1 DEF Heard, Older
      <4>2. QED
        BY <2>6, <2>7, <2>10, <3>1, <4>1
    <3>2. CASE m # 1
      <4>1. heard # << >> /\ heard[k] = Byte(calls - 1, m - 1)
        BY <2>3, <2>6, <2>7, <3>2 DEF Heard
      <4>2. k > 0
        BY <2>4, <2>7, <4>1, EmptySeq
      <4>3. QED
        BY <2>4, <2>5, <2>6, <2>7, <2>10, <4>1, <4>2
    <3>3. QED
      BY <3>1, <3>2
  <2>15. Hears'
    <3>1. DOMAIN h = 1 .. k + 1 /\ DOMAIN heard = 1 .. k
      BY <2>4, <2>7, <2>10, LenProperties
    <3>2. ASSUME NEW i \in 1 .. k + 1
          PROVE  \/ h[i] % Span = 1 /\ (i = 1 \/ h[i - 1] \div Span < h[i] \div Span)
                 \/ i > 1 /\ h[i] = h[i - 1] + 1
      <4>1. CASE i = k + 1
        <5>1. i - 1 = k /\ h[i] = x
          BY <2>7, <2>10, <4>1
        <5>2. QED
          BY <2>14, <4>1, <5>1
      <4>2. CASE i # k + 1
        <5>1. i \in 1 .. k /\ h[i] = heard[i]
          BY <2>7, <2>10, <4>2
        <5>2. \/ heard[i] % Span = 1 /\ (i = 1 \/ heard[i - 1] \div Span < heard[i] \div Span)
              \/ i > 1 /\ heard[i] = heard[i - 1] + 1
          BY <2>4, <3>1, <5>1 DEF Hears
        <5>3. i # 1 => h[i - 1] = heard[i - 1]
          <6>1. i # 1 => i - 1 \in 1 .. k
            BY <2>7, <5>1
          <6>2. QED
            BY <2>10, <6>1
        <5>4. QED
          BY <5>1, <5>2, <5>3
      <4>3. QED
        BY <4>1, <4>2
    <3>3. QED
      BY <2>8, <3>1, <3>2 DEF Hears
  <2>16. Follows(u)'
    BY <1>3, <1>4, <1>6, <2>12 DEF HearInv, Follows
  <2>17. OneCommand'
    BY <1>4 DEF HearInv, OneCommand
  <2>18. QED
    BY <1>2, <1>4, <2>4, <2>8, <2>10, <2>13, <2>15, <2>16, <2>17 DEF HearInv
<1>7. QED
  BY <1>5, <1>6

\* A command is issued while no other is under way
LEMMA HearIssue ==
  ASSUME HearInv, ShellIdle, NEW u \in Users, Issue(u) PROVE HearInv'
<1>1. PICK c \in Commands :
        /\ call' = [call EXCEPT ![u] = c] /\ prog' = [prog EXCEPT ![u] = Program(c)]
  BY DEF Issue
<1>2. /\ calls' = calls + 1 /\ device' = device /\ softcs' = softcs /\ val' = val /\ heard' = heard
  BY DEF Issue, busVars, chipVars
<1>3. /\ calls \in Nat /\ heard \in Seq(Nat) /\ Hears /\ prog \in [Users -> Seq(Acc)]
      /\ \A i \in 1 .. Len(heard) : heard[i] \div Span < 10 + calls
      /\ call = [v \in Users |-> call[v]] /\ val = [v \in Users |-> val[v]]
  BY DEF HearInv
<1>4. /\ call'[u] = c /\ prog'[u] = Program(c)
      /\ \A v \in Users : v # u => call'[v] = call[v] /\ prog'[v] = prog[v]
      /\ call' = [v \in Users |-> call'[v]]
  BY <1>1, <1>3
<1>5. \A v \in Users : v # u => call'[v] = Idle /\ prog'[v] = << >>
  BY <1>4 DEF ShellIdle, HearInv, Follows
<1>6. PICK s : s = prog'[u]
  OBVIOUS
<1>7. ASSUME c.op \notin Plays PROVE s \in Seq(Acc) /\ Follows(u)'
  <2>1. Fine(s) /\ c.op # "idle"
    BY <1>4, <1>6, <1>7, ProgramShape
  <2>2. s \in Seq(Acc) /\ Paired(s) /\ Mute(s)
    BY <2>1 DEF Fine
  <2>3. PairedLeft(u)'
    BY <1>6, <2>2 DEF PairedLeft, Paired
  <2>4. MuteLeft(prog[u])'
    BY <1>6, <2>2 DEF MuteLeft, Mute
  <2>5. c # Idle
    BY <2>1 DEF Idle
  <2>6. QED
    BY <1>4, <1>6, <1>7, <2>2, <2>3, <2>4, <2>5 DEF Follows
<1>8. ASSUME c.op \in Plays PROVE s \in Seq(Acc) /\ Follows(u)'
  <2>1. PICK n \in Chunks : c.data = Chunk(calls, n) /\ device = "codec" /\ c.op # "idle"
    <3>1. c \notin ConverterCommands
      BY <1>8 DEF Plays, ConverterCommands
    <3>2. c \in CodecCommands /\ device = "codec"
      BY <3>1 DEF Commands
    <3>3. \E n \in Chunks : c.data = Chunk(calls, n)
      BY <1>8, <3>2 DEF CodecCommands, Plays
    <3>4. c.op # "idle"
      BY <1>8 DEF Plays
    <3>5. QED
      BY <3>2, <3>3, <3>4
  <2>2. PICK data \in Seq(Nat) : data = c.data /\ Len(data) = n /\ n \in Nat /\ n < Span
    BY <1>3, <2>1, ChunkShape
  <2>3. s = sdi_send_buffer(data)
    BY <1>4, <1>6, <1>8, <2>2 DEF Program, Plays
  <2>4. s \in Seq(Acc) /\ Paired(s) /\ Len(s) = 5 + 2 * n
    <3>1. n \in Nat
      BY <2>2
    <3>2. QED
      BY <2>2, <2>3, <3>1, PlayShape
  <2>5. PairedLeft(u)'
    BY <1>6, <2>4 DEF PairedLeft, Paired
  <2>6. PICK p \in 0 .. 3 : p = 0
    OBVIOUS
  <2>7. s = Left(s, p)
    <3>1. p \in 0 .. Len(s)
      BY <2>2, <2>4, <2>6
    <3>2. PICK r : r = Left(s, p)
      OBVIOUS
    <3>3. r \in Seq(Acc) /\ Len(r) = Len(s) - p /\ \A i \in 1 .. Len(s) - p : r[i] = s[i + p]
      BY <2>4, <3>1, <3>2, LeftShape
    <3>4. Len(s) = Len(r) /\ \A i \in 1 .. Len(s) : s[i] = r[i]
      BY <2>2, <2>4, <2>6, <3>3
    <3>5. s = r
      BY <2>4, <3>3, <3>4, SeqEqual
    <3>6. QED
      BY <3>2, <3>5
  <2>8. Older'
    <3>1. 9 + (calls + 1) = 10 + calls
      BY <1>3
    <3>2. QED
      BY <1>2, <1>3, <3>1 DEF Older
  <2>9. Playing(u)'
    <3>1. call'[u].data = data
      BY <1>4, <2>2
    <3>2. QED
      BY <1>6, <2>3, <2>7, <2>8, <3>1 DEF Playing
  <2>10. c # Idle
    BY <2>1 DEF Idle
  <2>11. calls' - 1 = calls /\ calls' > 0
    BY <1>2, <1>3
  <2>12. call'[u].data = Chunk(calls' - 1, n) /\ Len(call'[u].data) = n
    BY <1>4, <2>1, <2>2, <2>11
  <2>13. QED
    BY <1>2, <1>4, <1>6, <1>8, <2>1, <2>4, <2>5, <2>9, <2>10, <2>11, <2>12 DEF Follows
<1>9. s \in Seq(Acc) /\ Follows(u)'
  BY <1>7, <1>8
<1>10. \A v \in Users : Follows(v)'
  BY <1>5, <1>9, Quiet
<1>11. OneCommand'
  BY <1>5 DEF OneCommand
<1>12. Hears'
  BY <1>2, <1>3 DEF Hears
<1>13. prog' \in [Users -> Seq(Acc)]
  BY <1>1, <1>3, <1>6, <1>9
<1>14. \A i \in 1 .. Len(heard') : heard'[i] \div Span < 10 + calls'
  <2>1. ASSUME NEW i \in 1 .. Len(heard) PROVE heard[i] \div Span < 10 + (calls + 1)
    <3>1. heard[i] \in Nat /\ Span \in Nat \ {0}
      BY <1>3, ElementOfSeq, SpiAssumption
    <3>2. heard[i] \div Span \in Nat
      BY <3>1, Division
    <3>3. QED
      BY <1>3, <3>2
  <2>2. QED
    BY <1>2, <2>1
<1>15. QED
  BY <1>2, <1>3, <1>4, <1>10, <1>11, <1>12, <1>13, <1>14 DEF HearInv

\* A command returns, or the player is deleted wherever it is
LEMMA OverStep ==
  ASSUME HearInv, NEW u \in Users, Return(u) \/ Delete(u) PROVE HearInv'
<1>1. /\ call' = [call EXCEPT ![u] = Idle]
      /\ device' = device /\ softcs' = softcs /\ calls' = calls /\ val' = val /\ heard' = heard
  BY DEF Return, Delete, busVars, chipVars
<1>2. prog \in [Users -> Seq(Acc)] /\ call = [v \in Users |-> call[v]]
  BY DEF HearInv
<1>3. /\ prog'[u] = << >> /\ \A v \in Users : v # u => prog'[v] = prog[v]
      /\ prog' \in [Users -> Seq(Acc)]
  <2>1. CASE Return(u)
    BY <1>2, <2>1 DEF Return
  <2>2. CASE Delete(u)
    <3>1. prog' = [prog EXCEPT ![u] = << >>]
      BY <2>2 DEF Delete
    <3>2. << >> \in Seq(Acc)
      BY EmptySeq
    <3>3. QED
      BY <1>2, <3>1, <3>2
  <2>3. QED
    BY <2>1, <2>2
<1>4. /\ call'[u] = Idle /\ \A v \in Users : v # u => call'[v] = call[v]
      /\ call' = [v \in Users |-> call'[v]]
  BY <1>1, <1>2
<1>5. ASSUME NEW v \in Users PROVE Follows(v)'
  <2>1. CASE v = u
    BY <1>3, <1>4, <2>1, Quiet
  <2>2. CASE v # u
    <3>1. Follows(v)
      BY DEF HearInv
    <3>2. call'[v] = call[v] /\ prog'[v] = prog[v] /\ val'[v] = val[v]
      BY <1>1, <1>3, <1>4, <2>2
    <3>3. PairedLeft(v) => PairedLeft(v)'
      BY <1>1, <3>2 DEF PairedLeft
    <3>4. MuteLeft(prog[v]) => MuteLeft(prog[v])'
      BY <1>1, <3>2 DEF MuteLeft
    <3>5. Older' = Older /\ \A m : Heard(v, m)' = Heard(v, m)
      BY <1>1, <3>2 DEF Older, Heard
    <3>6. Playing(v) => Playing(v)'
      BY <1>1, <3>2, <3>5 DEF Playing
    <3>7. QED
      BY <1>1, <3>1, <3>2, <3>3, <3>4, <3>6 DEF Follows
  <2>3. QED
    BY <2>1, <2>2
<1>6. OneCommand'
  BY <1>4 DEF HearInv, OneCommand
<1>7. Hears'
  BY <1>1 DEF HearInv, Hears
<1>8. QED
  BY <1>1, <1>3, <1>4, <1>5, <1>6, <1>7 DEF HearInv

\* Nothing happens on the bus
LEMMA SameBus == ASSUME HearInv, UNCHANGED spiVars PROVE HearInv'
<1>1. /\ device' = device /\ softcs' = softcs /\ calls' = calls /\ call' = call /\ prog' = prog
      /\ val' = val /\ heard' = heard
  BY DEF spiVars, busVars, userVars, chipVars
<1>2. ASSUME NEW v \in Users PROVE Follows(v)'
  <2>1. Follows(v)
    BY DEF HearInv
  <2>2. PairedLeft(v)' = PairedLeft(v) /\ MuteLeft(prog[v])' = MuteLeft(prog[v])
    BY <1>1 DEF PairedLeft, MuteLeft
  <2>3. Older' = Older /\ \A m : Heard(v, m)' = Heard(v, m)
    BY <1>1 DEF Older, Heard
  <2>4. Playing(v)' = Playing(v)
    BY <1>1, <2>3 DEF Playing
  <2>5. QED
    BY <1>1, <2>1, <2>2, <2>4 DEF Follows
<1>3. QED
  BY <1>1, <1>2 DEF HearInv, Hears, OneCommand

\* Every step
LEMMA HearStep == ASSUME HearInv, [Next]_vars PROVE HearInv'
<1>1. CASE Spi
  <2>1. CASE ShellIdle /\ SpiIssue
    BY <2>1, HearIssue DEF SpiIssue
  <2>2. CASE SpiRun
    BY <2>2, OverStep, GetStep, SetStep, SendStep, ReceiveStep, AwaitStep DEF SpiRun
  <2>3. QED
    BY <1>1, <2>1, <2>2 DEF Spi
<1>2. CASE UNCHANGED spiVars
  BY <1>2, SameBus
<1>3. QED
  BY <1>1, <1>2 DEF Next, vars

\* The beginning
LEMMA HearInit == ASSUME Init PROVE HearInv
<1>1. /\ calls = 0 /\ call = [u \in Users |-> Idle] /\ prog = [u \in Users |-> << >>]
      /\ val = [u \in Users |-> {}] /\ heard = << >>
  BY DEF Init, SpiInit
<1>2. Len(heard) = 0 /\ heard \in Seq(Nat)
  BY <1>1, EmptySeq
<1>3. prog \in [Users -> Seq(Acc)]
  BY <1>1, EmptySeq
<1>4. ASSUME NEW u \in Users PROVE Follows(u)
  <2>1. call[u] = Idle /\ prog[u] = << >>
    BY <1>1
  <2>2. Idle.op \notin Plays
    BY DEF Idle, Plays
  <2>3. Len(prog[u]) = 0
    BY <2>1, EmptySeq
  <2>4. PairedLeft(u) /\ MuteLeft(prog[u])
    BY <2>3 DEF PairedLeft, MuteLeft
  <2>5. QED
    BY <2>1, <2>2, <2>4 DEF Follows
<1>5. Hears
  <2>1. DOMAIN heard = 1 .. 0
    BY <1>2, LenProperties
  <2>2. QED
    BY <2>1 DEF Hears
<1>6. OneCommand
  BY <1>1 DEF OneCommand
<1>7. QED
  BY <1>1, <1>2, <1>3, <1>4, <1>5, <1>6 DEF HearInv

\* Whatever the codec is given to play is sound, for any number of commands,
\* one at a time, from any number of threads, and wherever a player is deleted:
\* what it leaves behind (a select that is low, a register read and not written
\* back, a byte in the FIFO) never lets a byte of a later command, or one of a
\* later chunk out of its place, into the stream.
THEOREM HearsInOrder == Spec => []Hears
<1>1. Init => HearInv
  BY HearInit
<1>2. HearInv /\ [Next]_vars => HearInv'
  BY HearStep
<1>3. HearInv => Hears
  BY DEF HearInv
<1>4. QED
  BY <1>1, <1>2, <1>3, PTL DEF Spec

===============================================================================
