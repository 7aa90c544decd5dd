----------------------------- MODULE AfcProofs -----------------------------
(***************************************************************************)
(* Theorems about Afc, for any number of clients, files, chunks and         *)
(* operations.  What holds of a client is stated by client: its requests    *)
(* and answers take turns and fit what it is at; the device's open handles  *)
(* are the one it works with or ones it has given up; how far a pull or a   *)
(* push has come is how far the file has; the proxy's messages end with the *)
(* one that tells the outcome.                                              *)
(***************************************************************************)
EXTENDS Afc, FiniteSetTheorems, SequenceTheorems, TLAPS

Things == Files \cup {Dir}
Singles == {"stat", "remove", "rename", "link"}
Waits == {"single", "stat", "list", "lsStat", "openR", "read", "mkdir", "openW", "write", "close", "giveUp"}
Pcs == Over \cup {"staged", "await"} \cup Waits
Stuff ==
  {Piece(w, i) : w \in AfcClients \cup {"dev", "nobody"}, i \in 0..NChunks}
    \cup {"Part", "Progress", "Complete", "Error", "Bare", "closed"}
Client ==
  [pc: Pcs, kind: Kinds \cup {"none"}, path: Things, todo: Seq(Things), buf: Seq(Stuff), base: Seq(Stuff),
   num: Nat, handle: Nat, freed: SUBSET Nat, leaked: SUBSET Nat, ops: Nat]
OpenFile == [id: Nat, file: Files, pos: Nat]

AfcTypes ==
  /\ fs \in [Files -> Seq(Stuff)] /\ dirThere \in BOOLEAN
  /\ open \in [AfcClients -> SUBSET OpenFile]
  /\ DOMAIN afcReq = AfcClients /\ DOMAIN afcRep = AfcClients
  /\ afcUp \in [AfcClients -> BOOLEAN]
  /\ cl \in [AfcClients -> Client]
  /\ intact \in [AfcClients -> SUBSET Files]
  /\ task \in [AfcClients -> Kinds \cup {"none"}]
  /\ status \in [AfcClients -> Seq(Stuff)]
  /\ DOMAIN app = AfcClients

-----------------------------------------------------------------------------
(* What holds of a client.                                                 *)

\* A request, and an answer, that goes with what client k is at.
ReqFits(k, q) ==
  /\ q.num = k.num
  /\ k.pc = "single" => q.op \in Singles
  /\ k.pc \in {"stat", "lsStat"} => q.op = "stat"
  /\ k.pc = "list" => q.op = "list"
  /\ k.pc = "mkdir" => q.op = "mkdir"
  /\ k.pc \in {"openR", "openW"} => q.op = k.pc /\ q.arg = Head(k.todo)
  /\ k.pc \in {"read", "write"} => q.op = k.pc /\ q.arg = k.handle
  /\ k.pc \in {"close", "giveUp"} => q.op = "close" /\ q.arg \in k.freed
RepFits(k, p) ==
  /\ p.num = k.num
  /\ p.op = "handle" => k.pc \in {"openR", "openW"} /\ p.val = k.num /\ p.base \in Seq(Stuff)
  /\ k.pc = "list" /\ p.op = "data" => p.val \in Seq(Things)
  /\ k.pc = "read" => p.op \in {"data", "end", "success", "error"}
  /\ k.pc = "read" /\ p.op = "data" => p.val \in Seq(Stuff)

Turn(c) ==
  /\ afcReq[c] = <<>> \/ afcRep[c] = <<>>
  /\ afcReq[c] = <<>> \/ /\ afcReq[c] = <<Head(afcReq[c])>> /\ afcUp[c]
                         /\ cl[c].pc \in Waits /\ ReqFits(cl[c], Head(afcReq[c]))
  /\ afcRep[c] = <<>> \/ /\ afcRep[c] = <<Head(afcRep[c])>>
                         /\ cl[c].pc \in Waits /\ RepFits(cl[c], Head(afcRep[c]))

\* The kinds of operation that come to each point of the code.
Fits(k) ==
  /\ k.pc \in {"stat", "openR", "read"} => k.kind = "pull"
  /\ k.pc = "list" => k.kind \in {"pull", "list"}
  /\ k.pc = "lsStat" => k.kind = "list"
  /\ k.pc = "single" => k.kind \in Singles
  /\ k.pc = "mkdir" => k.kind \in Puts \cup {"mkdir"}
  /\ k.pc \in {"openW", "write"} => k.kind \in Puts
  /\ k.pc = "openW" => Head(k.todo) \in Files
  /\ k.pc \in {"close", "giveUp"} => k.kind \in Puts \cup {"pull"}
  /\ k.pc \in {"staged", "await"} => k.kind \in {"install", "uninstall", "browse"}
  /\ k.pc \in Waits \ {"single", "giveUp"} /\ k.kind # "mkdir" => k.todo # <<>>

\* An answer of some kind, and one with a handle, is on its way to the client.
Answered(c, ops) == afcRep[c] # <<>> /\ Head(afcRep[c]).op \in ops
Granted(c) == cl[c].pc \in {"openR", "openW"} /\ Answered(c, {"handle"})
Held(c) ==
  IF cl[c].pc \in {"read", "write"} THEN {cl[c].handle} ELSE IF Granted(c) THEN {Head(afcRep[c]).val} ELSE {}
Handles(c) ==
  /\ \A h \in open[c] :
       /\ h.id \in cl[c].freed \cup cl[c].leaked \cup Held(c)
       /\ h.id <= cl[c].num /\ (afcReq[c] # <<>> => h.id < cl[c].num)
       /\ \A g \in open[c] : g.id = h.id => g = h
  /\ ~afcUp[c] => open[c] = {}
\* The handles that may be open.
Owed(c) == IF afcUp[c] THEN cl[c].freed \cup cl[c].leaked \cup Held(c) ELSE {}

\* A pull: what was read, and what is on its way, is the file up to where the
\* device has come.
Pulling(c) ==
  LET k == cl[c]  f == Head(k.todo)
  IN k.kind = "pull" /\ k.pc \in {"openR", "read", "close"} /\ f \in intact[c] =>
     /\ k.pc = "openR" /\ Granted(c) =>
          /\ Head(afcRep[c]).base = fs[f] /\ fs[f] # Absent
          /\ \A h \in open[c] : h.id = Head(afcRep[c]).val => h.file = f /\ h.pos = 0
     /\ k.pc = "read" =>
          /\ k.base = fs[f] /\ fs[f] # Absent
          /\ \A h \in open[c] : h.id = k.handle =>
               /\ h.file = f /\ h.pos <= Len(k.base)
               /\ afcRep[c] = <<>> => k.buf = SubSeq(k.base, 1, h.pos)
               /\ Answered(c, {"data"}) => k.buf \o Head(afcRep[c]).val = SubSeq(k.base, 1, h.pos)
          /\ Answered(c, {"end", "success"}) => k.buf = k.base
     /\ k.pc = "close" => k.buf = k.base

\* A push: the files done are as they are here, and the one at hand as far as
\* the device has acknowledged.
AtHand(c) == cl[c].pc = "write" \/ (cl[c].pc = "openW" /\ Granted(c))
Pushing(c) ==
  LET k == cl[c]  f == Head(k.todo)
  IN k.kind \in Puts =>
     /\ k.pc \notin {"failed", "giveUp"} =>
          \A g \in intact[c] : fs[g] = Text(c) \/ (AtHand(c) /\ g = f)
     /\ k.pc = "openW" /\ Granted(c) =>
          /\ f \in intact[c] => fs[f] = <<>>
          /\ \A h \in open[c] : h.id = Head(afcRep[c]).val => h.file = f
     /\ k.pc = "write" =>
          /\ Len(k.buf) \in 1..NChunks
          /\ \A h \in open[c] : h.id = k.handle => h.file = f
          /\ f \in intact[c] =>
               /\ afcRep[c] = <<>> => fs[f] = SubSeq(Text(c), 1, Len(k.buf) - 1)
               /\ Answered(c, {"success"}) => fs[f] = SubSeq(Text(c), 1, Len(k.buf))

\* The installation proxy: the message that ends it comes last.
Proxying(c) ==
  LET k == cl[c]  s == status[c]  last == s[Len(s)]
  IN /\ k.pc # "await" => task[c] = "none" /\ s = <<>>
     /\ k.pc = "await" => task[c] \in {"none", k.kind}
     /\ \A i \in DOMAIN s : \/ s[i] = (IF k.kind = "browse" THEN "Part" ELSE "Progress")
                            \/ task[c] = "none" /\ i = Len(s)
     /\ k.pc = "await" /\ k.kind = "browse" /\ s # <<>> /\ last \in {"Complete", "Bare"} =>
          app[c] = k.buf \o SubSeq(s, 1, Len(s) - 1)
     /\ k.pc = "await" /\ k.kind = "install" /\ s # <<>> /\ last = "Complete" =>
          (k.path \in intact[c] => app[c] = Text(c))
     /\ k.pc = "done" /\ k.kind = "install" /\ k.path \in intact[c] => app[c] = Text(c)
     /\ k.pc = "done" /\ k.kind = "browse" => app[c] = k.buf

ClientOK(c) == Turn(c) /\ Fits(cl[c]) /\ Handles(c) /\ Pulling(c) /\ Pushing(c) /\ Proxying(c)
AfcInv == AfcTypes /\ \A c \in AfcClients : ClientOK(c)

-----------------------------------------------------------------------------
(* Facts about contents and sequences.                                     *)

LEMMA One == ASSUME NEW x PROVE <<x>> # <<>> /\ Head(<<x>>) = x /\ Tail(<<x>>) = <<>> /\ Append(<<>>, x) = <<x>>
  OBVIOUS

LEMMA OneOnly == ASSUME NEW s, s = <<Head(s)>> PROVE Tail(s) = <<>> /\ s # <<>>
  <1> DEFINE x == Head(s)
  <1>1. s = <<x>>
    OBVIOUS
  <1> HIDE DEF x
  <1>2. Tail(<<x>>) = <<>> /\ <<x>> # <<>>
    BY One
  <1> QED BY ONLY <1>1, <1>2, Zenon

LEMMA TextFacts ==
  ASSUME NEW c \in AfcClients \cup {"dev"}
  PROVE  /\ Text(c) \in Seq(Stuff) /\ Len(Text(c)) = NChunks
         /\ \A i \in 1..NChunks : Text(c)[i] = Piece(c, i) /\ Text(c)[i] \in Stuff
  <1>1. \A i \in 1..NChunks : Piece(c, i) \in Stuff
    BY AfcAssumption DEF Stuff
  <1>2. Text(c) \in [1..NChunks -> Stuff]
    BY <1>1 DEF Text
  <1>3. NChunks \in Nat
    BY AfcAssumption
  <1>4. Text(c) \in Seq(Stuff) /\ Len(Text(c)) = NChunks
    BY <1>2, <1>3
  <1> QED BY <1>1, <1>4 DEF Text

LEMMA StuffFacts ==
  /\ Absent \in Seq(Stuff)
  /\ {"Part", "Progress", "Complete", "Error", "Bare", "closed"} \subseteq Stuff
  <1>1. Piece("nobody", 0) \in Stuff
    BY AfcAssumption DEF Stuff
  <1>2. Absent \in Seq(Stuff)
    BY <1>1 DEF Absent
  <1> QED BY <1>2 DEF Stuff

\* A beginning of a text is no absent file.
LEMMA NotAbsent ==
  ASSUME NEW c \in AfcClients, NEW n \in 0..NChunks
  PROVE  SubSeq(Text(c), 1, n) # Absent
  <1>0. NChunks \in Nat /\ Text(c) \in Seq(Stuff) /\ Len(Text(c)) = NChunks
    BY TextFacts, AfcAssumption
  <1> SUFFICES ASSUME SubSeq(Text(c), 1, n) = Absent PROVE FALSE
    OBVIOUS
  <1>1. Len(SubSeq(Text(c), 1, n)) = n
    BY <1>0
  <1>2. Len(Absent) = 1 /\ Absent[1] = Piece("nobody", 0)
    BY DEF Absent
  <1>3. n = 1
    BY <1>1, <1>2
  <1>4. SubSeq(Text(c), 1, n)[1] = Text(c)[1]
    BY <1>0, <1>3
  <1>5. Text(c)[1] = Piece(c, 1)
    BY <1>0, <1>3, TextFacts
  <1>6. Piece(c, 1).n = 1 /\ Piece("nobody", 0).n = 0
    BY DEF Piece
  <1>7. Piece(c, 1) = Piece("nobody", 0)
    BY <1>2, <1>4, <1>5
  <1> QED BY ONLY <1>6, <1>7

\* A beginning, and how it grows.
LEMMA Beginning ==
  ASSUME NEW S, NEW s \in Seq(S), NEW i \in 0..Len(s)
  PROVE  /\ i >= Len(s) => SubSeq(s, 1, i) = s
         /\ \A n \in 1..(Len(s) - i) :
              SubSeq(s, i + 1, i + n) \in Seq(S) /\ SubSeq(s, 1, i) \o SubSeq(s, i + 1, i + n) = SubSeq(s, 1, i + n)
         /\ i > 0 => Append(SubSeq(s, 1, i - 1), s[i]) = SubSeq(s, 1, i)
  <1>1. i >= Len(s) => SubSeq(s, 1, i) = s
    OBVIOUS
  <1>2. ASSUME NEW n \in 1..(Len(s) - i)
        PROVE  SubSeq(s, i + 1, i + n) \in Seq(S) /\ SubSeq(s, 1, i) \o SubSeq(s, i + 1, i + n) = SubSeq(s, 1, i + n)
    <2> DEFINE a == SubSeq(s, 1, i)  b == SubSeq(s, i + 1, i + n)  w == SubSeq(s, 1, i + n)
    <2>1. a \in Seq(S) /\ Len(a) = i /\ \A j \in 1..i : a[j] = s[j]
      OBVIOUS
    <2>2. b \in Seq(S) /\ Len(b) = n /\ \A j \in 1..n : b[j] = s[i + j]
      OBVIOUS
    <2>3. w \in Seq(S) /\ Len(w) = i + n /\ \A j \in 1..(i + n) : w[j] = s[j]
      OBVIOUS
    <2> HIDE DEF a, b, w
    <2>4. a \o b \in Seq(S) /\ Len(a \o b) = Len(a) + Len(b)
      BY ONLY <2>1, <2>2, ConcatProperties
    <2>5. \A j \in 1..(i + n) : (a \o b)[j] = s[j]
      BY <2>1, <2>2
    <2>6. a \o b = w
      <3>1. Len(a \o b) = Len(w)
        BY <2>1, <2>2, <2>3, <2>4
      <3>2. \A j \in 1..Len(a \o b) : (a \o b)[j] = w[j]
        BY <2>3, <2>5, <3>1
      <3> QED BY ONLY <2>3, <2>4, <3>1, <3>2, SeqEqual
    <2> QED BY <2>2, <2>6 DEF a, b, w
  <1>3. ASSUME i > 0 PROVE Append(SubSeq(s, 1, i - 1), s[i]) = SubSeq(s, 1, i)
    BY <1>3
  <1> QED BY <1>1, <1>2, <1>3

\* The first message read, and one added.
LEMMA FirstRead ==
  ASSUME NEW S, NEW s \in Seq(S), s # <<>>
  PROVE  /\ Tail(s) \in Seq(S) /\ Len(Tail(s)) = Len(s) - 1 /\ Len(s) \in Nat \ {0} /\ Head(s) = s[1]
         /\ \A i \in 1..Len(Tail(s)) : Tail(s)[i] = s[i + 1]
         /\ Tail(s) = <<>> <=> Len(s) = 1
  <1>1. /\ Tail(s) \in Seq(S) /\ Len(Tail(s)) = Len(s) - 1 /\ Len(s) \in Nat /\ Len(s) # 0 /\ Head(s) = s[1]
        /\ \A i \in 1..Len(Tail(s)) : Tail(s)[i] = s[i + 1]
    OBVIOUS
  <1> DEFINE t == Tail(s)
  <1>2. t \in Seq(S) /\ Len(t) = Len(s) - 1
    BY <1>1
  <1> HIDE DEF t
  <1>3. t = <<>> <=> Len(s) = 1
    BY <1>1, <1>2
  <1> QED BY <1>1, <1>3 DEF t
LEMMA OneMore ==
  ASSUME NEW S, NEW s \in Seq(S), NEW x \in S
  PROVE  LET t == Append(s, x)
         IN /\ t \in Seq(S) /\ t # <<>> /\ Len(t) = Len(s) + 1 /\ t[Len(t)] = x /\ Len(s) \in Nat
            /\ \A i \in 1..Len(s) : t[i] = s[i]
            /\ SubSeq(t, 1, Len(t) - 1) = s
  BY SMTT(30)
LEMMA Collected ==
  ASSUME NEW S, NEW b \in Seq(S), NEW s \in Seq(S), Len(s) >= 2
  PROVE  Append(b, Head(s)) \o SubSeq(Tail(s), 1, Len(Tail(s)) - 1) = b \o SubSeq(s, 1, Len(s) - 1)
  <1>0. s # <<>> /\ Len(s) \in Nat /\ Len(b) \in Nat
    OBVIOUS
  <1>1. /\ Tail(s) \in Seq(S) /\ Len(Tail(s)) = Len(s) - 1 /\ Head(s) = s[1] /\ s[1] \in S
        /\ \A i \in 1..Len(Tail(s)) : Tail(s)[i] = s[i + 1]
    BY <1>0, FirstRead
  <1> DEFINE a == Append(b, Head(s))  u == SubSeq(Tail(s), 1, Len(Tail(s)) - 1)  v == SubSeq(s, 1, Len(s) - 1)
  <1>2. a \in Seq(S) /\ Len(a) = Len(b) + 1 /\ (\A i \in 1..Len(b) : a[i] = b[i]) /\ a[Len(b) + 1] = s[1]
    BY <1>1
  <1>3. u \in Seq(S) /\ Len(u) = Len(s) - 2 /\ \A i \in 1..(Len(s) - 2) : u[i] = s[i + 1]
    BY <1>0, <1>1
  <1>4. v \in Seq(S) /\ Len(v) = Len(s) - 1 /\ \A i \in 1..(Len(s) - 1) : v[i] = s[i]
    BY <1>0
  <1> HIDE DEF a, u, v
  <1>5. /\ a \o u \in Seq(S) /\ Len(a \o u) = Len(a) + Len(u)
        /\ \A i \in 1..(Len(a) + Len(u)) : (a \o u)[i] = IF i <= Len(a) THEN a[i] ELSE u[i - Len(a)]
    BY ONLY <1>2, <1>3, ConcatProperties
  <1>6. /\ b \o v \in Seq(S) /\ Len(b \o v) = Len(b) + Len(v)
        /\ \A i \in 1..(Len(b) + Len(v)) : (b \o v)[i] = IF i <= Len(b) THEN b[i] ELSE v[i - Len(b)]
    BY ONLY <1>4, b \in Seq(S), ConcatProperties
  <1>7. Len(a \o u) = Len(b \o v)
    BY <1>0, <1>2, <1>3, <1>4, <1>5, <1>6
  <1>8. ASSUME NEW i \in 1..Len(a \o u) PROVE (a \o u)[i] = (b \o v)[i]
    <2>1. CASE i <= Len(b)
      BY <1>0, <1>2, <1>3, <1>4, <1>5, <1>6, <1>7, <2>1
    <2>2. CASE i = Len(b) + 1
      BY <1>0, <1>2, <1>3, <1>4, <1>5, <1>6, <1>7, <2>2
    <2>3. CASE i > Len(b) + 1
      <3>1. i - Len(a) \in 1..(Len(s) - 2) /\ i - Len(b) = i - Len(a) + 1 /\ i > Len(a) /\ i > Len(b)
        BY <1>0, <1>2, <1>3, <1>5, <2>3
      <3>2. PICK j \in 1..(Len(s) - 2) : j = i - Len(a) /\ j + 1 = i - Len(b)
        BY <3>1
      <3>3. j + 1 \in 1..(Len(s) - 1)
        BY <1>0
      <3>4. u[j] = s[j + 1] /\ v[j + 1] = s[j + 1]
        BY <1>3, <1>4, <3>3
      <3>5. (a \o u)[i] = u[j]
        BY <1>0, <1>2, <1>5, <3>1, <3>2
      <3>6. (b \o v)[i] = v[j + 1]
        <4>1. i \in 1..(Len(b) + Len(v)) /\ ~(i <= Len(b))
          BY <1>0, <1>6, <1>7, <3>1
        <4>2. (b \o v)[i] = v[i - Len(b)]
          BY <1>6, <4>1
        <4> QED BY <3>2, <4>2
      <3> QED BY <3>4, <3>5, <3>6
    <2>4. i \in Int /\ (i <= Len(b) \/ i = Len(b) + 1 \/ i > Len(b) + 1)
      BY <1>0
    <2> QED BY <2>1, <2>2, <2>3, <2>4
  <1>9. a \o u = b \o v
    BY ONLY <1>5, <1>6, <1>7, <1>8, SeqEqual
  <1> QED BY <1>9 DEF a, u, v

\* Files listed in an order are a sequence of files.
LEMMA ListingType ==
  ASSUME NEW S, S \subseteq Files, NEW s \in Listings(S)
  PROVE  s \in Seq(Things)
  <1>1. IsFiniteSet(S)
    BY AfcAssumption, FS_Subset
  <1>2. Cardinality(S) \in Nat
    BY <1>1, FS_CardinalityType
  <1>3. s \in [1..Cardinality(S) -> Things]
    BY DEF Listings, Things
  <1> QED BY <1>2, <1>3

-----------------------------------------------------------------------------
(* The steps by whose they are.                                            *)

\* A step of another client, of the device for another client, or of the proxy.
LEMMA OtherClient ==
  ASSUME NEW d \in AfcClients, ClientOK(d),
         UNCHANGED <<cl[d], afcReq[d], afcRep[d], open[d], afcUp[d], task[d], status[d], app[d]>>,
         intact'[d] \subseteq intact[d], \A f \in intact'[d] : fs'[f] = fs[f]
  PROVE  ClientOK(d)'
  <1>1. Turn(d)' /\ Fits(cl[d])'
    BY DEF ClientOK, Turn, ReqFits, RepFits, Fits
  <1>2. Handles(d)'
    BY DEF ClientOK, Handles, Held, Granted, Answered
  <1>3. Pulling(d)'
    BY DEF ClientOK, Pulling, Granted, Answered
  <1>4. Pushing(d)'
    BY DEF ClientOK, Pushing, AtHand, Granted, Answered
  <1>5. Proxying(d)'
    BY DEF ClientOK, Proxying
  <1> QED BY <1>1, <1>2, <1>3, <1>4, <1>5 DEF ClientOK

\* What a step of the client itself leaves to show: k is the client after it,
\* r what is on its way to the device; no answer is.
OwnFits(c, k, r) ==
  /\ k \in Client /\ Fits(k) /\ k.num \in {cl[c].num, cl[c].num + 1}
  /\ r = <<>> \/ /\ afcUp[c] /\ r = <<Head(r)>> /\ k.pc \in Waits /\ ReqFits(k, Head(r))
                 /\ k.num = cl[c].num + 1
  /\ Owed(c)
       \subseteq k.freed \cup k.leaked \cup (IF k.pc \in {"read", "write"} THEN {k.handle} ELSE {})
  /\ cl[c].pc # "await" /\ k.pc # "await" /\ (k.pc = "done" => k.kind \notin {"install", "browse"})

\* g is f but for c, where it is v.
OnlyAt(g, f, c, v) ==
  DOMAIN g = AfcClients /\ g[c] = v /\ \A d \in AfcClients : d # c => g[d] = f[d]
OwnFrame(c, k, r) ==
  /\ UNCHANGED <<fs, dirThere, open, afcUp, proxyVars>>
  /\ cl' = [cl EXCEPT ![c] = k] /\ OnlyAt(afcReq', afcReq, c, r) /\ OnlyAt(afcRep', afcRep, c, <<>>)
  /\ intact' = intact \/ intact' = [intact EXCEPT ![c] = {}]

LEMMA OwnStep ==
  ASSUME AfcInv, NEW c \in AfcClients, NEW k, NEW r, OwnFrame(c, k, r), OwnFits(c, k, r), Pulling(c)', Pushing(c)'
  PROVE  AfcInv'
  <1>0. AfcTypes /\ ClientOK(c)
    BY DEF AfcInv
  <1>1. AfcTypes'
    <2>1. {} \in SUBSET Files
      OBVIOUS
    <2> QED BY <1>0, <2>1 DEF AfcTypes, OwnFrame, OwnFits, OnlyAt, proxyVars
  <1>2. /\ cl'[c] = k /\ afcReq'[c] = r /\ afcRep'[c] = <<>>
        /\ \A d \in AfcClients : d # c => UNCHANGED <<cl[d], afcReq[d], afcRep[d], intact[d]>>
    BY <1>0 DEF OwnFrame, OnlyAt, AfcTypes
  <1>3. UNCHANGED <<fs, open, afcUp, task, status, app>>
    BY DEF OwnFrame, proxyVars
  <1>4. ASSUME NEW d \in AfcClients, d # c PROVE ClientOK(d)'
    BY <1>2, <1>3, <1>4, OtherClient DEF AfcInv
  <1>5. Turn(c)' /\ Fits(cl[c])'
    BY <1>2, <1>3 DEF OwnFits, Turn, Fits, ReqFits
  <1>6. Handles(c)'
    <2>1. Held(c)' = IF k.pc \in {"read", "write"} THEN {k.handle} ELSE {}
      BY <1>2 DEF Held, Granted, Answered
    <2>2. cl[c].num \in Nat /\ \A h \in open[c] : h.id \in Nat
      BY <1>0 DEF AfcTypes, Client, OpenFile
    <2>3. \A h \in open[c] : h.id <= cl[c].num
      BY <1>0 DEF ClientOK, Handles
    <2>4. \A h \in open[c] : h.id <= k.num /\ (r # <<>> => h.id < k.num)
      BY <2>2, <2>3 DEF OwnFits
    <2>5. \A h \in open[c] : h.id \in k.freed \cup k.leaked \cup Held(c)'
      BY <1>0, <2>1 DEF OwnFits, ClientOK, Handles, Owed
    <2> QED BY <1>0, <1>2, <1>3, <2>4, <2>5 DEF ClientOK, Handles
  <1>7. Proxying(c)'
    <2>1. task[c] = "none" /\ status[c] = <<>>
      BY <1>0 DEF ClientOK, Proxying, OwnFits
    <2> QED BY <1>2, <1>3, <2>1 DEF Proxying, OwnFits
  <1> QED BY <1>1, <1>4, <1>5, <1>6, <1>7 DEF AfcInv, ClientOK

-----------------------------------------------------------------------------
(* The client.                                                             *)

\* k is the client new after it has sent r, the request op with arg.
Sent(c, new, op, arg, k, r) ==
  /\ k = [new EXCEPT !.num = @ + 1, !.freed = @ \cup (IF op = "close" THEN {arg} ELSE {})]
  /\ k \in Client
  /\ k.pc = new.pc /\ k.kind = new.kind /\ k.path = new.path /\ k.todo = new.todo /\ k.buf = new.buf
  /\ k.base = new.base /\ k.handle = new.handle /\ k.leaked = new.leaked /\ k.num = cl[c].num + 1
  /\ k.freed = new.freed \cup (IF op = "close" THEN {arg} ELSE {})
  /\ \/ r = <<>>
     \/ afcUp[c] /\ r = <<Head(r)>> /\ Head(r).op = op /\ Head(r).arg = arg /\ Head(r).num = cl[c].num + 1
  /\ cl' = [cl EXCEPT ![c] = k] /\ OnlyAt(afcReq', afcReq, c, r)

LEMMA AskSends ==
  ASSUME AfcTypes, NEW c \in AfcClients, NEW op, NEW arg, NEW new \in Client, afcReq[c] = <<>>, new.num = cl[c].num,
         op = "close" => arg \in Nat, Ask(c, op, arg, new)
  PROVE  \E k, r : Sent(c, new, op, arg, k, r)
  <1> DEFINE k == [new EXCEPT !.num = @ + 1, !.freed = @ \cup (IF op = "close" THEN {arg} ELSE {})]
             q == [op |-> op, arg |-> arg, num |-> cl[c].num + 1]
             r == IF afcUp[c] THEN <<q>> ELSE <<>>
  <1>1. k \in Client
    <2>1. new.num + 1 \in Nat /\ new.freed \cup (IF op = "close" THEN {arg} ELSE {}) \in SUBSET Nat
      BY DEF Client
    <2> QED BY <2>1 DEF Client
  <1>2. /\ k.pc = new.pc /\ k.kind = new.kind /\ k.path = new.path /\ k.todo = new.todo /\ k.buf = new.buf
        /\ k.base = new.base /\ k.handle = new.handle /\ k.leaked = new.leaked /\ k.num = cl[c].num + 1
        /\ k.freed = new.freed \cup (IF op = "close" THEN {arg} ELSE {})
    BY DEF Client
  <1>3. q.op = op /\ q.arg = arg /\ q.num = cl[c].num + 1
    OBVIOUS
  <1>4. cl' = [cl EXCEPT ![c] = k] /\ afcReq' = [afcReq EXCEPT ![c] = IF afcUp[c] THEN Append(@, q) ELSE @]
    BY DEF Ask
  <1> HIDE DEF q, k
  <1>5. Append(<<>>, q) = <<q>> /\ Head(<<q>>) = q
    BY One
  <1>6. OnlyAt(afcReq', afcReq, c, r)
    <2>1. afcReq'[c] = IF afcUp[c] THEN Append(afcReq[c], q) ELSE afcReq[c]
      BY <1>4 DEF AfcTypes
    <2>2. afcReq'[c] = r
      BY <1>5, <2>1
    <2> QED BY <1>4, <2>2 DEF OnlyAt, AfcTypes
  <1>7. \/ r = <<>>
        \/ afcUp[c] /\ r = <<Head(r)>> /\ Head(r) = q
    <2>1. CASE afcUp[c]
      <3>1. r = <<q>>
        BY <2>1
      <3>2. Head(r) = q
        BY ONLY <1>5, <3>1
      <3> QED BY ONLY <2>1, <3>1, <3>2, Zenon
    <2>2. CASE ~afcUp[c]
      BY <2>2
    <2> QED BY <2>1, <2>2
  <1>8. k = [new EXCEPT !.num = @ + 1, !.freed = @ \cup (IF op = "close" THEN {arg} ELSE {})]
    BY DEF k
  <1> HIDE DEF r
  <1>9. Sent(c, new, op, arg, k, r)
    BY <1>1, <1>2, <1>3, <1>4, <1>6, <1>7, <1>8 DEF Sent
  <1> QED BY <1>9

\* k is the client new at the end of an operation.
Ended(c, new, pc, k) ==
  /\ k = [new EXCEPT !.pc = pc] /\ k \in Client
  /\ k.pc = pc /\ k.kind = new.kind /\ k.path = new.path /\ k.buf = new.buf /\ k.num = new.num
  /\ k.freed = new.freed /\ k.leaked = new.leaked
  /\ cl' = [cl EXCEPT ![c] = k] /\ OnlyAt(afcReq', afcReq, c, <<>>)

LEMMA EndsEnds ==
  ASSUME AfcTypes, NEW c \in AfcClients, NEW new \in Client, NEW pc \in Pcs, afcReq[c] = <<>>, Ends(c, new, pc)
  PROVE  \E k : Ended(c, new, pc, k)
  <1> DEFINE k == [new EXCEPT !.pc = pc]
  <1>1. k \in Client /\ k.pc = pc /\ k.kind = new.kind /\ k.path = new.path /\ k.buf = new.buf /\ k.num = new.num
        /\ k.freed = new.freed /\ k.leaked = new.leaked
    BY DEF Client
  <1>2. cl' = [cl EXCEPT ![c] = k] /\ afcReq' = afcReq
    BY DEF Ends
  <1> HIDE DEF k
  <1>3. OnlyAt(afcReq', afcReq, c, <<>>)
    BY <1>2 DEF OnlyAt, AfcTypes
  <1>4. Ended(c, new, pc, k)
    BY <1>1, <1>2, <1>3 DEF Ended, k
  <1> QED BY <1>4

\* A step of the client that ends the operation, or sends a request.
LEMMA EndedOK ==
  ASSUME AfcInv, NEW c \in AfcClients, NEW new, NEW pc \in Over \cup {"staged"}, NEW k, Ended(c, new, pc, k),
         UNCHANGED <<fs, dirThere, open, afcUp, proxyVars>>, OnlyAt(afcRep', afcRep, c, <<>>),
         intact' = intact \/ intact' = [intact EXCEPT ![c] = {}],
         new.num = cl[c].num, Owed(c) \subseteq new.freed \cup new.leaked,
         cl[c].pc # "await", pc = "done" => new.kind \notin {"install", "browse"},
         pc = "staged" => new.kind \in {"install", "uninstall", "browse"},
         pc # "failed" /\ new.kind \in Puts => \A g \in intact'[c] : fs[g] = Text(c)
  PROVE  AfcInv'
  <1>1. cl'[c] = k /\ afcRep'[c] = <<>>
    BY DEF AfcInv, AfcTypes, Ended, OnlyAt
  <1>2. OwnFrame(c, k, <<>>)
    BY DEF OwnFrame, Ended
  <1>3. OwnFits(c, k, <<>>)
    BY DEF OwnFits, Ended, Fits, Over, Waits
  <1>4. Pulling(c)'
    BY <1>1 DEF Pulling, Ended, Over
  <1>5. Pushing(c)'
    BY <1>1 DEF Pushing, Ended, Over
  <1> QED BY <1>2, <1>3, <1>4, <1>5, OwnStep

LEMMA SentOK ==
  ASSUME AfcInv, NEW c \in AfcClients, NEW new, NEW op, NEW arg, NEW k, NEW r, Sent(c, new, op, arg, k, r),
         UNCHANGED <<fs, dirThere, open, afcUp, proxyVars>>, OnlyAt(afcRep', afcRep, c, <<>>),
         intact' = intact \/ intact' = [intact EXCEPT ![c] = {}],
         Owed(c)
           \subseteq k.freed \cup k.leaked \cup (IF k.pc \in {"read", "write"} THEN {k.handle} ELSE {}),
         cl[c].pc # "await", new.pc \in Waits, Fits(k), r # <<>> => ReqFits(k, Head(r)), Pulling(c)', Pushing(c)'
  PROVE  AfcInv'
  <1>1. OwnFrame(c, k, r)
    BY DEF OwnFrame, Sent
  <1>2. OwnFits(c, k, r)
    BY DEF OwnFits, Sent, Waits
  <1> QED BY <1>1, <1>2, OwnStep

\* The next entry.
LEMMA NextItemOK ==
  ASSUME AfcInv, NEW c \in AfcClients, NEW new \in Client, NextItem(c, new), afcReq[c] = <<>>,
         UNCHANGED <<fs, dirThere, open, afcUp, proxyVars>>, OnlyAt(afcRep', afcRep, c, <<>>),
         intact' = intact \/ intact' = [intact EXCEPT ![c] = {}],
         new.num = cl[c].num, Owed(c) \subseteq new.freed \cup new.leaked,
         cl[c].pc # "await", new.kind \in {"list", "pull"} \cup Puts,
         new.kind \in Puts => \A g \in intact'[c] : fs[g] = Text(c)
  PROVE  AfcInv'
  <1>0. AfcTypes /\ DOMAIN cl = AfcClients
    BY DEF AfcInv, AfcTypes
  <1>1. CASE new.todo = <<>>
    <2>1. PICK pc \in {"staged", "done"} : Ends(c, new, pc) /\ (new.kind = "install" <=> pc = "staged")
      BY <1>1 DEF NextItem
    <2>2. PICK k : Ended(c, new, pc, k)
      BY <1>0, <2>1, EndsEnds DEF Pcs, Over
    <2>3. pc \in Over \cup {"staged"} /\ (pc = "done" => new.kind \notin {"install", "browse"})
      BY <2>1 DEF Over, Puts
    <2> QED BY <2>1, <2>2, <2>3, EndedOK
  <1>2. CASE new.todo # <<>> /\ Ends(c, new, "failed")
    <2>1. PICK k : Ended(c, new, "failed", k)
      BY <1>0, <1>2, EndsEnds DEF Pcs, Over
    <2> QED BY <2>1, EndedOK DEF Over
  <1>3. CASE new.todo # <<>> /\ ~Ends(c, new, "failed")
    <2> DEFINE item == Head(new.todo)
    <2>1. item \in Things
      BY <1>3 DEF Client
    <2>2. \E op, pc : /\ Ask(c, op, item, [new EXCEPT !.pc = pc]) /\ op # "close"
                      /\ \/ pc = "lsStat" /\ op = "stat" /\ new.kind = "list"
                         \/ pc = "stat" /\ op = "stat" /\ new.kind = "pull"
                         \/ pc = "mkdir" /\ op = "mkdir" /\ new.kind \in Puts
                         \/ pc = "openW" /\ op = "openW" /\ new.kind \in Puts /\ item # Dir
      <3>1. \/ new.kind = "list" /\ Ask(c, "stat", item, [new EXCEPT !.pc = "lsStat"])
            \/ new.kind = "pull" /\ Ask(c, "stat", item, [new EXCEPT !.pc = "stat"])
            \/ new.kind \in Puts /\ item = Dir /\ Ask(c, "mkdir", item, [new EXCEPT !.pc = "mkdir"])
            \/ new.kind \in Puts /\ item # Dir /\ Ask(c, "openW", item, [new EXCEPT !.pc = "openW"])
        BY <1>3 DEF NextItem
      <3> QED BY <3>1
    <2>3. PICK op, pc : /\ Ask(c, op, item, [new EXCEPT !.pc = pc]) /\ op # "close"
                        /\ \/ pc = "lsStat" /\ op = "stat" /\ new.kind = "list"
                           \/ pc = "stat" /\ op = "stat" /\ new.kind = "pull"
                           \/ pc = "mkdir" /\ op = "mkdir" /\ new.kind \in Puts
                           \/ pc = "openW" /\ op = "openW" /\ new.kind \in Puts /\ item # Dir
      BY <2>2
    <2> DEFINE at == [new EXCEPT !.pc = pc]
    <2>4. at \in Client /\ at.pc = pc /\ at.kind = new.kind /\ at.todo = new.todo /\ at.num = new.num
          /\ at.freed = new.freed /\ at.leaked = new.leaked /\ pc \in Waits
      BY <2>3 DEF Client, Pcs, Waits
    <2> HIDE DEF at
    <2>5. PICK k, r : Sent(c, at, op, item, k, r)
      BY <1>0, <2>3, <2>4, AskSends DEF at
    <2>6. k.pc = pc /\ k.kind = new.kind /\ k.todo = new.todo /\ k.freed = new.freed /\ k.leaked = new.leaked
      BY <2>3, <2>4, <2>5 DEF Sent
    <2>7. Fits(k)
      BY <1>3, <2>1, <2>3, <2>6 DEF Fits, Things, Puts
    <2>8. r # <<>> => ReqFits(k, Head(r))
      BY <2>3, <2>5, <2>6 DEF Sent, ReqFits
    <2>9. cl'[c] = k /\ afcRep'[c] = <<>>
      BY <1>0, <2>5 DEF Sent, OnlyAt
    <2>10. Pulling(c)'
      BY <2>3, <2>6, <2>9 DEF Pulling, Granted, Answered, Puts
    <2>11. Pushing(c)'
      BY <2>3, <2>6, <2>9 DEF Pushing, AtHand, Granted, Answered
    <2> QED BY <2>4, <2>5, <2>6, <2>7, <2>8, <2>10, <2>11, SentOK
  <1> QED BY <1>1, <1>2, <1>3

\* What a step of the client leaves alone, its answer taken.
Frame(c) ==
  /\ UNCHANGED <<fs, dirThere, open, afcUp, proxyVars>> /\ OnlyAt(afcRep', afcRep, c, <<>>)
  /\ intact' = intact \/ intact' = [intact EXCEPT ![c] = {}]

\* An operation that ends.
LEMMA EndOK ==
  ASSUME AfcInv, NEW c \in AfcClients, NEW new \in Client, NEW pc \in Over \cup {"staged"}, Ends(c, new, pc),
         afcReq[c] = <<>>, Frame(c),
         new.num = cl[c].num, Owed(c) \subseteq new.freed \cup new.leaked,
         cl[c].pc # "await", pc = "done" => new.kind \notin {"install", "browse"},
         pc = "staged" => new.kind \in {"install", "uninstall", "browse"},
         pc # "failed" /\ new.kind \in Puts => \A g \in intact'[c] : fs[g] = Text(c)
  PROVE  AfcInv'
  <1>1. PICK k : Ended(c, new, pc, k)
    BY EndsEnds DEF AfcInv, Pcs
  <1> QED BY <1>1, EndedOK DEF Frame

\* A request that is sent by the client at: it fits what the client is at, the
\* handle at hand is known, and a pull or a push has come as far as the file.
AskFits(c, at, op, arg) ==
  LET f == Head(at.todo) IN
  /\ at.pc = "single" => op \in Singles
  /\ at.pc \in {"stat", "lsStat"} => op = "stat"
  /\ at.pc \in {"list", "mkdir"} => op = at.pc
  /\ at.pc \in {"openR", "openW"} => op = at.pc /\ arg = f
  /\ at.pc \in {"read", "write"} => op = at.pc /\ arg = at.handle
  /\ at.pc \in {"close", "giveUp"} => op = "close"
  /\ op = "close" => arg \in Nat
  /\ Owed(c)
       \subseteq at.freed \cup at.leaked \cup (IF at.pc \in {"read", "write"} THEN {at.handle} ELSE {})
                   \cup (IF op = "close" THEN {arg} ELSE {})
AskPulls(c, at) ==
  LET f == Head(at.todo) IN
  at.kind = "pull" /\ f \in intact'[c] =>
    /\ at.pc = "read" =>
         /\ at.base = fs[f] /\ fs[f] # Absent
         /\ \A h \in open[c] : h.id = at.handle =>
              h.file = f /\ h.pos <= Len(at.base) /\ at.buf = SubSeq(at.base, 1, h.pos)
    /\ at.pc = "close" => at.buf = at.base
AskPushes(c, at) ==
  LET f == Head(at.todo) IN
  at.kind \in Puts =>
    /\ at.pc # "giveUp" => \A g \in intact'[c] : fs[g] = Text(c) \/ (at.pc = "write" /\ g = f)
    /\ at.pc = "write" =>
         /\ Len(at.buf) \in 1..NChunks
         /\ \A h \in open[c] : h.id = at.handle => h.file = f
         /\ f \in intact'[c] => fs[f] = SubSeq(Text(c), 1, Len(at.buf) - 1)

LEMMA AskOK ==
  ASSUME AfcInv, NEW c \in AfcClients, NEW at \in Client, NEW op, NEW arg, Ask(c, op, arg, at), afcReq[c] = <<>>,
         Frame(c), at.num = cl[c].num, cl[c].pc # "await", at.pc \in Waits, Fits(at),
         AskFits(c, at, op, arg), AskPulls(c, at), AskPushes(c, at)
  PROVE  AfcInv'
  <1>1. AfcTypes /\ DOMAIN cl = AfcClients
    BY DEF AfcInv, AfcTypes
  <1>2. PICK k, r : Sent(c, at, op, arg, k, r)
    BY <1>1, AskSends DEF AskFits
  <1>3. /\ k.pc = at.pc /\ k.kind = at.kind /\ k.todo = at.todo /\ k.buf = at.buf /\ k.base = at.base
        /\ k.handle = at.handle /\ k.leaked = at.leaked /\ k.num = cl[c].num + 1
        /\ k.freed = at.freed \cup (IF op = "close" THEN {arg} ELSE {})
    BY <1>2 DEF Sent
  <1>4. Fits(k)
    BY <1>3 DEF Fits
  <1>5. r # <<>> => ReqFits(k, Head(r))
    <2>1. r # <<>> => Head(r).op = op /\ Head(r).arg = arg /\ Head(r).num = k.num
      BY <1>2, <1>3 DEF Sent
    <2>2. k.pc \in {"close", "giveUp"} => op = "close" /\ arg \in k.freed
      BY <1>3 DEF AskFits
    <2> QED BY <1>3, <2>1, <2>2 DEF ReqFits, AskFits
  <1>6. cl'[c] = k /\ afcRep'[c] = <<>>
    BY <1>1, <1>2 DEF Sent, Frame, OnlyAt
  <1>7. fs' = fs /\ open' = open
    BY DEF Frame
  <1>8. ~Granted(c)' /\ ~Answered(c, {"data"})' /\ ~Answered(c, {"end", "success"})' /\ ~Answered(c, {"success"})'
    BY <1>6 DEF Granted, Answered
  <1>9. Pulling(c)'
    BY <1>3, <1>6, <1>7, <1>8 DEF Pulling, AskPulls
  <1>10. Pushing(c)'
    BY <1>3, <1>6, <1>7, <1>8 DEF Pushing, AtHand, AskPushes
  <1>11. Owed(c)
           \subseteq k.freed \cup k.leaked \cup (IF k.pc \in {"read", "write"} THEN {k.handle} ELSE {})
    BY <1>3 DEF AskFits
  <1> QED BY <1>2, <1>4, <1>5, <1>9, <1>10, <1>11, SentOK DEF Frame

\* A client that waits for no answer has none, and no request on its way.
LEMMA Quiet ==
  ASSUME AfcInv, NEW c \in AfcClients, cl[c].pc \notin Waits
  PROVE  afcReq[c] = <<>> /\ afcRep[c] = <<>> /\ Held(c) = {}
  <1>1. ClientOK(c)
    BY DEF AfcInv
  <1>2. afcReq[c] = <<>> /\ afcRep[c] = <<>>
    BY <1>1 DEF ClientOK, Turn
  <1> QED BY <1>2 DEF Held, Granted, Answered, Waits

\* A new operation.
LEMMA StartOK ==
  ASSUME AfcInv, NEW c \in AfcClients, AfcStart(c), UNCHANGED proxyVars
  PROVE  AfcInv'
  <1>0. AfcTypes /\ cl[c] \in Client /\ cl[c].pc \in Over /\ cl[c].pc # "await" /\ cl[c].pc \notin Waits
    BY DEF AfcInv, AfcTypes, AfcStart, Over, Waits
  <1>1. afcReq[c] = <<>> /\ afcRep[c] = <<>> /\ Held(c) = {}
    BY <1>0, Quiet
  <1>2. intact' = [intact EXCEPT ![c] = {}] /\ intact'[c] = {}
    BY <1>0 DEF AfcStart, AfcTypes
  <1>3. Frame(c)
    BY <1>0, <1>1, <1>2 DEF Frame, AfcStart, OnlyAt, AfcTypes
  <1>4. PICK kind \in Kinds, f \in Things :
          LET new == [cl[c] EXCEPT !.kind = kind, !.path = f, !.todo = <<>>, !.buf = <<>>, !.base = <<>>,
                                   !.handle = 0, !.ops = @ + 1]
          IN \/ StartPull(c, new) \/ StartPush(c, new) \/ StartLs(c, new) \/ StartStat(c, new)
             \/ StartRm(c, new) \/ StartMv(c, new) \/ StartLink(c, new) \/ StartMkdir(c, new) \/ StartInstall(c, new) \/ StartProxy(c, new)
             \/ NoConnection(c, new)
    BY DEF AfcStart, Things
  <1> DEFINE new == [cl[c] EXCEPT !.kind = kind, !.path = f, !.todo = <<>>, !.buf = <<>>, !.base = <<>>,
                                  !.handle = 0, !.ops = @ + 1]
  <1>5. new \in Client
    <2>1. cl[c].ops + 1 \in Nat /\ <<>> \in Seq(Things) /\ <<>> \in Seq(Stuff)
      BY <1>0 DEF Client
    <2> QED BY <1>0, <2>1 DEF Client
  <1>6. /\ new.kind = kind /\ new.path = f /\ new.num = cl[c].num
        /\ new.freed = cl[c].freed /\ new.leaked = cl[c].leaked
    BY <1>0 DEF Client
  <1>7. \/ StartPull(c, new) \/ StartPush(c, new) \/ StartLs(c, new) \/ StartStat(c, new)
        \/ StartRm(c, new) \/ StartMv(c, new) \/ StartLink(c, new) \/ StartMkdir(c, new) \/ StartInstall(c, new) \/ StartProxy(c, new)
        \/ NoConnection(c, new)
    BY <1>4
  <1> HIDE DEF new
  <1>8. \A t \in Seq(Things) :
          LET n == [new EXCEPT !.todo = t]
          IN n \in Client /\ n.kind = kind /\ n.num = cl[c].num /\ n.freed = cl[c].freed /\ n.leaked = cl[c].leaked
    BY <1>5, <1>6 DEF Client
  <1>9. ASSUME NEW t \in Seq(Things), NextItem(c, [new EXCEPT !.todo = t]), kind \in {"pull", "push", "install"}
        PROVE  AfcInv'
    <2>1. PICK n : n = [new EXCEPT !.todo = t]
      OBVIOUS
    <2>2. n \in Client /\ n.kind = kind /\ n.num = cl[c].num /\ n.freed = cl[c].freed /\ n.leaked = cl[c].leaked
      BY <1>8, <2>1
    <2>3. NextItem(c, n)
      BY <1>9, <2>1
    <2> QED BY <1>0, <1>1, <1>2, <1>3, <1>9, <2>2, <2>3, NextItemOK DEF Frame, Puts, Owed
  <1>10. ASSUME NEW op, NEW arg, NEW pc, NEW t \in Seq(Things), Ask(c, op, arg, [new EXCEPT !.pc = pc, !.todo = t]),
                \/ pc = "single" /\ op = kind /\ op \in Singles
                \/ pc = "list" /\ op = "list" /\ kind = "list" /\ t # <<>>
                \/ pc = "mkdir" /\ op = "mkdir" /\ kind = "mkdir"
         PROVE  AfcInv'
    <2>1. PICK at : at = [new EXCEPT !.pc = pc, !.todo = t]
      OBVIOUS
    <2>2. pc \in Pcs /\ pc \in Waits
      BY <1>10 DEF Pcs, Waits
    <2>3. /\ at \in Client /\ at.pc = pc /\ at.kind = kind /\ at.num = cl[c].num
          /\ at.freed = cl[c].freed /\ at.leaked = cl[c].leaked /\ at.todo = t
      BY <1>5, <1>6, <2>1, <2>2 DEF Client
    <2>4. Fits(at)
      BY <1>10, <2>3 DEF Fits, Waits
    <2>5. AskFits(c, at, op, arg)
      BY <1>1, <1>10, <2>3 DEF AskFits, Owed, Singles
    <2>6. AskPulls(c, at) /\ AskPushes(c, at)
      BY <1>2, <1>10, <2>3 DEF AskPulls, AskPushes, Puts
    <2>7. Ask(c, op, arg, at)
      BY <1>10, <2>1
    <2> QED BY <1>0, <1>1, <1>3, <2>2, <2>3, <2>4, <2>5, <2>6, <2>7, AskOK DEF Owed
  <1>11. ASSUME NEW pc \in {"staged", "failed"}, Ends(c, new, pc),
                pc = "staged" => kind \in {"uninstall", "browse"}
         PROVE  AfcInv'
    <2>1. pc \in Over \cup {"staged"} /\ pc # "done" /\ (kind \in Puts => pc # "staged")
      BY <1>11 DEF Over, Puts
    <2> QED BY <1>0, <1>1, <1>2, <1>3, <1>5, <1>6, <1>11, <2>1, EndOK DEF Owed
  <1>12. <<f>> \in Seq(Things) /\ <<Dir, f>> \in Seq(Things) /\ <<Dir>> \in Seq(Things) /\ <<Dir>> # <<>>
    BY DEF Things
  <1>13. CASE StartPull(c, new) \/ StartPush(c, new)
    BY <1>6, <1>9, <1>12, <1>13 DEF StartPull, StartPush
  <1>14. CASE StartInstall(c, new)
    BY <1>6, <1>9, <1>12, <1>14 DEF StartInstall
  <1>15. CASE StartLs(c, new)
    BY <1>6, <1>10, <1>12, <1>15 DEF StartLs
  <1>16. CASE StartStat(c, new) \/ StartRm(c, new) \/ StartMv(c, new) \/ StartLink(c, new)
    <2>1. new.todo \in Seq(Things) /\ [new EXCEPT !.pc = "single"] = [new EXCEPT !.pc = "single", !.todo = new.todo]
      BY <1>5 DEF Client
    <2>2. PICK op \in Singles : op = kind /\ Ask(c, op, new.path, [new EXCEPT !.pc = "single"])
      BY <1>6, <1>16 DEF StartStat, StartRm, StartMv, StartLink, Singles
    <2>3. Ask(c, op, new.path, [new EXCEPT !.pc = "single", !.todo = new.todo])
      BY ONLY <2>1, <2>2, Zenon
    <2> QED BY ONLY <1>10, <2>1, <2>2, <2>3
  <1>17. CASE StartMkdir(c, new)
    <2>1. new.todo \in Seq(Things) /\ [new EXCEPT !.pc = "mkdir"] = [new EXCEPT !.pc = "mkdir", !.todo = new.todo]
      BY <1>5 DEF Client
    <2>2. kind = "mkdir" /\ Ask(c, "mkdir", Dir, [new EXCEPT !.pc = "mkdir"])
      BY <1>6, <1>17 DEF StartMkdir
    <2>3. Ask(c, "mkdir", Dir, [new EXCEPT !.pc = "mkdir", !.todo = new.todo])
      BY ONLY <2>1, <2>2, Zenon
    <2> QED BY ONLY <1>10, <2>1, <2>2, <2>3
  <1>18. CASE StartProxy(c, new) \/ NoConnection(c, new)
    BY <1>6, <1>11, <1>18 DEF StartProxy, NoConnection
  <1> QED BY <1>7, <1>13, <1>14, <1>15, <1>16, <1>17, <1>18

-----------------------------------------------------------------------------
(* The client, at an answer.                                               *)

\* What is known of a client that reads an answer.
Ready(c) ==
  /\ AfcTypes /\ ClientOK(c) /\ cl[c] \in Client /\ Fits(cl[c]) /\ cl[c].pc # "await"
  /\ afcReq[c] = <<>> /\ Frame(c) /\ intact' = intact
LEMMA Answering ==
  ASSUME AfcInv, NEW c \in AfcClients, NEW pc \in Waits, Answer(c, pc), UNCHANGED <<devVars, proxyVars>>
  PROVE  Ready(c) /\ cl[c].pc = pc /\ afcRep[c] # <<>> /\ RepFits(cl[c], Rep(c))
  <1>0. AfcTypes /\ ClientOK(c) /\ cl[c] \in Client /\ cl[c].pc = pc /\ afcRep[c] # <<>>
    BY DEF AfcInv, AfcTypes, Answer
  <1>1. Fits(cl[c]) /\ Turn(c)
    BY <1>0 DEF ClientOK
  <1>2. cl[c].pc # "await"
    BY <1>0 DEF Waits
  <1>3. afcReq[c] = <<>> /\ afcRep[c] = <<Head(afcRep[c])>> /\ RepFits(cl[c], Rep(c))
    BY <1>0, <1>1 DEF Turn, Rep
  <1>4. Tail(afcRep[c]) = <<>>
    BY ONLY <1>3, OneOnly
  <1>5. DOMAIN afcRep = AfcClients /\ afcRep' = [afcRep EXCEPT ![c] = Tail(afcRep[c])]
    BY <1>0 DEF Answer, AfcTypes
  <1>6. OnlyAt(afcRep', afcRep, c, <<>>)
    BY <1>4, <1>5 DEF OnlyAt
  <1>7. Frame(c) /\ intact' = intact
    BY <1>6 DEF Frame, devVars
  <1> QED BY <1>0, <1>1, <1>2, <1>3, <1>7 DEF Ready

\* A client that goes on at pc.
LEMMA At ==
  ASSUME NEW n \in Client, NEW pc \in Pcs, NEW at, at = [n EXCEPT !.pc = pc]
  PROVE  /\ at \in Client /\ at.pc = pc /\ at.kind = n.kind /\ at.path = n.path /\ at.todo = n.todo
         /\ at.buf = n.buf /\ at.base = n.base /\ at.num = n.num /\ at.handle = n.handle
         /\ at.freed = n.freed /\ at.leaked = n.leaked
  BY DEF Client

\* A client done with an entry, and with what it has instead.
LEMMA RestFacts ==
  ASSUME NEW c, cl[c] \in Client, cl[c].todo # <<>>
  PROVE  /\ Rest(c) \in Client /\ Rest(c).kind = cl[c].kind /\ Rest(c).num = cl[c].num
         /\ Rest(c).freed = cl[c].freed /\ Rest(c).leaked = cl[c].leaked /\ Rest(c).todo \in Seq(Things)
         /\ \A t \in Seq(Things) : LET n == [Rest(c) EXCEPT !.todo = t]
              IN n \in Client /\ n.kind = cl[c].kind /\ n.num = cl[c].num /\ n.freed = cl[c].freed /\ n.leaked = cl[c].leaked
  <1>1. Tail(cl[c].todo) \in Seq(Things) /\ <<>> \in Seq(Stuff)
    BY DEF Client
  <1> QED BY <1>1 DEF Client, Rest

\* An operation that fails, with no handle at hand or with no connection.
LEMMA FailOK ==
  ASSUME AfcInv, NEW c \in AfcClients, Ready(c), Ends(c, cl[c], "failed"), Held(c) = {} \/ ~afcUp[c]
  PROVE  AfcInv'
  <1>1. "failed" \in Over \cup {"staged"}
    BY DEF Over
  <1>2. Owed(c) \subseteq cl[c].freed \cup cl[c].leaked
    BY DEF Owed
  <1> QED BY <1>1, <1>2, EndOK DEF Ready

\* An operation that goes on with what is left to do.
LEMMA GoOnOK ==
  ASSUME AfcInv, NEW c \in AfcClients, Ready(c), Held(c) = {}, NEW n \in Client, NextItem(c, n),
         n.kind = cl[c].kind, n.kind \in {"list", "pull"} \cup Puts, n.num = cl[c].num,
         n.freed = cl[c].freed, n.leaked = cl[c].leaked,
         cl[c].pc \notin {"failed", "giveUp", "write", "openW"}
  PROVE  AfcInv'
  <1>1. Owed(c) \subseteq n.freed \cup n.leaked
    BY DEF Owed
  <1>2. n.kind \in Puts => \A g \in intact'[c] : fs[g] = Text(c)
    BY DEF Ready, ClientOK, Pushing, AtHand
  <1> QED BY <1>1, <1>2, NextItemOK DEF Ready, Frame

LEMMA SingleOK ==
  ASSUME AfcInv, NEW c \in AfcClients, Single(c), UNCHANGED proxyVars
  PROVE  AfcInv'
  <1>1. Ready(c) /\ cl[c].pc = "single"
    BY Answering DEF Single, Waits
  <1>2. Held(c) = {}
    BY <1>1 DEF Held, Granted
  <1>3. PICK pc \in {"done", "failed"} : Ends(c, cl[c], pc)
    BY DEF Single
  <1>4. pc \in Over \cup {"staged"} /\ cl[c].kind \in Singles
    BY <1>1, <1>3 DEF Over, Ready, ClientOK, Fits
  <1>5. Owed(c) \subseteq cl[c].freed \cup cl[c].leaked /\ cl[c].kind \notin Puts
    BY <1>2, <1>4 DEF Owed, Puts, Singles
  <1>6. cl[c].kind \notin {"install", "browse"} /\ pc # "staged"
    BY <1>3, <1>4 DEF Singles
  <1> QED BY <1>1, <1>3, <1>4, <1>5, <1>6, EndOK DEF Ready

LEMMA PullStatOK ==
  ASSUME AfcInv, NEW c \in AfcClients, PullStat(c), UNCHANGED proxyVars
  PROVE  AfcInv'
  <1>1. Ready(c) /\ cl[c].pc = "stat"
    BY Answering DEF PullStat, Waits
  <1>2. Held(c) = {} /\ cl[c].kind = "pull" /\ cl[c].todo # <<>>
    BY <1>1 DEF Held, Granted, Ready, Fits, Waits
  <1>3. ASSUME NEW pc \in {"list", "openR"}, NEW arg, Ask(c, pc, arg, [cl[c] EXCEPT !.pc = pc]),
               pc = "openR" => arg = Head(cl[c].todo)
        PROVE  AfcInv'
    <2>1. PICK at : at = [cl[c] EXCEPT !.pc = pc]
      OBVIOUS
    <2>2. pc \in Pcs /\ pc \in Waits /\ cl[c] \in Client
      BY <1>1, <1>3 DEF Pcs, Waits, Ready
    <2>3. /\ at \in Client /\ at.pc = pc /\ at.kind = "pull" /\ at.todo = cl[c].todo
          /\ at.num = cl[c].num /\ at.freed = cl[c].freed /\ at.leaked = cl[c].leaked
      BY <1>2, <2>1, <2>2, At
    <2>4. Fits(at)
      BY <1>2, <1>3, <2>3 DEF Fits
    <2>5. AskFits(c, at, pc, arg)
      BY <1>2, <1>3, <2>3 DEF AskFits, Owed
    <2>6. AskPulls(c, at) /\ AskPushes(c, at)
      BY <1>3, <2>3 DEF AskPulls, AskPushes, Puts
    <2>7. Ask(c, pc, arg, at)
      BY <1>3, <2>1
    <2> QED BY <1>1, <2>2, <2>3, <2>4, <2>5, <2>6, <2>7, AskOK DEF Ready
  <1>4. \/ Ask(c, "list", Dir, [cl[c] EXCEPT !.pc = "list"])
        \/ Ask(c, "openR", Head(cl[c].todo), [cl[c] EXCEPT !.pc = "openR"])
        \/ Ends(c, cl[c], "failed")
    BY DEF PullStat
  <1> QED BY <1>1, <1>2, <1>3, <1>4, FailOK

LEMMA PullListOK ==
  ASSUME AfcInv, NEW c \in AfcClients, PullList(c), UNCHANGED proxyVars
  PROVE  AfcInv'
  <1>1. Ready(c) /\ cl[c].pc = "list" /\ RepFits(cl[c], Rep(c))
    BY Answering DEF PullList, Waits
  <1>2. Held(c) = {} /\ cl[c].kind \in {"pull", "list"} /\ cl[c].todo # <<>> /\ cl[c] \in Client
    BY <1>1 DEF Held, Granted, Ready, Fits, Waits
  <1>3. CASE Rep(c).op = "data" /\ NextItem(c, [Rest(c) EXCEPT !.todo = Rep(c).val \o @])
    <2>1. Rep(c).val \in Seq(Things) /\ Rest(c).todo \in Seq(Things)
      BY <1>1, <1>2, <1>3, RestFacts DEF RepFits
    <2>2. Rep(c).val \o Rest(c).todo \in Seq(Things)
      BY <2>1
    <2>3. PICK n : n = [Rest(c) EXCEPT !.todo = Rep(c).val \o Rest(c).todo]
      OBVIOUS
    <2>4. n \in Client /\ n.kind = cl[c].kind /\ n.num = cl[c].num /\ n.freed = cl[c].freed /\ n.leaked = cl[c].leaked
      BY <1>2, <2>2, <2>3, RestFacts
    <2>5. NextItem(c, n)
      BY <1>3, <2>3
    <2> QED BY <1>1, <1>2, <2>4, <2>5, GoOnOK
  <1>4. CASE cl[c].kind = "list" /\ Ends(c, cl[c], "done")
    <2>1. "done" \in Over \cup {"staged"} /\ cl[c].kind \notin Puts
      BY <1>4 DEF Over, Puts
    <2> QED BY <1>1, <1>2, <1>4, <2>1, EndOK DEF Ready, Owed
  <1>5. CASE Ends(c, cl[c], "failed")
    BY <1>1, <1>2, <1>5, FailOK
  <1> QED BY <1>3, <1>4, <1>5 DEF PullList

LEMMA LsStatOK ==
  ASSUME AfcInv, NEW c \in AfcClients, LsStat(c), UNCHANGED proxyVars
  PROVE  AfcInv'
  <1>1. Ready(c) /\ cl[c].pc = "lsStat"
    <2>1. CASE Answer(c, "lsStat")
      BY <2>1, Answering DEF LsStat, Waits
    <2>2. CASE cl[c].pc = "lsStat" /\ ~afcUp[c] /\ afcRep[c] = <<>> /\ UNCHANGED afcRep
      <3>1. AfcTypes /\ ClientOK(c) /\ cl[c] \in Client /\ UNCHANGED devVars
        BY DEF AfcInv, AfcTypes, LsStat
      <3>2. Fits(cl[c]) /\ afcReq[c] = <<>>
        BY <2>2, <3>1 DEF ClientOK, Turn
      <3>3. OnlyAt(afcRep', afcRep, c, <<>>)
        BY <2>2, <3>1 DEF OnlyAt, AfcTypes
      <3> QED BY <2>2, <3>1, <3>2, <3>3 DEF Ready, Frame, devVars
    <2> QED BY <2>1, <2>2 DEF LsStat
  <1>2. Held(c) = {} /\ cl[c].kind = "list" /\ cl[c].todo # <<>> /\ cl[c] \in Client
    BY <1>1 DEF Held, Granted, Ready, Fits, Waits
  <1>3. NextItem(c, Rest(c))
    BY DEF LsStat
  <1> QED BY <1>1, <1>2, <1>3, RestFacts, GoOnOK

\* An operation that fails with its handle left open, and noted.
LEMMA LeakOK ==
  ASSUME AfcInv, NEW c \in AfcClients, Ready(c), NEW n \in Client,
         Ends(c, [n EXCEPT !.leaked = @ \cup {n.handle}], "failed"),
         n.num = cl[c].num, n.freed = cl[c].freed, n.leaked = cl[c].leaked, Held(c) \subseteq {n.handle}
  PROVE  AfcInv'
  <1>1. PICK m : m = [n EXCEPT !.leaked = @ \cup {n.handle}]
    OBVIOUS
  <1>2. m \in Client /\ m.num = cl[c].num /\ m.freed = cl[c].freed /\ m.leaked = cl[c].leaked \cup {n.handle}
    <2>1. n.leaked \cup {n.handle} \in SUBSET Nat
      BY DEF Client
    <2> QED BY <1>1, <2>1 DEF Client
  <1>3. Ends(c, m, "failed")
    BY <1>1
  <1>4. "failed" \in Over \cup {"staged"}
    BY DEF Over
  <1>5. Owed(c) \subseteq m.freed \cup m.leaked
    BY <1>2 DEF Owed
  <1> QED BY <1>2, <1>3, <1>4, <1>5, EndOK DEF Ready

LEMMA PullOpenOK ==
  ASSUME AfcInv, NEW c \in AfcClients, PullOpen(c), UNCHANGED proxyVars
  PROVE  AfcInv'
  <1>1. Ready(c) /\ cl[c].pc = "openR" /\ afcRep[c] # <<>> /\ RepFits(cl[c], Rep(c))
    BY Answering DEF PullOpen, Waits
  <1>2. cl[c].kind = "pull" /\ cl[c].todo # <<>> /\ cl[c] \in Client
    BY <1>1 DEF Ready, Fits, Waits
  <1>3. CASE ~Opened(c) /\ Ends(c, cl[c], "failed")
    <2>1. Held(c) = {}
      BY <1>1, <1>3 DEF Held, Granted, Answered, Opened, Rep
    <2> QED BY <1>1, <1>3, <2>1, FailOK
  <1>4. CASE Opened(c)
    <2>1. PICK new : new = [cl[c] EXCEPT !.handle = Rep(c).val, !.base = Rep(c).base, !.buf = <<>>]
      OBVIOUS
    <2>2. Rep(c).val \in Nat /\ Rep(c).base \in Seq(Stuff)
      BY <1>1, <1>2, <1>4 DEF RepFits, Opened, Client
    <2>3. /\ new \in Client /\ new.kind = "pull" /\ new.todo = cl[c].todo /\ new.num = cl[c].num
          /\ new.freed = cl[c].freed /\ new.leaked = cl[c].leaked
          /\ new.handle = Rep(c).val /\ new.base = Rep(c).base /\ new.buf = <<>>
      <3>1. <<>> \in Seq(Stuff)
        OBVIOUS
      <3> QED BY <1>2, <2>1, <2>2, <3>1 DEF Client
    <2>4. Granted(c) /\ Held(c) = {Rep(c).val} /\ Rep(c) = Head(afcRep[c])
      BY <1>1, <1>4 DEF Held, Granted, Answered, Opened, Rep
    <2>5. \/ Ask(c, "read", Rep(c).val, [new EXCEPT !.pc = "read"])
          \/ Ends(c, [new EXCEPT !.leaked = @ \cup {new.handle}], "failed")
      BY <1>4, <2>1 DEF PullOpen
    <2>6. CASE Ask(c, "read", Rep(c).val, [new EXCEPT !.pc = "read"])
      <3>1. PICK at : at = [new EXCEPT !.pc = "read"]
        OBVIOUS
      <3>2. "read" \in Pcs /\ "read" \in Waits
        BY DEF Pcs, Waits
      <3>3. /\ at \in Client /\ at.pc = "read" /\ at.kind = "pull" /\ at.todo = cl[c].todo
            /\ at.num = cl[c].num /\ at.freed = cl[c].freed /\ at.leaked = cl[c].leaked
            /\ at.handle = Rep(c).val /\ at.base = Rep(c).base /\ at.buf = <<>>
        BY <2>3, <3>1, <3>2, At
      <3>4. Fits(at)
        BY <1>2, <3>3 DEF Fits
      <3>5. AskFits(c, at, "read", Rep(c).val)
        BY <2>4, <3>3 DEF AskFits, Owed
      <3>6. AskPulls(c, at)
        <4> SUFFICES ASSUME Head(cl[c].todo) \in intact[c]
                     PROVE  /\ at.base = fs[Head(cl[c].todo)] /\ fs[Head(cl[c].todo)] # Absent
                            /\ \A h \in open[c] : h.id = at.handle =>
                                 h.file = Head(cl[c].todo) /\ h.pos <= Len(at.base) /\ at.buf = SubSeq(at.base, 1, h.pos)
          BY <1>1, <3>3 DEF AskPulls, Ready
        <4>1. /\ Rep(c).base = fs[Head(cl[c].todo)] /\ fs[Head(cl[c].todo)] # Absent
              /\ \A h \in open[c] : h.id = Rep(c).val => h.file = Head(cl[c].todo) /\ h.pos = 0
          BY <1>1, <1>2, <2>4 DEF Ready, ClientOK, Pulling
        <4>2. 0 <= Len(Rep(c).base) /\ SubSeq(Rep(c).base, 1, 0) = <<>>
          BY <2>2
        <4> QED BY <3>3, <4>1, <4>2
      <3>7. AskPushes(c, at)
        BY <3>3 DEF AskPushes, Puts
      <3>8. Ask(c, "read", Rep(c).val, at)
        BY <2>6, <3>1
      <3> QED BY <1>1, <3>2, <3>3, <3>4, <3>5, <3>6, <3>7, <3>8, AskOK DEF Ready
    <2>7. CASE Ends(c, [new EXCEPT !.leaked = @ \cup {new.handle}], "failed")
      BY <1>1, <2>3, <2>4, <2>7, LeakOK
    <2> QED BY <2>5, <2>6, <2>7
  <1> QED BY <1>3, <1>4 DEF PullOpen

\* The handle at hand is closed, at the end of a file or after an error.
LEMMA CloseHandleOK ==
  ASSUME AfcInv, NEW c \in AfcClients, Ready(c), NEW n \in Client, NEW pc \in {"close", "giveUp"},
         Ask(c, "close", n.handle, [n EXCEPT !.pc = pc]), n.kind = cl[c].kind, n.todo = cl[c].todo, n.todo # <<>>,
         n.num = cl[c].num, n.freed = cl[c].freed, n.leaked = cl[c].leaked, Held(c) \subseteq {n.handle},
         n.kind \in Puts \cup {"pull"},
         pc = "close" /\ n.kind = "pull" /\ Head(n.todo) \in intact[c] => n.buf = n.base,
         pc = "close" /\ n.kind \in Puts => \A g \in intact[c] : fs[g] = Text(c)
  PROVE  AfcInv'
  <1>1. PICK at : at = [n EXCEPT !.pc = pc]
    OBVIOUS
  <1>2. pc \in Pcs /\ pc \in Waits
    BY DEF Pcs, Waits
  <1>3. /\ at \in Client /\ at.pc = pc /\ at.kind = cl[c].kind /\ at.todo = cl[c].todo /\ at.handle = n.handle
        /\ at.num = cl[c].num /\ at.freed = cl[c].freed /\ at.leaked = cl[c].leaked
        /\ at.base = n.base /\ at.buf = n.buf
    BY <1>1, <1>2, At
  <1>4. Fits(at)
    BY <1>3 DEF Fits
  <1>5. AskFits(c, at, "close", n.handle)
    <2>1. n.handle \in Nat
      BY DEF Client
    <2> QED BY <1>3, <2>1 DEF AskFits, Owed
  <1>6. AskPulls(c, at) /\ AskPushes(c, at)
    BY <1>3 DEF AskPulls, AskPushes, Ready, Puts
  <1>7. Ask(c, "close", n.handle, at)
    BY <1>1
  <1> QED BY <1>2, <1>3, <1>4, <1>5, <1>6, <1>7, AskOK DEF Ready

LEMMA PullReadOK ==
  ASSUME AfcInv, NEW c \in AfcClients, PullRead(c), UNCHANGED proxyVars
  PROVE  AfcInv'
  <1>1. Ready(c) /\ cl[c].pc = "read" /\ afcRep[c] # <<>> /\ RepFits(cl[c], Rep(c))
    BY Answering DEF PullRead, Waits
  <1>2. cl[c].kind = "pull" /\ cl[c].todo # <<>> /\ cl[c] \in Client /\ Held(c) = {cl[c].handle}
    BY <1>1 DEF Ready, Fits, Waits, Held
  <1> DEFINE f == Head(cl[c].todo)
  <1>3. f \in intact[c] =>
          /\ cl[c].base = fs[f] /\ fs[f] # Absent
          /\ \A h \in open[c] : h.id = cl[c].handle =>
               /\ h.file = f /\ h.pos <= Len(cl[c].base)
               /\ Rep(c).op = "data" => cl[c].buf \o Rep(c).val = SubSeq(cl[c].base, 1, h.pos)
          /\ Rep(c).op \in {"end", "success"} => cl[c].buf = cl[c].base
    BY <1>1, <1>2 DEF Ready, ClientOK, Pulling, Answered, Rep
  <1>4. CASE ReadResult(c) = "data" /\ Ask(c, "read", cl[c].handle, [cl[c] EXCEPT !.buf = @ \o Rep(c).val])
    <2>1. PICK at : at = [cl[c] EXCEPT !.buf = @ \o Rep(c).val]
      OBVIOUS
    <2>2. Rep(c).op = "data" /\ Rep(c).val \in Seq(Stuff)
      BY <1>1, <1>4 DEF ReadResult, RepFits
    <2>3. cl[c].buf \o Rep(c).val \in Seq(Stuff)
      BY <1>2, <2>2 DEF Client
    <2>4. /\ at \in Client /\ at.pc = "read" /\ at.kind = "pull" /\ at.todo = cl[c].todo
          /\ at.num = cl[c].num /\ at.freed = cl[c].freed /\ at.leaked = cl[c].leaked
          /\ at.handle = cl[c].handle /\ at.base = cl[c].base /\ at.buf = cl[c].buf \o Rep(c).val
      BY <1>1, <1>2, <2>1, <2>3 DEF Client
    <2>5. Fits(at) /\ at.pc \in Waits
      BY <1>2, <2>4 DEF Fits, Waits
    <2>6. AskFits(c, at, "read", cl[c].handle)
      BY <1>2, <2>4 DEF AskFits, Owed
    <2>7. AskPulls(c, at)
      BY <1>1, <1>3, <2>2, <2>4 DEF AskPulls, Ready
    <2>8. AskPushes(c, at)
      BY <2>4 DEF AskPushes, Puts
    <2>9. Ask(c, "read", cl[c].handle, at)
      BY <1>4, <2>1
    <2> QED BY <1>1, <2>4, <2>5, <2>6, <2>7, <2>8, <2>9, AskOK DEF Ready
  <1>5. CASE Ends(c, [cl[c] EXCEPT !.leaked = @ \cup {cl[c].handle}], "failed")
    BY <1>1, <1>2, <1>5, LeakOK
  <1>6. CASE ReadResult(c) = "end" /\ Ask(c, "close", cl[c].handle, [cl[c] EXCEPT !.pc = "close"])
    <2>1. Rep(c).op \in {"end", "success"}
      BY <1>6 DEF ReadResult
    <2>2. cl[c].kind \in Puts \cup {"pull"} /\ cl[c].kind \notin Puts /\ (f \in intact[c] => cl[c].buf = cl[c].base)
      BY <1>2, <1>3, <2>1 DEF Puts
    <2> QED BY <1>1, <1>2, <1>6, <2>2, CloseHandleOK
  <1>7. CASE Ask(c, "close", cl[c].handle, [cl[c] EXCEPT !.pc = "giveUp"])
    BY <1>1, <1>2, <1>7, CloseHandleOK
  <1> QED BY <1>4, <1>5, <1>6, <1>7 DEF PullRead

LEMMA MkdirOK ==
  ASSUME AfcInv, NEW c \in AfcClients, Mkdir(c), UNCHANGED proxyVars
  PROVE  AfcInv'
  <1>1. Ready(c) /\ cl[c].pc = "mkdir"
    BY Answering DEF Mkdir, Waits
  <1>2. Held(c) = {} /\ cl[c] \in Client /\ (cl[c].kind # "mkdir" => cl[c].todo # <<>>)
    BY <1>1 DEF Held, Granted, Ready, Fits, Waits
  <1>3. CASE cl[c].kind = "mkdir" /\ Ends(c, cl[c], "done")
    <2>1. "done" \in Over \cup {"staged"} /\ cl[c].kind \notin Puts
      BY <1>3 DEF Over, Puts
    <2> QED BY <1>1, <1>2, <1>3, <2>1, EndOK DEF Ready, Owed
  <1>4. CASE cl[c].kind = "push" /\ \E t \in Listings(Files) : NextItem(c, [Rest(c) EXCEPT !.todo = t])
    <2>1. PICK t \in Listings(Files) : NextItem(c, [Rest(c) EXCEPT !.todo = t])
      BY <1>4
    <2>2. t \in Seq(Things)
      BY ListingType
    <2>3. PICK n : n = [Rest(c) EXCEPT !.todo = t]
      OBVIOUS
    <2>4. n \in Client /\ n.kind = cl[c].kind /\ n.num = cl[c].num /\ n.freed = cl[c].freed /\ n.leaked = cl[c].leaked
      BY <1>2, <1>4, <2>2, <2>3, RestFacts
    <2>5. NextItem(c, n)
      BY <2>1, <2>3
    <2> QED BY <1>1, <1>2, <1>4, <2>4, <2>5, GoOnOK DEF Puts
  <1>5. CASE cl[c].kind = "install" /\ NextItem(c, Rest(c))
    BY <1>1, <1>2, <1>5, RestFacts, GoOnOK DEF Puts
  <1>6. CASE Ends(c, cl[c], "failed")
    BY <1>1, <1>2, <1>6, FailOK
  <1> QED BY <1>3, <1>4, <1>5, <1>6 DEF Mkdir

\* The next chunk of a push, n being as far as the device has acknowledged.
LEMMA NextChunkOK ==
  ASSUME AfcInv, NEW c \in AfcClients, Ready(c), NEW n \in Client, NextChunk(c, n),
         n.kind = cl[c].kind, n.todo = cl[c].todo, n.todo # <<>>, n.num = cl[c].num,
         n.freed = cl[c].freed, n.leaked = cl[c].leaked, Held(c) \subseteq {n.handle}, n.kind \in Puts,
         \A g \in intact[c] : fs[g] = Text(c) \/ g = Head(n.todo),
         Head(n.todo) \in intact[c] => fs[Head(n.todo)] = SubSeq(Text(c), 1, Len(n.buf)),
         \A h \in open[c] : h.id = n.handle => h.file = Head(n.todo)
  PROVE  AfcInv'
  <1>0. NChunks \in Nat /\ Text(c) \in Seq(Stuff) /\ Len(Text(c)) = NChunks /\ n.buf \in Seq(Stuff) /\ Len(n.buf) \in Nat
    BY TextFacts, AfcAssumption DEF Client
  <1>1. CASE Len(n.buf) < NChunks
             /\ Ask(c, "write", n.handle, [n EXCEPT !.pc = "write", !.buf = Append(@, Text(c)[Len(@) + 1])])
    <2>1. PICK more : more = Append(n.buf, Text(c)[Len(n.buf) + 1])
      OBVIOUS
    <2>2. Text(c)[Len(n.buf) + 1] \in Stuff
      BY <1>0, <1>1, TextFacts
    <2>3. more \in Seq(Stuff) /\ Len(more) = Len(n.buf) + 1
      BY <1>0, <2>1, <2>2
    <2>4. PICK at : at = [n EXCEPT !.pc = "write", !.buf = more]
      OBVIOUS
    <2>5. "write" \in Pcs /\ "write" \in Waits
      BY DEF Pcs, Waits
    <2>6. /\ at \in Client /\ at.pc = "write" /\ at.kind = n.kind /\ at.todo = cl[c].todo /\ at.handle = n.handle
          /\ at.num = cl[c].num /\ at.freed = cl[c].freed /\ at.leaked = cl[c].leaked /\ at.buf = more
      BY <2>3, <2>4, <2>5 DEF Client
    <2>7. Fits(at)
      BY <2>6 DEF Fits
    <2>8. AskFits(c, at, "write", n.handle)
      BY <2>6 DEF AskFits, Owed
    <2>9. AskPulls(c, at)
      BY <2>6 DEF AskPulls, Puts
    <2>10. Len(more) \in 1..NChunks /\ Len(more) - 1 = Len(n.buf)
      BY <1>0, <1>1, <2>3
    <2>11. AskPushes(c, at)
      BY <2>6, <2>10 DEF AskPushes, Ready
    <2>12. Ask(c, "write", n.handle, at)
      BY <1>1, <2>1, <2>4
    <2> QED BY <2>5, <2>6, <2>7, <2>8, <2>9, <2>11, <2>12, AskOK DEF Ready
  <1>2. CASE Len(n.buf) = NChunks /\ Ask(c, "close", n.handle, [n EXCEPT !.pc = "close"])
    <2>1. SubSeq(Text(c), 1, Len(n.buf)) = Text(c)
      BY <1>0, <1>2
    <2>2. \A g \in intact[c] : fs[g] = Text(c)
      BY <2>1
    <2>3. n.kind # "pull"
      BY DEF Puts
    <2> QED BY <1>2, <2>2, <2>3, CloseHandleOK
  <1>3. CASE Ends(c, [n EXCEPT !.leaked = @ \cup {n.handle}], "failed")
    BY <1>3, LeakOK
  <1> QED BY <1>1, <1>2, <1>3 DEF NextChunk

LEMMA PushOpenOK ==
  ASSUME AfcInv, NEW c \in AfcClients, PushOpen(c), UNCHANGED proxyVars
  PROVE  AfcInv'
  <1>1. Ready(c) /\ cl[c].pc = "openW" /\ afcRep[c] # <<>> /\ RepFits(cl[c], Rep(c))
    BY Answering DEF PushOpen, Waits
  <1>2. cl[c].kind \in Puts /\ cl[c].todo # <<>> /\ cl[c] \in Client
    BY <1>1 DEF Ready, Fits, Waits, Puts
  <1>3. CASE ~Opened(c) /\ Ends(c, cl[c], "failed")
    <2>1. Held(c) = {}
      BY <1>1, <1>3 DEF Held, Granted, Answered, Opened, Rep
    <2> QED BY <1>1, <1>3, <2>1, FailOK
  <1>4. CASE Opened(c) /\ NextChunk(c, [cl[c] EXCEPT !.handle = Rep(c).val, !.buf = <<>>])
    <2>1. PICK n : n = [cl[c] EXCEPT !.handle = Rep(c).val, !.buf = <<>>]
      OBVIOUS
    <2>2. Rep(c).val \in Nat /\ <<>> \in Seq(Stuff)
      BY <1>1, <1>2, <1>4 DEF RepFits, Opened, Client
    <2>3. /\ n \in Client /\ n.kind = cl[c].kind /\ n.todo = cl[c].todo /\ n.num = cl[c].num
          /\ n.freed = cl[c].freed /\ n.leaked = cl[c].leaked /\ n.handle = Rep(c).val /\ n.buf = <<>>
      BY <1>2, <2>1, <2>2 DEF Client
    <2>4. Granted(c) /\ Held(c) = {Rep(c).val} /\ Rep(c) = Head(afcRep[c])
      BY <1>1, <1>4 DEF Held, Granted, Answered, Opened, Rep
    <2>5. /\ \A g \in intact[c] : fs[g] = Text(c) \/ g = Head(cl[c].todo)
          /\ Head(cl[c].todo) \in intact[c] => fs[Head(cl[c].todo)] = <<>>
          /\ \A h \in open[c] : h.id = Rep(c).val => h.file = Head(cl[c].todo)
      BY <1>1, <1>2, <2>4 DEF Ready, ClientOK, Pushing
    <2>6. SubSeq(Text(c), 1, Len(n.buf)) = <<>>
      <3>1. Text(c) \in Seq(Stuff) /\ Len(n.buf) = 0
        BY <2>3, TextFacts
      <3> QED BY <3>1
    <2>7. NextChunk(c, n)
      BY <1>4, <2>1
    <2> QED BY <1>1, <1>2, <2>3, <2>4, <2>5, <2>6, <2>7, NextChunkOK
  <1> QED BY <1>3, <1>4 DEF PushOpen

LEMMA PushWriteOK ==
  ASSUME AfcInv, NEW c \in AfcClients, PushWrite(c), UNCHANGED proxyVars
  PROVE  AfcInv'
  <1>1. Ready(c) /\ cl[c].pc = "write" /\ afcRep[c] # <<>>
    BY Answering DEF PushWrite, Waits
  <1>2. cl[c].kind \in Puts /\ cl[c].todo # <<>> /\ cl[c] \in Client /\ Held(c) = {cl[c].handle}
    BY <1>1 DEF Ready, Fits, Waits, Puts, Held
  <1>3. CASE StatusOk(c) /\ NextChunk(c, cl[c])
    <2>1. /\ \A g \in intact[c] : fs[g] = Text(c) \/ g = Head(cl[c].todo)
          /\ Head(cl[c].todo) \in intact[c] => fs[Head(cl[c].todo)] = SubSeq(Text(c), 1, Len(cl[c].buf))
          /\ \A h \in open[c] : h.id = cl[c].handle => h.file = Head(cl[c].todo)
      BY <1>1, <1>2, <1>3 DEF Ready, ClientOK, Pushing, Answered, StatusOk, Rep
    <2> QED BY <1>1, <1>2, <1>3, <2>1, NextChunkOK
  <1>4. CASE Ask(c, "close", cl[c].handle, [cl[c] EXCEPT !.pc = "giveUp"])
    BY <1>1, <1>2, <1>4, CloseHandleOK
  <1> QED BY <1>3, <1>4 DEF PushWrite

LEMMA CloseOK ==
  ASSUME AfcInv, NEW c \in AfcClients, Close(c), UNCHANGED proxyVars
  PROVE  AfcInv'
  <1>1. Ready(c) /\ cl[c].pc = "close"
    BY Answering DEF Close, Waits
  <1>2. Held(c) = {} /\ cl[c].kind \in Puts \cup {"pull"} /\ cl[c].todo # <<>> /\ cl[c] \in Client
    BY <1>1 DEF Held, Granted, Ready, Fits, Waits, Puts
  <1>3. CASE NextItem(c, Rest(c))
    BY <1>1, <1>2, <1>3, RestFacts, GoOnOK
  <1>4. CASE Ends(c, cl[c], "failed")
    BY <1>1, <1>2, <1>4, FailOK
  <1> QED BY <1>3, <1>4 DEF Close

LEMMA GiveUpOK ==
  ASSUME AfcInv, NEW c \in AfcClients, GiveUp(c), UNCHANGED proxyVars
  PROVE  AfcInv'
  <1>1. Ready(c) /\ cl[c].pc = "giveUp"
    BY Answering DEF GiveUp, Waits
  <1>2. Held(c) = {}
    BY <1>1 DEF Held, Granted
  <1> QED BY <1>1, <1>2, FailOK DEF GiveUp

LEMMA SeesClosedOK ==
  ASSUME AfcInv, NEW c \in AfcClients, SeesClosed(c), UNCHANGED proxyVars
  PROVE  AfcInv'
  <1>1. AfcTypes /\ ClientOK(c) /\ cl[c] \in Client /\ UNCHANGED devVars
        /\ ~afcUp[c] /\ afcRep[c] = <<>> /\ UNCHANGED afcRep /\ cl[c].pc # "await"
    BY DEF AfcInv, AfcTypes, SeesClosed
  <1>2. Fits(cl[c]) /\ afcReq[c] = <<>>
    BY <1>1 DEF ClientOK, Turn
  <1>3. OnlyAt(afcRep', afcRep, c, <<>>)
    BY <1>1 DEF OnlyAt, AfcTypes
  <1>4. Ready(c)
    BY <1>1, <1>2, <1>3 DEF Ready, Frame, devVars
  <1> QED BY <1>1, <1>4, FailOK DEF SeesClosed

LEMMA ClientStepOK ==
  ASSUME AfcInv, NEW c \in AfcClients, AfcClientStep(c), UNCHANGED proxyVars
  PROVE  AfcInv'
  BY SingleOK, PullStatOK, PullListOK, LsStatOK, PullOpenOK, PullReadOK, MkdirOK, PushOpenOK, PushWriteOK,
     CloseOK, GiveUpOK, SeesClosedOK DEF AfcClientStep

-----------------------------------------------------------------------------
(* The device.                                                             *)

\* What the device leaves alone when it answers client c with p.
DevFrame(c, p) ==
  /\ UNCHANGED <<afcUp, cl, proxyVars>>
  /\ OnlyAt(afcReq', afcReq, c, <<>>) /\ OnlyAt(afcRep', afcRep, c, <<p>>)
  /\ \A d \in AfcClients : d # c => open'[d] = open[d] /\ intact'[d] \subseteq intact[d] /\ \A f \in intact'[d] : fs'[f] = fs[f]
DevTypes ==
  /\ fs' \in [Files -> Seq(Stuff)] /\ dirThere' \in BOOLEAN
  /\ open' \in [AfcClients -> SUBSET OpenFile] /\ intact' \in [AfcClients -> SUBSET Files]

LEMMA DevStep ==
  ASSUME AfcInv, NEW c \in AfcClients, NEW p, DevFrame(c, p), DevTypes, cl[c].pc \in Waits, RepFits(cl[c], p),
         Handles(c)', Pulling(c)', Pushing(c)'
  PROVE  AfcInv'
  <1>0. AfcTypes /\ ClientOK(c)
    BY DEF AfcInv
  <1>1. AfcTypes'
    BY <1>0 DEF AfcTypes, DevFrame, DevTypes, OnlyAt, proxyVars
  <1>2. /\ afcReq'[c] = <<>> /\ afcRep'[c] = <<p>>
        /\ \A d \in AfcClients : d # c => UNCHANGED <<afcReq[d], afcRep[d], open[d]>>
    BY DEF DevFrame, OnlyAt
  <1>3. UNCHANGED <<cl, afcUp, task, status, app>>
    BY DEF DevFrame, proxyVars
  <1>4. ASSUME NEW d \in AfcClients, d # c PROVE ClientOK(d)'
    BY <1>2, <1>3, <1>4, OtherClient DEF AfcInv, DevFrame
  <1>5. Head(<<p>>) = p
    BY One
  <1>6. afcRep'[c] = <<Head(afcRep'[c])>> /\ Head(afcRep'[c]) = p
    BY ONLY <1>2, <1>5, Zenon
  <1>7. RepFits(cl[c], Head(afcRep[c]))'
    BY <1>3, <1>6 DEF RepFits
  <1>8. Turn(c)' /\ Fits(cl[c])'
    BY <1>0, <1>2, <1>3, <1>6, <1>7 DEF ClientOK, Turn, Fits
  <1>9. Proxying(c)'
    <2>1. cl[c].pc \notin {"await", "done"} /\ task[c] = "none" /\ status[c] = <<>>
      BY <1>0 DEF ClientOK, Proxying, Waits
    <2> QED BY <1>3, <2>1 DEF Proxying
  <1> QED BY <1>1, <1>4, <1>8, <1>9 DEF AfcInv, ClientOK

\* A client whose request is served: its only one, and no answer on its way.
Asking(c) ==
  /\ AfcTypes /\ ClientOK(c) /\ cl[c] \in Client /\ afcUp[c] /\ cl[c].pc \in Waits
  /\ ReqFits(cl[c], Head(afcReq[c])) /\ afcReq[c] # <<>> /\ afcRep[c] = <<>> /\ Tail(afcReq[c]) = <<>>
LEMMA Asked ==
  ASSUME AfcInv, NEW c \in AfcClients, afcUp[c], afcReq[c] # <<>>
  PROVE  Asking(c)
  <1>1. AfcTypes /\ ClientOK(c) /\ cl[c] \in Client
    BY DEF AfcInv, AfcTypes
  <1>2. afcReq[c] = <<Head(afcReq[c])>> /\ cl[c].pc \in Waits /\ ReqFits(cl[c], Head(afcReq[c])) /\ afcRep[c] = <<>>
    BY <1>1 DEF ClientOK, Turn
  <1>3. Tail(afcReq[c]) = <<>>
    BY ONLY <1>2, OneOnly
  <1> QED BY <1>1, <1>2, <1>3 DEF Asking

\* The answer.
Given(c, op, val, p) ==
  /\ p.op = op /\ p.val = val /\ p.num = cl[c].num
  /\ op = "handle" /\ Head(afcReq[c]).arg \in Files => p.base = fs[Head(afcReq[c]).arg]
  /\ OnlyAt(afcRep', afcRep, c, <<p>>) /\ OnlyAt(afcReq', afcReq, c, <<>>)
  /\ afcRep'[c] = <<p>> /\ afcRep'[c] # <<>> /\ Head(afcRep'[c]) = p /\ afcReq'[c] = <<>>
LEMMA Replies ==
  ASSUME NEW c \in AfcClients, Asking(c), NEW op, NEW val, Reply(c, op, val), afcReq' = [afcReq EXCEPT ![c] = Tail(@)]
  PROVE  \E p : Given(c, op, val, p)
  <1> DEFINE base == IF op = "handle" /\ Head(afcReq[c]).arg \in Files THEN fs[Head(afcReq[c]).arg] ELSE <<>>
             p == [op |-> op, val |-> val, num |-> Head(afcReq[c]).num, base |-> base]
  <1>1. p.op = op /\ p.val = val /\ p.num = cl[c].num /\ p.base = base
    BY DEF Asking, ReqFits
  <1>2. afcRep' = [afcRep EXCEPT ![c] = Append(@, p)]
    BY DEF Reply
  <1>3. op = "handle" /\ Head(afcReq[c]).arg \in Files => base = fs[Head(afcReq[c]).arg]
    OBVIOUS
  <1> HIDE DEF p, base
  <1>4. Append(<<>>, p) = <<p>> /\ <<p>> # <<>> /\ Head(<<p>>) = p
    BY One
  <1>5. afcRep[c] = <<>> /\ DOMAIN afcRep = AfcClients /\ DOMAIN afcReq = AfcClients /\ Tail(afcReq[c]) = <<>>
    BY DEF Asking, AfcTypes
  <1>6. afcRep'[c] = Append(afcRep[c], p)
    BY <1>2, <1>5
  <1>7. afcRep'[c] = <<p>>
    BY ONLY <1>4, <1>5, <1>6, Zenon
  <1>8. afcRep'[c] # <<>> /\ Head(afcRep'[c]) = p
    BY ONLY <1>4, <1>7, Zenon
  <1>9. OnlyAt(afcRep', afcRep, c, <<p>>)
    BY <1>2, <1>5, <1>7 DEF OnlyAt
  <1>10. OnlyAt(afcReq', afcReq, c, <<>>)
    BY <1>5 DEF OnlyAt
  <1>11. Given(c, op, val, p)
    BY <1>1, <1>3, <1>7, <1>8, <1>9, <1>10 DEF Given, OnlyAt
  <1> QED BY <1>11

\* An answer that opens no handle and moves none: the file at hand is as it
\* was, or the request is not about it.
LEMMA PlainOK ==
  ASSUME AfcInv, NEW c \in AfcClients, Asking(c), NEW op, NEW val, NEW p, Given(c, op, val, p), op # "handle",
         UNCHANGED <<afcUp, cl, proxyVars>>, DevTypes,
         \A d \in AfcClients : d # c => open'[d] = open[d] /\ intact'[d] \subseteq intact[d] /\ \A f \in intact'[d] : fs'[f] = fs[f],
         open'[c] \subseteq open[c], intact'[c] = intact[c],
         cl[c].pc = "single" \/ \A f \in intact[c] : fs'[f] = fs[f],
         op = "error" \/ cl[c].pc \notin {"read", "write"},
         cl[c].pc = "list" /\ op = "data" => val \in Seq(Things)
  PROVE  AfcInv'
  <1>1. DevFrame(c, p)
    BY DEF DevFrame, Given
  <1>2. /\ ClientOK(c) /\ cl[c].pc \in Waits /\ afcReq[c] # <<>> /\ afcRep[c] = <<>> /\ p.op = op /\ p.val = val
        /\ p.num = cl[c].num /\ afcReq'[c] = <<>> /\ afcRep'[c] # <<>> /\ Head(afcRep'[c]) = p
        /\ cl' = cl /\ afcUp' = afcUp
    BY DEF Asking, Given
  <1>3. RepFits(cl[c], p)
    BY <1>2 DEF RepFits
  <1>4. ~Granted(c) /\ ~Granted(c)'
    BY <1>2 DEF Granted, Answered
  <1>5. Held(c)' = Held(c)
    BY <1>2, <1>4 DEF Held
  <1>6. Handles(c)'
    BY <1>2, <1>5 DEF ClientOK, Handles
  <1>7. Fits(cl[c])
    BY <1>2 DEF ClientOK
  <1>8. Pulling(c)'
    <2>1. CASE cl[c].pc = "single"
      BY <1>2, <2>1 DEF Pulling
    <2>2. CASE cl[c].pc # "single"
      BY <1>2, <1>4, <2>2 DEF ClientOK, Pulling, Answered
    <2> QED BY <2>1, <2>2
  <1>9. Pushing(c)'
    <2>1. CASE cl[c].pc = "single"
      BY <1>2, <1>7, <2>1 DEF Pushing, Fits, Puts, Singles
    <2>2. CASE cl[c].pc # "single"
      BY <1>2, <1>4, <2>2 DEF ClientOK, Pushing, Answered, AtHand
    <2> QED BY <2>1, <2>2
  <1> QED BY <1>1, <1>2, <1>3, <1>6, <1>8, <1>9, DevStep

LEMMA DevRefusesOK ==
  ASSUME AfcInv, NEW c \in AfcClients, DevRefuses(c), UNCHANGED proxyVars
  PROVE  AfcInv'
  <1>1. Asking(c)
    BY Asked DEF DevRefuses
  <1>2. PICK p : Given(c, "error", 0, p)
    BY <1>1, Replies DEF DevRefuses
  <1>3. DevTypes
    BY <1>1 DEF DevTypes, DevRefuses, Asking, AfcTypes
  <1> QED BY <1>1, <1>2, <1>3, PlainOK DEF DevRefuses

LEMMA DevHangsUpOK ==
  ASSUME AfcInv, NEW c \in AfcClients, DevHangsUp(c), UNCHANGED proxyVars
  PROVE  AfcInv'
  <1>0. AfcTypes /\ ClientOK(c)
    BY DEF AfcInv
  <1>1. AfcTypes'
    BY <1>0 DEF AfcTypes, DevHangsUp, proxyVars
  <1>2. /\ afcUp'[c] = FALSE /\ afcReq'[c] = <<>> /\ open'[c] = {}
        /\ \A d \in AfcClients : d # c => UNCHANGED <<afcUp[d], afcReq[d], open[d]>>
        /\ UNCHANGED <<cl, afcRep, fs, intact, task, status, app>>
    BY <1>0 DEF DevHangsUp, AfcTypes, proxyVars
  <1>3. ASSUME NEW d \in AfcClients, d # c PROVE ClientOK(d)'
    BY <1>2, <1>3, OtherClient DEF AfcInv
  <1>4. Turn(c)' /\ Fits(cl[c])'
    BY <1>0, <1>2 DEF ClientOK, Turn, Fits, RepFits
  <1>5. Handles(c)'
    BY <1>2 DEF Handles
  <1>6. Pulling(c)'
    BY <1>0, <1>2 DEF ClientOK, Pulling, Granted, Answered
  <1>7. Pushing(c)'
    BY <1>0, <1>2 DEF ClientOK, Pushing, AtHand, Granted, Answered
  <1>8. Proxying(c)'
    BY <1>0, <1>2 DEF ClientOK, Proxying
  <1> QED BY <1>1, <1>3, <1>4, <1>5, <1>6, <1>7, <1>8 DEF AfcInv, ClientOK

\* What a client that asks is at, from its request.
LEMMA AtRequest ==
  ASSUME NEW c \in AfcClients, Asking(c)
  PROVE  LET q == Head(afcReq[c]) IN
         /\ q.num = cl[c].num
         /\ q.op = "stat" => cl[c].pc \in {"single", "stat", "lsStat"}
         /\ q.op \in {"remove", "rename", "link"} => cl[c].pc = "single"
         /\ q.op = "list" => cl[c].pc = "list"
         /\ q.op = "mkdir" => cl[c].pc = "mkdir"
         /\ q.op \in {"openR", "openW"} => cl[c].pc = q.op /\ q.arg = Head(cl[c].todo)
         /\ q.op \in {"read", "write"} => cl[c].pc = q.op /\ q.arg = cl[c].handle
         /\ q.op = "close" => cl[c].pc \in {"close", "giveUp"}
  BY DEF Asking, ReqFits, Waits, Singles

\* stat, list, mkdir, close and those that change a path.
LEMMA PlainServed ==
  ASSUME AfcInv, NEW c \in AfcClients, DevServes(c), UNCHANGED proxyVars,
         Head(afcReq[c]).op \in {"stat", "list", "mkdir", "close", "remove", "rename", "link"}
  PROVE  AfcInv'
  <1> DEFINE q == Head(afcReq[c])
  <1>1. Asking(c) /\ UNCHANGED <<afcUp, cl>> /\ afcReq' = [afcReq EXCEPT ![c] = Tail(@)]
    BY Asked DEF DevServes
  <1>2. AfcTypes
    BY DEF AfcInv
  <1>3. /\ q.op = "stat" => cl[c].pc \in {"single", "stat", "lsStat"}
        /\ q.op \in {"remove", "rename", "link"} => cl[c].pc = "single"
        /\ q.op = "list" => cl[c].pc = "list"
        /\ q.op = "mkdir" => cl[c].pc = "mkdir"
        /\ q.op = "close" => cl[c].pc \in {"close", "giveUp"}
    BY <1>1, AtRequest
  <1>4. DevRead(c) \/ DevWrite(c)
    BY DEF DevServes
  <1>5. ASSUME NEW op, NEW val, Reply(c, op, val), op # "handle", DevTypes, intact' = intact \/ cl[c].pc = "single",
               \A d \in AfcClients : d # c => /\ open'[d] = open[d] /\ intact'[d] \subseteq intact[d]
                                              /\ \A f \in intact'[d] : fs'[f] = fs[f],
               open'[c] \subseteq open[c], intact'[c] = intact[c], cl[c].pc = "single" \/ fs' = fs,
               cl[c].pc = "list" /\ op = "data" => val \in Seq(Things)
        PROVE  AfcInv'
    <2>1. PICK p : Given(c, op, val, p)
      BY <1>1, <1>5, Replies
    <2>2. cl[c].pc \notin {"read", "write"}
      BY <1>3
    <2> QED BY <1>1, <1>5, <2>1, <2>2, PlainOK
  <1>6. CASE q.op = "stat"
    <2>1. \E val \in {"dir", "file"} : Reply(c, "data", val) /\ UNCHANGED <<fs, dirThere, open, intact>>
      BY <1>4, <1>6 DEF DevRead, DevWrite
    <2>2. PICK val \in {"dir", "file"} : Reply(c, "data", val) /\ UNCHANGED <<fs, dirThere, open, intact>>
      BY <2>1
    <2>3. DevTypes
      BY <1>2, <2>2 DEF DevTypes, AfcTypes
    <2> QED BY <1>3, <1>5, <1>6, <2>2, <2>3
  <1>7. CASE q.op = "list"
    <2>1. PICK t \in Listings(Names) : Reply(c, "data", t) /\ UNCHANGED <<fs, dirThere, open, intact>>
      BY <1>4, <1>7 DEF DevRead, DevWrite
    <2>2. t \in Seq(Things)
      <3>1. Names \subseteq Files
        BY DEF Names
      <3> QED BY <3>1, ListingType
    <2>3. DevTypes
      BY <1>2, <2>1 DEF DevTypes, AfcTypes
    <2> QED BY <1>3, <1>5, <1>7, <2>1, <2>2, <2>3
  <1>8. CASE q.op = "mkdir"
    <2>1. PICK op \in {"exists", "success"} : Reply(c, op, 0) /\ dirThere' = TRUE /\ UNCHANGED <<fs, open, intact>>
      BY <1>4, <1>8 DEF DevRead, DevWrite
    <2>2. DevTypes
      BY <1>2, <2>1 DEF DevTypes, AfcTypes
    <2> QED BY <1>3, <1>5, <1>8, <2>1, <2>2
  <1>9. CASE q.op = "close"
    <2>1. /\ Reply(c, "success", 0) /\ open' = [open EXCEPT ![c] = @ \ Handle(c)]
          /\ UNCHANGED <<fs, dirThere, intact>>
      BY <1>4, <1>9 DEF DevRead, DevWrite
    <2>2. open'[c] \subseteq open[c] /\ \A d \in AfcClients : d # c => open'[d] = open[d]
      BY <1>2, <2>1 DEF AfcTypes
    <2>3. DevTypes
      BY <1>2, <2>1 DEF DevTypes, AfcTypes
    <2> QED BY <1>3, <1>5, <1>9, <2>1, <2>2, <2>3
  <1>10. CASE q.op \in {"remove", "rename", "link"}
    <2>0. Absent \in Seq(Stuff) /\ Text("dev") \in Seq(Stuff)
      BY StuffFacts, TextFacts
    <2>1. PICK now \in {Absent, Text("dev")} :
            /\ Reply(c, "success", 0) /\ fs' = [fs EXCEPT ![q.arg] = now] /\ Disturb(c, q.arg)
            /\ UNCHANGED <<dirThere, open>>
      BY <1>4, <1>10 DEF DevRead, DevWrite
    <2>2. \A d \in AfcClients : /\ intact'[d] = IF d = c THEN intact[d] ELSE intact[d] \ {q.arg}
                                /\ d # c => \A f \in intact'[d] : f \in Files /\ f # q.arg
      BY <1>2, <2>1 DEF Disturb, AfcTypes
    <2>3. \A d \in AfcClients : d # c => intact'[d] \subseteq intact[d] /\ \A f \in intact'[d] : fs'[f] = fs[f]
      BY <1>2, <2>1, <2>2 DEF AfcTypes
    <2>4. DevTypes
      BY <1>2, <2>0, <2>1 DEF DevTypes, AfcTypes, Disturb
    <2> QED BY <1>3, <1>5, <1>10, <2>1, <2>2, <2>3, <2>4
  <1> QED BY <1>6, <1>7, <1>8, <1>9, <1>10

\* A handle that is opened is new.
LEMMA NewHandle ==
  ASSUME NEW c \in AfcClients, Asking(c), NEW f \in Files, NEW p, Given(c, "handle", cl[c].num, p),
         cl[c].pc \in {"openR", "openW"}, UNCHANGED <<afcUp, cl>>,
         open' = [open EXCEPT ![c] = @ \cup {[id |-> cl[c].num, file |-> f, pos |-> 0]}]
  PROVE  /\ open' \in [AfcClients -> SUBSET OpenFile] /\ \A d \in AfcClients : d # c => open'[d] = open[d]
         /\ Handles(c)' /\ \A h \in open'[c] : h.id = cl[c].num => h.file = f /\ h.pos = 0
  <1>0. /\ AfcTypes /\ ClientOK(c) /\ cl[c].num \in Nat /\ afcUp[c] /\ afcReq[c] # <<>> /\ afcRep[c] = <<>>
        /\ afcReq'[c] = <<>> /\ afcRep'[c] # <<>> /\ Head(afcRep'[c]) = p /\ p.op = "handle" /\ p.val = cl[c].num
    BY DEF Asking, Given, Client
  <1> DEFINE h0 == [id |-> cl[c].num, file |-> f, pos |-> 0]
  <1>1. h0 \in OpenFile /\ h0.id = cl[c].num /\ h0.file = f /\ h0.pos = 0
    BY <1>0 DEF OpenFile
  <1> HIDE DEF h0
  <1>2. open'[c] = open[c] \cup {h0}
    BY <1>0 DEF AfcTypes, h0
  <1>3. \A h \in open[c] : h.id \in Nat /\ h.id < cl[c].num
    BY <1>0 DEF ClientOK, Handles, AfcTypes, OpenFile
  <1>4. \A h \in open'[c] : h.id = cl[c].num => h = h0
    BY <1>0, <1>2, <1>3
  <1>5. Held(c) = {} /\ Held(c)' = {cl[c].num}
    BY <1>0 DEF Held, Granted, Answered
  <1>6. Handles(c)'
    <2>1. \A h \in open'[c] : h.id \in cl[c].freed \cup cl[c].leaked \cup {cl[c].num}
      BY <1>0, <1>1, <1>2, <1>5 DEF ClientOK, Handles
    <2>2. \A h \in open'[c] : h.id <= cl[c].num
      BY <1>0, <1>1, <1>2, <1>3
    <2>3. \A h, g \in open'[c] : g.id = h.id => g = h
      BY <1>0, <1>1, <1>2, <1>4 DEF ClientOK, Handles
    <2> QED BY <1>0, <1>5, <2>1, <2>2, <2>3 DEF Handles
  <1>7. open' \in [AfcClients -> SUBSET OpenFile]
    BY <1>0, <1>1 DEF AfcTypes, h0
  <1>8. \A d \in AfcClients : d # c => open'[d] = open[d]
    BY <1>0 DEF AfcTypes
  <1> QED BY <1>1, <1>4, <1>6, <1>7, <1>8

LEMMA OpenedToRead ==
  ASSUME AfcInv, NEW c \in AfcClients, DevServes(c), UNCHANGED proxyVars, Head(afcReq[c]).op = "openR"
  PROVE  AfcInv'
  <1> DEFINE q == Head(afcReq[c])  f == Head(cl[c].todo)
  <1>1. Asking(c) /\ UNCHANGED <<afcUp, cl>> /\ afcReq' = [afcReq EXCEPT ![c] = Tail(@)]
    BY Asked DEF DevServes
  <1>2. AfcTypes /\ ClientOK(c)
    BY DEF AfcInv
  <1>3. cl[c].pc = "openR" /\ q.arg = f /\ q.num = cl[c].num
    BY <1>1, AtRequest
  <1>4. /\ q.arg \in Names /\ Reply(c, "handle", q.num)
        /\ open' = [open EXCEPT ![c] = @ \cup {[id |-> q.num, file |-> q.arg, pos |-> 0]}]
        /\ intact' = [intact EXCEPT ![c] = @ \cup {q.arg}] /\ UNCHANGED <<fs, dirThere>>
    BY DEF DevServes, DevRead, DevWrite
  <1>5. f \in Files /\ fs[f] # Absent /\ fs[f] \in Seq(Stuff)
    BY <1>2, <1>3, <1>4 DEF Names, AfcTypes
  <1> HIDE DEF f
  <1>6. PICK p : Given(c, "handle", cl[c].num, p)
    BY <1>1, <1>3, <1>4, Replies
  <1>7. /\ p.op = "handle" /\ p.val = cl[c].num /\ p.num = cl[c].num /\ p.base = fs[f]
        /\ afcRep'[c] # <<>> /\ Head(afcRep'[c]) = p
    BY <1>3, <1>5, <1>6 DEF Given
  <1>8. open' = [open EXCEPT ![c] = @ \cup {[id |-> cl[c].num, file |-> f, pos |-> 0]}]
    BY <1>3, <1>4
  <1>9. /\ open' \in [AfcClients -> SUBSET OpenFile] /\ \A d \in AfcClients : d # c => open'[d] = open[d]
        /\ Handles(c)' /\ \A h \in open'[c] : h.id = cl[c].num => h.file = f /\ h.pos = 0
    BY <1>1, <1>3, <1>5, <1>6, <1>8, NewHandle, ZenonT(30)
  <1>10. DevFrame(c, p) /\ DevTypes
    BY <1>1, <1>2, <1>3, <1>4, <1>5, <1>6, <1>9 DEF DevFrame, DevTypes, Given, AfcTypes
  <1>11. RepFits(cl[c], p)
    BY <1>3, <1>5, <1>7 DEF RepFits
  <1>12. Pulling(c)'
    BY <1>1, <1>3, <1>4, <1>5, <1>7, <1>9 DEF Pulling, f
  <1>13. Pushing(c)'
    BY <1>1, <1>2, <1>3 DEF Pushing, ClientOK, Fits, Puts
  <1>14. cl[c].pc \in Waits
    BY <1>3 DEF Waits
  <1> QED BY <1>9, <1>10, <1>11, <1>12, <1>13, <1>14, DevStep

LEMMA OpenedToWrite ==
  ASSUME AfcInv, NEW c \in AfcClients, DevServes(c), UNCHANGED proxyVars, Head(afcReq[c]).op = "openW"
  PROVE  AfcInv'
  <1> DEFINE q == Head(afcReq[c])  f == Head(cl[c].todo)
  <1>1. Asking(c) /\ UNCHANGED <<afcUp, cl>> /\ afcReq' = [afcReq EXCEPT ![c] = Tail(@)] /\ afcRep[c] = <<>>
    BY Asked DEF DevServes, Asking
  <1>2. AfcTypes /\ ClientOK(c)
    BY DEF AfcInv
  <1>3. cl[c].pc = "openW" /\ q.arg = f /\ q.num = cl[c].num
    BY <1>1, AtRequest
  <1>4. f \in Files /\ cl[c].kind \in Puts /\ cl[c].kind # "pull"
    BY <1>2, <1>3 DEF ClientOK, Fits, Puts
  <1>5. /\ Reply(c, "handle", q.num) /\ fs' = [fs EXCEPT ![q.arg] = <<>>]
        /\ open' = [open EXCEPT ![c] = @ \cup {[id |-> q.num, file |-> q.arg, pos |-> 0]}]
        /\ intact' = [d \in AfcClients |-> IF d = c THEN intact[d] \cup {q.arg} ELSE intact[d] \ {q.arg}]
        /\ UNCHANGED dirThere
    BY DEF DevServes, DevRead, DevWrite
  <1> HIDE DEF f
  <1>6. PICK p : Given(c, "handle", cl[c].num, p)
    BY <1>1, <1>3, <1>5, Replies
  <1>7. /\ p.op = "handle" /\ p.val = cl[c].num /\ p.num = cl[c].num /\ p.base = fs[f]
        /\ afcRep'[c] # <<>> /\ Head(afcRep'[c]) = p
    BY <1>3, <1>4, <1>6 DEF Given
  <1>8. open' = [open EXCEPT ![c] = @ \cup {[id |-> cl[c].num, file |-> f, pos |-> 0]}]
    BY <1>3, <1>5
  <1>9. /\ open' \in [AfcClients -> SUBSET OpenFile] /\ \A d \in AfcClients : d # c => open'[d] = open[d]
        /\ Handles(c)' /\ \A h \in open'[c] : h.id = cl[c].num => h.file = f /\ h.pos = 0
    BY <1>1, <1>3, <1>4, <1>6, <1>8, NewHandle, ZenonT(30)
  <1>10. /\ fs'[f] = <<>> /\ \A g \in Files : g # f => fs'[g] = fs[g]
         /\ intact'[c] = intact[c] \cup {f} /\ \A d \in AfcClients : d # c => intact'[d] = intact[d] \ {f}
    BY <1>2, <1>3, <1>4, <1>5 DEF AfcTypes
  <1>11. DevTypes
    <2>1. <<>> \in Seq(Stuff)
      OBVIOUS
    <2> QED BY <1>2, <1>3, <1>4, <1>5, <1>9, <2>1 DEF DevTypes, AfcTypes
  <1>12. DevFrame(c, p)
    <2>1. \A d \in AfcClients : intact[d] \subseteq Files
      BY <1>2 DEF AfcTypes
    <2> QED BY <1>1, <1>6, <1>9, <1>10, <2>1 DEF DevFrame, Given
  <1>13. RepFits(cl[c], p)
    BY <1>2, <1>3, <1>4, <1>7 DEF RepFits, AfcTypes
  <1>14. Pulling(c)'
    BY <1>1, <1>4 DEF Pulling
  <1>15. Pushing(c)'
    <2>1. Granted(c)' /\ AtHand(c)'
      BY <1>1, <1>3, <1>7 DEF Granted, Answered, AtHand
    <2>2. \A g \in intact[c] : fs[g] = Text(c) /\ g \in Files
      BY <1>1, <1>2, <1>3, <1>4 DEF ClientOK, Pushing, AtHand, Granted, Answered, AfcTypes
    <2>3. \A g \in intact'[c] : fs'[g] = Text(c) \/ g = f
      BY <1>10, <2>2
    <2>4. Text(c)' = Text(c)
      BY DEF Text, Piece
    <2> QED BY <1>1, <1>3, <1>4, <1>7, <1>9, <1>10, <2>1, <2>3, <2>4 DEF Pushing, f
  <1>16. cl[c].pc \in Waits
    BY <1>3 DEF Waits
  <1> QED BY <1>9, <1>11, <1>12, <1>13, <1>14, <1>15, <1>16, DevStep

LEMMA ReadServed ==
  ASSUME AfcInv, NEW c \in AfcClients, DevServes(c), UNCHANGED proxyVars, Head(afcReq[c]).op = "read"
  PROVE  AfcInv'
  <1> DEFINE q == Head(afcReq[c])  k == cl[c]  f == Head(cl[c].todo)
  <1>1. Asking(c) /\ UNCHANGED <<afcUp, cl>> /\ afcReq' = [afcReq EXCEPT ![c] = Tail(@)] /\ afcRep[c] = <<>> /\ afcUp[c]
    BY Asked DEF DevServes, Asking
  <1>2. AfcTypes /\ ClientOK(c)
    BY DEF AfcInv
  <1>3. k.pc = "read" /\ q.arg = k.handle /\ k.kind = "pull" /\ k.pc \in Waits /\ k.kind \notin Puts
    BY <1>1, <1>2, AtRequest DEF ClientOK, Fits, Waits, Puts
  <1>4. PICK h \in Handle(c) :
          IF fs[h.file] = Absent \/ h.pos >= Len(fs[h.file])
          THEN (Reply(c, "end", 0) \/ Reply(c, "success", 0)) /\ UNCHANGED open
          ELSE \E n \in 1..(Len(fs[h.file]) - h.pos) :
                 /\ Reply(c, "data", SubSeq(fs[h.file], h.pos + 1, h.pos + n))
                 /\ open' = [open EXCEPT ![c] = (@ \ {h}) \cup {[h EXCEPT !.pos = @ + n]}]
    BY DEF DevServes, DevRead, DevWrite
  <1>5. UNCHANGED <<fs, dirThere, intact>>
    BY DEF DevServes, DevRead, DevWrite
  <1>6. h \in open[c] /\ h.id = k.handle /\ h \in OpenFile /\ h.file \in Files /\ h.pos \in Nat /\ fs[h.file] \in Seq(Stuff)
    BY <1>2, <1>3 DEF Handle, AfcTypes, OpenFile
  <1>7. f \in intact[c] =>
          /\ k.base = fs[f] /\ fs[f] # Absent /\ h.file = f /\ h.pos <= Len(k.base) /\ k.buf = SubSeq(k.base, 1, h.pos)
    BY <1>1, <1>2, <1>3, <1>6 DEF ClientOK, Pulling
  <1>8. \A g \in open[c] : g.id = k.handle => g = h
    BY <1>2, <1>6 DEF ClientOK, Handles
  <1>9. Held(c) = {k.handle} /\ Held(c)' = {k.handle}
    BY <1>1, <1>3 DEF Held
  <1>10. Pushing(c)'
    BY <1>1, <1>3 DEF Pushing
  <1>11. CASE fs[h.file] = Absent \/ h.pos >= Len(fs[h.file])
    <2>1. PICK op \in {"end", "success"} : Reply(c, op, 0) /\ open' = open
      BY <1>4, <1>11
    <2>2. PICK p : Given(c, op, 0, p)
      BY <1>1, <2>1, Replies
    <2>3. p.op = op /\ p.num = k.num /\ afcReq'[c] = <<>> /\ afcRep'[c] # <<>> /\ Head(afcRep'[c]) = p
      BY <2>2 DEF Given
    <2>4. DevFrame(c, p) /\ DevTypes
      BY <1>1, <1>2, <1>5, <2>1, <2>2 DEF DevFrame, DevTypes, Given, AfcTypes
    <2>5. RepFits(k, p)
      BY <1>3, <2>1, <2>3 DEF RepFits
    <2>6. Handles(c)'
      BY <1>1, <1>2, <1>9, <2>1, <2>3 DEF ClientOK, Handles
    <2>7. f \in intact[c] => k.buf = k.base
      <3> SUFFICES ASSUME f \in intact[c] PROVE k.buf = k.base
        OBVIOUS
      <3>1. k.base = fs[h.file] /\ h.pos <= Len(k.base) /\ k.buf = SubSeq(k.base, 1, h.pos) /\ fs[h.file] # Absent
        BY <1>7
      <3>2. h.pos >= Len(k.base) /\ k.base \in Seq(Stuff)
        BY <1>6, <1>11, <3>1
      <3>3. h.pos \in 0..Len(k.base)
        BY <1>6, <3>1, <3>2
      <3> QED BY <3>1, <3>2, <3>3, Beginning
    <2>8. Pulling(c)'
      BY <1>1, <1>2, <1>3, <1>5, <2>1, <2>3, <2>7 DEF ClientOK, Pulling, Answered
    <2> QED BY <1>3, <1>10, <2>4, <2>5, <2>6, <2>8, DevStep
  <1>12. CASE ~(fs[h.file] = Absent \/ h.pos >= Len(fs[h.file]))
    <2>1. PICK n \in 1..(Len(fs[h.file]) - h.pos) :
            /\ Reply(c, "data", SubSeq(fs[h.file], h.pos + 1, h.pos + n))
            /\ open' = [open EXCEPT ![c] = (@ \ {h}) \cup {[h EXCEPT !.pos = @ + n]}]
      BY <1>4, <1>12
    <2>2. PICK val : val = SubSeq(fs[h.file], h.pos + 1, h.pos + n)
      OBVIOUS
    <2>3. PICK h1 : h1 = [h EXCEPT !.pos = @ + n]
      OBVIOUS
    <2>4. h1 \in OpenFile /\ h1.id = k.handle /\ h1.file = h.file /\ h1.pos = h.pos + n /\ h1.pos <= Len(fs[h.file])
      <3>1. h.pos + n \in Nat /\ h.pos + n <= Len(fs[h.file])
        BY <1>6
      <3> QED BY <1>6, <2>3, <3>1 DEF OpenFile
    <2>5. val \in Seq(Stuff) /\ SubSeq(fs[h.file], 1, h.pos) \o val = SubSeq(fs[h.file], 1, h.pos + n)
      <3>1. h.pos \in 0..Len(fs[h.file])
        BY <1>6, <1>12
      <3> QED BY <1>6, <2>2, <3>1, Beginning
    <2>6. PICK p : Given(c, "data", val, p)
      BY <1>1, <2>1, <2>2, Replies
    <2>7. p.op = "data" /\ p.val = val /\ p.num = k.num /\ afcReq'[c] = <<>> /\ afcRep'[c] # <<>> /\ Head(afcRep'[c]) = p
      BY <2>6 DEF Given
    <2>8. /\ open'[c] = (open[c] \ {h}) \cup {h1} /\ open' \in [AfcClients -> SUBSET OpenFile]
          /\ \A d \in AfcClients : d # c => open'[d] = open[d]
      BY <1>2, <2>1, <2>3, <2>4 DEF AfcTypes
    <2>9. DevFrame(c, p) /\ DevTypes
      BY <1>1, <1>2, <1>5, <2>6, <2>8 DEF DevFrame, DevTypes, Given, AfcTypes
    <2>10. RepFits(k, p)
      BY <1>3, <2>5, <2>7 DEF RepFits
    <2>11. \A g \in open'[c] : g.id = k.handle => g = h1
      BY <1>8, <2>8
    <2>12. Handles(c)'
      <3>1. \A g \in open'[c] : /\ g.id \in k.freed \cup k.leaked \cup {k.handle} /\ g.id <= k.num
                                /\ \A e \in open'[c] : e.id = g.id => e = g
        BY <1>2, <1>6, <1>9, <2>4, <2>8, <2>11 DEF ClientOK, Handles
      <3> QED BY <1>1, <1>9, <2>7, <3>1 DEF Handles
    <2>13. f \in intact[c] => /\ k.base = fs[f] /\ fs[f] # Absent /\ h1.file = f /\ h1.pos <= Len(k.base)
                              /\ k.buf \o val = SubSeq(k.base, 1, h1.pos)
      <3> SUFFICES ASSUME f \in intact[c]
                   PROVE  /\ k.base = fs[f] /\ fs[f] # Absent /\ h1.file = f /\ h1.pos <= Len(k.base)
                          /\ k.buf \o val = SubSeq(k.base, 1, h1.pos)
        OBVIOUS
      <3>1. k.base = fs[h.file] /\ k.base = fs[f] /\ fs[f] # Absent /\ h.file = f /\ k.buf = SubSeq(k.base, 1, h.pos)
        BY <1>7
      <3>2. k.buf \o val = SubSeq(k.base, 1, h1.pos)
        BY ONLY <2>4, <2>5, <3>1, Zenon
      <3> QED BY <2>4, <3>1, <3>2
    <2>14. Pulling(c)'
      BY <1>1, <1>3, <1>5, <2>7, <2>11, <2>13 DEF Pulling, Answered
    <2> QED BY <1>3, <1>10, <2>9, <2>10, <2>12, <2>14, DevStep
  <1> QED BY <1>11, <1>12

LEMMA WriteServed ==
  ASSUME AfcInv, NEW c \in AfcClients, DevServes(c), UNCHANGED proxyVars, Head(afcReq[c]).op = "write"
  PROVE  AfcInv'
  <1> DEFINE q == Head(afcReq[c])  k == cl[c]  f == Head(cl[c].todo)
  <1>1. Asking(c) /\ UNCHANGED <<afcUp, cl>> /\ afcReq' = [afcReq EXCEPT ![c] = Tail(@)] /\ afcRep[c] = <<>> /\ afcUp[c]
    BY Asked DEF DevServes, Asking
  <1>2. AfcTypes /\ ClientOK(c)
    BY DEF AfcInv
  <1>3. k.pc = "write" /\ q.arg = k.handle /\ k.kind \in Puts /\ k.pc \in Waits /\ k.kind # "pull"
    BY <1>1, <1>2, AtRequest DEF ClientOK, Fits, Waits, Puts
  <1>4. Reply(c, "success", 0) /\ UNCHANGED <<dirThere, open>>
    BY DEF DevServes, DevRead, DevWrite
  <1>5. PICK h \in Handle(c) : /\ fs' = [fs EXCEPT ![h.file] = IF @ = Absent THEN @ ELSE Append(@, Text(c)[Len(cl[c].buf)])]
                               /\ Disturb(c, h.file)
    BY DEF DevServes, DevRead, DevWrite
  <1>6. h \in open[c] /\ h.id = k.handle /\ h.file \in Files /\ fs[h.file] \in Seq(Stuff)
    BY <1>2, <1>3 DEF Handle, AfcTypes, OpenFile
  <1>7. /\ Len(k.buf) \in 1..NChunks /\ h.file = f /\ \A g \in open[c] : g.id = k.handle => g.file = f
        /\ f \in intact[c] => fs[f] = SubSeq(Text(c), 1, Len(k.buf) - 1)
        /\ \A g \in intact[c] : fs[g] = Text(c) \/ g = f
    BY <1>1, <1>2, <1>3, <1>6 DEF ClientOK, Pushing
  <1>8. Text(c) \in Seq(Stuff) /\ Len(Text(c)) = NChunks /\ NChunks \in Nat /\ Text(c)[Len(k.buf)] \in Stuff
    BY <1>7, TextFacts, AfcAssumption
  <1>9. PICK now : now = IF fs[f] = Absent THEN fs[f] ELSE Append(fs[f], Text(c)[Len(k.buf)])
    OBVIOUS
  <1>10. now \in Seq(Stuff)
    BY <1>6, <1>7, <1>8, <1>9
  <1>11. fs' = [fs EXCEPT ![f] = now] /\ f \in Files
    BY <1>5, <1>6, <1>7, <1>9
  <1>12. f \in intact[c] => now = SubSeq(Text(c), 1, Len(k.buf))
    <2> SUFFICES ASSUME f \in intact[c] PROVE now = SubSeq(Text(c), 1, Len(k.buf))
      OBVIOUS
    <2>0. Len(k.buf) - 1 \in 0..NChunks
      BY <1>7, <1>8
    <2>1. PICK m \in 0..NChunks : m = Len(k.buf) - 1
      BY <2>0
    <2>2. fs[f] = SubSeq(Text(c), 1, m) /\ SubSeq(Text(c), 1, m) # Absent
      BY <1>7, <2>1, NotAbsent
    <2>3. now = Append(SubSeq(Text(c), 1, m), Text(c)[Len(k.buf)])
      BY ONLY <1>9, <2>2
    <2>4. Append(SubSeq(Text(c), 1, Len(k.buf) - 1), Text(c)[Len(k.buf)]) = SubSeq(Text(c), 1, Len(k.buf))
      <3>1. Len(k.buf) \in 0..Len(Text(c)) /\ Len(k.buf) > 0
        BY <1>7, <1>8
      <3> QED BY <1>8, <3>1, Beginning
    <2> QED BY <2>1, <2>3, <2>4
  <1>13. /\ fs'[f] = now /\ (\A g \in Files : g # f => fs'[g] = fs[g])
         /\ fs' \in [Files -> Seq(Stuff)]
    BY <1>2, <1>10, <1>11 DEF AfcTypes
  <1>14. /\ intact'[c] = intact[c] /\ (\A d \in AfcClients : d # c => intact'[d] = intact[d] \ {f})
         /\ intact' \in [AfcClients -> SUBSET Files] /\ \A d \in AfcClients : intact[d] \subseteq Files
    BY <1>2, <1>5, <1>7 DEF Disturb, AfcTypes
  <1>15. PICK p : Given(c, "success", 0, p)
    BY <1>1, <1>4, Replies
  <1>16. p.op = "success" /\ p.num = k.num /\ afcReq'[c] = <<>> /\ afcRep'[c] # <<>> /\ Head(afcRep'[c]) = p
    BY <1>15 DEF Given
  <1>17. DevFrame(c, p) /\ DevTypes
    BY <1>1, <1>2, <1>4, <1>13, <1>14, <1>15 DEF DevFrame, DevTypes, Given, AfcTypes
  <1>18. RepFits(k, p)
    BY <1>3, <1>16 DEF RepFits
  <1>19. Held(c)' = Held(c)
    BY <1>1, <1>3 DEF Held
  <1>20. Handles(c)'
    BY <1>1, <1>2, <1>4, <1>16, <1>19 DEF ClientOK, Handles
  <1>21. Pulling(c)'
    BY <1>1, <1>3 DEF Pulling
  <1>22. Pushing(c)'
    <2>1. AtHand(c)'
      BY <1>1, <1>3 DEF AtHand
    <2>2. \A g \in intact'[c] : fs'[g] = Text(c) \/ g = f
      BY <1>7, <1>13, <1>14
    <2>3. Text(c)' = Text(c)
      BY DEF Text, Piece
    <2> QED BY <1>1, <1>3, <1>4, <1>7, <1>12, <1>13, <1>14, <1>16, <2>1, <2>2, <2>3 DEF Pushing
  <1> QED BY <1>3, <1>17, <1>18, <1>20, <1>21, <1>22, DevStep

LEMMA DevServesOK ==
  ASSUME AfcInv, NEW c \in AfcClients, DevServes(c), UNCHANGED proxyVars
  PROVE  AfcInv'
  <1>1. Head(afcReq[c]).op \in {"stat", "list", "mkdir", "close", "remove", "rename", "link", "openR", "openW", "read", "write"}
    BY DEF DevServes, DevRead, DevWrite
  <1> QED BY <1>1, PlainServed, OpenedToRead, OpenedToWrite, ReadServed, WriteServed

-----------------------------------------------------------------------------
(* The installation proxy.                                                 *)

\* A step at the proxy leaves the files, and the connection to them, alone; k
\* is the client after it.
ProxyFrame(c, k) ==
  /\ UNCHANGED <<fs, dirThere, open, afcReq, afcRep, afcUp, intact>>
  /\ cl' = [cl EXCEPT ![c] = k] /\ k \in Client
  /\ k.kind = cl[c].kind /\ k.path = cl[c].path /\ k.num = cl[c].num /\ k.freed = cl[c].freed /\ k.leaked = cl[c].leaked
  /\ cl[c].pc \in {"staged", "await"} /\ k.pc \in {"await", "done", "failed"}
  /\ task' \in [AfcClients -> Kinds \cup {"none"}] /\ status' \in [AfcClients -> Seq(Stuff)] /\ DOMAIN app' = AfcClients
  /\ \A d \in AfcClients : d # c => task'[d] = task[d] /\ status'[d] = status[d] /\ app'[d] = app[d]

LEMMA ProxyStep ==
  ASSUME AfcInv, NEW c \in AfcClients, NEW k, ProxyFrame(c, k), Proxying(c)'
  PROVE  AfcInv'
  <1>0. AfcTypes /\ ClientOK(c) /\ cl[c].pc \notin Waits
    BY DEF AfcInv, ProxyFrame, Waits
  <1>1. afcReq[c] = <<>> /\ afcRep[c] = <<>> /\ Held(c) = {}
    BY <1>0, Quiet
  <1>2. AfcTypes'
    BY <1>0 DEF AfcTypes, ProxyFrame
  <1>3. cl'[c] = k /\ (\A d \in AfcClients : d # c => cl'[d] = cl[d])
        /\ UNCHANGED <<fs, open, afcReq, afcRep, afcUp, intact>>
    BY <1>0 DEF ProxyFrame, AfcTypes
  <1>4. ASSUME NEW d \in AfcClients, d # c PROVE ClientOK(d)'
    BY <1>3, <1>4, OtherClient DEF AfcInv, ProxyFrame
  <1>5. k.pc \in {"await", "done", "failed"} /\ k.kind \in {"install", "uninstall", "browse"}
    BY <1>0 DEF ClientOK, Fits, ProxyFrame
  <1>6. Turn(c)' /\ Fits(cl[c])'
    BY <1>1, <1>3, <1>5 DEF Turn, Fits, Waits
  <1>7. Handles(c)'
    <2>1. Held(c)' = {}
      BY <1>1, <1>3, <1>5 DEF Held, Granted
    <2> QED BY <1>0, <1>1, <1>3, <2>1 DEF ClientOK, Handles, ProxyFrame
  <1>8. Pulling(c)'
    BY <1>3, <1>5 DEF Pulling
  <1>9. Pushing(c)'
    BY <1>0, <1>3, <1>5 DEF ClientOK, Pushing, AtHand, ProxyFrame
  <1> QED BY <1>2, <1>4, <1>6, <1>7, <1>8, <1>9 DEF AfcInv, ClientOK

LEMMA ProxyConnectOK ==
  ASSUME AfcInv, NEW c \in AfcClients, ProxyConnect(c), UNCHANGED <<fs, dirThere, open, afcReq, afcRep, afcUp, intact>>
  PROVE  AfcInv'
  <1>0. AfcTypes /\ ClientOK(c) /\ cl[c] \in Client /\ cl[c].pc = "staged" /\ UNCHANGED <<status, app>>
    BY DEF AfcInv, AfcTypes, ProxyConnect
  <1>1. task[c] = "none" /\ status[c] = <<>>
    BY <1>0 DEF ClientOK, Proxying
  <1>2. CASE cl' = [cl EXCEPT ![c].pc = "await", ![c].buf = <<>>] /\ task' = [task EXCEPT ![c] = cl[c].kind]
    <2>1. PICK k : k = [cl[c] EXCEPT !.pc = "await", !.buf = <<>>]
      OBVIOUS
    <2>2. cl' = [cl EXCEPT ![c] = k]
      BY <1>0, <1>2, <2>1 DEF AfcTypes
    <2>3. /\ k \in Client /\ k.pc = "await" /\ k.kind = cl[c].kind /\ k.path = cl[c].path /\ k.num = cl[c].num
          /\ k.freed = cl[c].freed /\ k.leaked = cl[c].leaked /\ k.kind \in Kinds \cup {"none"}
      <3>1. "await" \in Pcs /\ <<>> \in Seq(Stuff)
        BY DEF Pcs
      <3> QED BY <1>0, <2>1, <3>1 DEF Client
    <2>4. ProxyFrame(c, k)
      BY <1>0, <1>2, <2>2, <2>3 DEF ProxyFrame, AfcTypes
    <2>5. cl'[c] = k /\ status'[c] = <<>> /\ task'[c] = k.kind
      BY <1>0, <1>1, <1>2, <2>2, <2>3 DEF AfcTypes
    <2>6. Proxying(c)'
      BY <2>3, <2>5 DEF Proxying
    <2> QED BY <2>4, <2>6, ProxyStep
  <1>3. CASE cl' = [cl EXCEPT ![c].pc = "failed"] /\ UNCHANGED task
    <2>1. PICK k : k = [cl[c] EXCEPT !.pc = "failed"]
      OBVIOUS
    <2>2. cl' = [cl EXCEPT ![c] = k]
      BY <1>0, <1>3, <2>1 DEF AfcTypes
    <2>3. "failed" \in Pcs
      BY DEF Pcs, Over
    <2>4. /\ k \in Client /\ k.pc = "failed" /\ k.kind = cl[c].kind /\ k.path = cl[c].path /\ k.num = cl[c].num
          /\ k.freed = cl[c].freed /\ k.leaked = cl[c].leaked
      BY <1>0, <2>1, <2>3, At
    <2>5. ProxyFrame(c, k)
      BY <1>0, <1>3, <2>2, <2>4 DEF ProxyFrame, AfcTypes
    <2>6. cl'[c] = k /\ status'[c] = <<>> /\ task'[c] = "none"
      BY <1>0, <1>1, <1>3, <2>2 DEF AfcTypes
    <2>7. Proxying(c)'
      BY <2>4, <2>6 DEF Proxying
    <2> QED BY <2>5, <2>7, ProxyStep
  <1> QED BY <1>2, <1>3 DEF ProxyConnect

\* A message that is read: all before the last are news, and the last ends it.
News(c) == IF cl[c].kind = "browse" THEN "Part" ELSE "Progress"
LEMMA Telling ==
  ASSUME AfcInv, NEW c \in AfcClients, NEW kinds, Told(c, kinds)
  PROVE  LET s == status[c]  t == Tail(status[c]) IN
         /\ AfcTypes /\ ClientOK(c) /\ cl[c] \in Client /\ cl[c].pc = "await" /\ cl[c].kind \in kinds
         /\ UNCHANGED <<task, app>> /\ s \in Seq(Stuff) /\ s # <<>> /\ t \in Seq(Stuff) /\ task[c] \in {"none", cl[c].kind}
         /\ status'[c] = t /\ status' \in [AfcClients -> Seq(Stuff)] /\ (\A d \in AfcClients : d # c => status'[d] = status[d])
         /\ Said(c) # News(c) => Said(c) = s[Len(s)] /\ Len(s) = 1 /\ task[c] = "none" /\ t = <<>>
         /\ \A i \in DOMAIN t : t[i] = News(c) \/ (task[c] = "none" /\ i = Len(t))
         /\ t # <<>> => t[Len(t)] = s[Len(s)] /\ Len(s) >= 2
  <1> DEFINE s == status[c]  t == Tail(status[c])
  <1>1. /\ AfcTypes /\ ClientOK(c) /\ cl[c] \in Client /\ cl[c].pc = "await" /\ cl[c].kind \in kinds
        /\ UNCHANGED <<task, app>> /\ s \in Seq(Stuff) /\ s # <<>> /\ status' = [status EXCEPT ![c] = Tail(@)]
    BY DEF AfcInv, AfcTypes, Told
  <1>2. /\ t \in Seq(Stuff) /\ Len(t) = Len(s) - 1 /\ Len(s) \in Nat \ {0} /\ Head(s) = s[1]
        /\ (\A i \in 1..Len(t) : t[i] = s[i + 1]) /\ (t = <<>> <=> Len(s) = 1)
    BY <1>1, FirstRead
  <1>3. /\ status'[c] = t /\ status' \in [AfcClients -> Seq(Stuff)]
        /\ \A d \in AfcClients : d # c => status'[d] = status[d]
    BY <1>1, <1>2 DEF AfcTypes
  <1>4. /\ task[c] \in {"none", cl[c].kind}
        /\ \A i \in DOMAIN s : s[i] = News(c) \/ (task[c] = "none" /\ i = Len(s))
    BY <1>1 DEF ClientOK, Proxying, News
  <1> HIDE DEF t
  <1>5. DOMAIN s = 1..Len(s) /\ DOMAIN t = 1..Len(t)
    BY <1>1, <1>2
  <1>6. Said(c) = s[1]
    BY <1>2 DEF Said
  <1>7. Said(c) # News(c) => Said(c) = s[Len(s)] /\ Len(s) = 1 /\ task[c] = "none" /\ t = <<>>
    BY <1>2, <1>4, <1>5, <1>6
  <1>8. ASSUME NEW i \in DOMAIN t PROVE t[i] = News(c) \/ (task[c] = "none" /\ i = Len(t))
    <2>1. i + 1 \in DOMAIN s /\ t[i] = s[i + 1] /\ (i + 1 = Len(s) => i = Len(t))
      BY <1>2, <1>5
    <2> QED BY <1>4, <2>1
  <1>9. t # <<>> => t[Len(t)] = s[Len(s)] /\ Len(s) >= 2
    BY <1>2
  <1> QED BY <1>1, <1>2, <1>3, <1>4, <1>7, <1>8, <1>9 DEF t

LEMMA AwaitCompleteOK ==
  ASSUME AfcInv, NEW c \in AfcClients, AwaitComplete(c), UNCHANGED <<fs, dirThere, open, afcReq, afcRep, afcUp, intact>>
  PROVE  AfcInv'
  <1> DEFINE s == status[c]  t == Tail(status[c])
  <1>1. /\ AfcTypes /\ ClientOK(c) /\ cl[c] \in Client /\ cl[c].pc = "await" /\ cl[c].kind \in {"install", "uninstall"}
        /\ UNCHANGED <<task, app>> /\ s \in Seq(Stuff) /\ s # <<>> /\ t \in Seq(Stuff) /\ task[c] \in {"none", cl[c].kind}
        /\ status'[c] = t /\ status' \in [AfcClients -> Seq(Stuff)] /\ (\A d \in AfcClients : d # c => status'[d] = status[d])
        /\ Said(c) # News(c) => Said(c) = s[Len(s)] /\ Len(s) = 1 /\ task[c] = "none" /\ t = <<>>
        /\ \A i \in DOMAIN t : t[i] = News(c) \/ (task[c] = "none" /\ i = Len(t))
        /\ t # <<>> => t[Len(t)] = s[Len(s)] /\ Len(s) >= 2
    BY Telling DEF AwaitComplete
  <1> HIDE DEF t
  <1>2. News(c) = "Progress"
    BY <1>1 DEF News
  <1>3. PICK pc \in {"done", "failed", "await"} :
          /\ cl' = [cl EXCEPT ![c].pc = pc]
          /\ pc = "done" => Said(c) = "Complete"
          /\ pc = "failed" => Said(c) \in {"Error", "Bare", "closed"}
    BY DEF AwaitComplete
  <1>4. PICK k : k = [cl[c] EXCEPT !.pc = pc]
    OBVIOUS
  <1>5. cl' = [cl EXCEPT ![c] = k]
    BY <1>1, <1>3, <1>4 DEF AfcTypes
  <1>6. pc \in Pcs
    BY DEF Pcs, Over
  <1>7. /\ k \in Client /\ k.pc = pc /\ k.kind = cl[c].kind /\ k.path = cl[c].path /\ k.num = cl[c].num
        /\ k.freed = cl[c].freed /\ k.leaked = cl[c].leaked
    BY <1>1, <1>4, <1>6, At
  <1>8. ProxyFrame(c, k)
    BY <1>1, <1>5, <1>7 DEF ProxyFrame, AfcTypes
  <1>9. cl'[c] = k
    BY <1>1, <1>5 DEF AfcTypes
  <1>10. pc # "await" => task[c] = "none" /\ t = <<>> /\ Said(c) = s[Len(s)]
    BY <1>1, <1>2, <1>3
  <1>11. /\ k.kind = "install" /\ s[Len(s)] = "Complete" /\ k.path \in intact[c] => app[c] = Text(c)
    BY <1>1, <1>7 DEF ClientOK, Proxying
  <1>12. Text(c)' = Text(c)
    BY DEF Text, Piece
  <1>13. Proxying(c)'
    <2>1. CASE pc = "await"
      <3>1. k.pc = "await" /\ k.kind # "browse" /\ task'[c] \in {"none", k.kind}
        BY <1>1, <1>7, <2>1
      <3>2. k.kind = "install" /\ t # <<>> /\ t[Len(t)] = "Complete" => (k.path \in intact'[c] => app'[c] = Text(c))
        BY <1>1, <1>11
      <3> QED BY <1>1, <1>2, <1>9, <1>12, <3>1, <3>2 DEF Proxying
    <2>2. CASE pc # "await"
      <3>1. k.pc # "await" /\ k.kind # "browse" /\ task'[c] = "none" /\ status'[c] = <<>>
        BY <1>1, <1>7, <1>10, <2>2
      <3>2. k.pc = "done" /\ k.kind = "install" /\ k.path \in intact'[c] => app'[c] = Text(c)
        BY <1>1, <1>3, <1>7, <1>10, <1>11
      <3> QED BY <1>9, <1>12, <3>1, <3>2 DEF Proxying
    <2> QED BY <2>1, <2>2
  <1> QED BY <1>8, <1>13, ProxyStep

LEMMA ListAppsOK ==
  ASSUME AfcInv, NEW c \in AfcClients, ListApps(c), UNCHANGED <<fs, dirThere, open, afcReq, afcRep, afcUp, intact>>
  PROVE  AfcInv'
  <1> DEFINE s == status[c]  t == Tail(status[c])
  <1>1. /\ AfcTypes /\ ClientOK(c) /\ cl[c] \in Client /\ cl[c].pc = "await" /\ cl[c].kind \in {"browse"}
        /\ UNCHANGED <<task, app>> /\ s \in Seq(Stuff) /\ s # <<>> /\ t \in Seq(Stuff) /\ task[c] \in {"none", cl[c].kind}
        /\ status'[c] = t /\ status' \in [AfcClients -> Seq(Stuff)] /\ (\A d \in AfcClients : d # c => status'[d] = status[d])
        /\ Said(c) # News(c) => Said(c) = s[Len(s)] /\ Len(s) = 1 /\ task[c] = "none" /\ t = <<>>
        /\ \A i \in DOMAIN t : t[i] = News(c) \/ (task[c] = "none" /\ i = Len(t))
        /\ t # <<>> => t[Len(t)] = s[Len(s)] /\ Len(s) >= 2
    BY Telling DEF ListApps
  <1> HIDE DEF t
  <1>2. News(c) = "Part"
    BY <1>1 DEF News
  <1>3. PICK more : more = IF Said(c) = "Part" THEN Append(cl[c].buf, "Part") ELSE cl[c].buf
    OBVIOUS
  <1>4. PICK pc \in {"done", "failed", "await"} :
          /\ cl' = [cl EXCEPT ![c].pc = pc, ![c].buf = IF Said(c) = "Part" THEN Append(@, "Part") ELSE @]
          /\ pc = "done" => Said(c) \in {"Complete", "Bare"}
          /\ pc = "failed" => Said(c) \in {"Error", "closed"}
    BY DEF ListApps
  <1>5. PICK k : k = [cl[c] EXCEPT !.pc = pc, !.buf = more]
    OBVIOUS
  <1>6. cl' = [cl EXCEPT ![c] = k]
    BY <1>1, <1>3, <1>4, <1>5 DEF AfcTypes
  <1>7. cl[c].buf \in Seq(Stuff) /\ "Part" \in Stuff
    BY <1>1, StuffFacts DEF Client
  <1>8. more \in Seq(Stuff) /\ pc \in Pcs
    BY <1>3, <1>7 DEF Pcs, Over
  <1>9. /\ k \in Client /\ k.pc = pc /\ k.kind = "browse" /\ k.path = cl[c].path /\ k.num = cl[c].num
        /\ k.freed = cl[c].freed /\ k.leaked = cl[c].leaked /\ k.buf = more
    BY <1>1, <1>5, <1>8 DEF Client
  <1>10. ProxyFrame(c, k)
    BY <1>1, <1>6, <1>9 DEF ProxyFrame, AfcTypes
  <1>11. cl'[c] = k
    BY <1>1, <1>6 DEF AfcTypes
  <1>12. s[Len(s)] \in {"Complete", "Bare"} => app[c] = cl[c].buf \o SubSeq(s, 1, Len(s) - 1)
    BY <1>1 DEF ClientOK, Proxying
  <1>13. Proxying(c)'
    <2>1. CASE pc = "await"
      <3>1. t # <<>> /\ t[Len(t)] \in {"Complete", "Bare"} => app[c] = more \o SubSeq(t, 1, Len(t) - 1)
        <4> SUFFICES ASSUME t # <<>>, t[Len(t)] \in {"Complete", "Bare"}
                     PROVE  app[c] = more \o SubSeq(t, 1, Len(t) - 1)
          OBVIOUS
        <4>1. Said(c) = "Part" /\ Len(s) >= 2 /\ app[c] = cl[c].buf \o SubSeq(s, 1, Len(s) - 1)
          BY <1>1, <1>2, <1>12
        <4>2. more = Append(cl[c].buf, Head(s))
          BY <1>3, <4>1 DEF Said
        <4>3. Append(cl[c].buf, Head(s)) \o SubSeq(Tail(s), 1, Len(Tail(s)) - 1) = cl[c].buf \o SubSeq(s, 1, Len(s) - 1)
          <5>1. s \in Seq(Stuff) /\ Len(s) >= 2
            BY <1>1, <4>1
          <5> HIDE DEF s
          <5> QED BY ONLY <1>7, <5>1, Collected
        <4> QED BY <4>1, <4>2, <4>3 DEF t
      <3>2. k.pc = "await" /\ k.kind = "browse" /\ task'[c] \in {"none", k.kind}
        BY <1>1, <1>9, <2>1
      <3> QED BY <1>1, <1>2, <1>9, <1>11, <3>1, <3>2 DEF Proxying
    <2>2. CASE pc # "await"
      <3>1. Said(c) # "Part" /\ Said(c) = s[Len(s)] /\ Len(s) = 1 /\ task[c] = "none" /\ t = <<>> /\ more = cl[c].buf
        BY <1>1, <1>2, <1>3, <1>4, <2>2
      <3>2. pc = "done" => app[c] = more
        <4> SUFFICES ASSUME pc = "done" PROVE app[c] = more
          OBVIOUS
        <4>1. app[c] = cl[c].buf \o SubSeq(s, 1, Len(s) - 1)
          BY <1>4, <1>12, <3>1
        <4>2. SubSeq(s, 1, Len(s) - 1) = <<>>
          BY <1>1, <3>1
        <4>3. cl[c].buf \o <<>> = cl[c].buf
          BY <1>7
        <4> QED BY ONLY <3>1, <4>1, <4>2, <4>3, Zenon
      <3>3. k.pc # "await" /\ k.kind = "browse" /\ task'[c] = "none" /\ status'[c] = <<>>
        BY <1>1, <1>9, <2>2, <3>1
      <3> QED BY <1>1, <1>9, <1>11, <3>2, <3>3 DEF Proxying
    <2> QED BY <2>1, <2>2
  <1> QED BY <1>10, <1>13, ProxyStep

\* The proxy adds a message.
LEMMA Saying ==
  ASSUME AfcInv, NEW c \in AfcClients, NEW x \in Stuff, task[c] # "none", status' = [status EXCEPT ![c] = Append(@, x)],
         UNCHANGED cl
  PROVE  LET s == status[c]  t == status'[c] IN
         /\ AfcTypes /\ ClientOK(c) /\ cl[c] \in Client /\ cl[c].pc = "await" /\ task[c] = cl[c].kind /\ s \in Seq(Stuff)
         /\ status' \in [AfcClients -> Seq(Stuff)] /\ (\A d \in AfcClients : d # c => status'[d] = status[d])
         /\ t # <<>> /\ t[Len(t)] = x /\ SubSeq(t, 1, Len(t) - 1) = s
         /\ \A i \in DOMAIN t : t[i] = News(c) \/ (t[i] = x /\ i = Len(t))
         /\ cl' = [cl EXCEPT ![c] = cl[c]]
  <1> DEFINE s == status[c]  t == Append(status[c], x)
  <1>1. AfcTypes /\ ClientOK(c) /\ cl[c] \in Client /\ s \in Seq(Stuff)
    BY DEF AfcInv, AfcTypes
  <1>2. cl[c].pc = "await" /\ task[c] = cl[c].kind /\ \A i \in DOMAIN s : s[i] = News(c)
    BY <1>1 DEF ClientOK, Proxying, News
  <1>3. /\ t \in Seq(Stuff) /\ t # <<>> /\ Len(t) = Len(s) + 1 /\ t[Len(t)] = x /\ Len(s) \in Nat
        /\ (\A i \in 1..Len(s) : t[i] = s[i]) /\ SubSeq(t, 1, Len(t) - 1) = s
    BY <1>1, OneMore
  <1>4. /\ status'[c] = t /\ status' \in [AfcClients -> Seq(Stuff)]
        /\ \A d \in AfcClients : d # c => status'[d] = status[d]
    BY <1>1, <1>3 DEF AfcTypes
  <1> HIDE DEF t
  <1>5. DOMAIN s = 1..Len(s) /\ DOMAIN t = 1..Len(t)
    BY <1>1, <1>3
  <1>6. \A i \in DOMAIN t : t[i] = News(c) \/ (t[i] = x /\ i = Len(t))
    BY <1>2, <1>3, <1>5
  <1>7. cl' = [cl EXCEPT ![c] = cl[c]]
    BY <1>1 DEF AfcTypes
  <1> QED BY <1>1, <1>2, <1>3, <1>4, <1>6, <1>7

\* What a step of the proxy leaves to show.
LEMMA SaidOK ==
  ASSUME AfcInv, NEW c \in AfcClients, NEW x \in Stuff, task[c] # "none", status' = [status EXCEPT ![c] = Append(@, x)],
         UNCHANGED cl, UNCHANGED <<fs, dirThere, open, afcReq, afcRep, afcUp, intact>>,
         task' = task \/ task' = [task EXCEPT ![c] = "none"], x # News(c) => task'[c] = "none",
         DOMAIN app' = AfcClients, \A d \in AfcClients : d # c => app'[d] = app[d],
         task[c] = "browse" /\ x \in {"Complete", "Bare"} => app'[c] = cl[c].buf \o status[c],
         task[c] = "install" /\ x = "Complete" => (cl[c].path \in intact[c] => app'[c] = Text(c))
  PROVE  AfcInv'
  <1> DEFINE s == status[c]  t == status'[c]
  <1>1. /\ AfcTypes /\ ClientOK(c) /\ cl[c] \in Client /\ cl[c].pc = "await" /\ task[c] = cl[c].kind /\ s \in Seq(Stuff)
        /\ status' \in [AfcClients -> Seq(Stuff)] /\ (\A d \in AfcClients : d # c => status'[d] = status[d])
        /\ t # <<>> /\ t[Len(t)] = x /\ SubSeq(t, 1, Len(t) - 1) = s
        /\ \A i \in DOMAIN t : t[i] = News(c) \/ (t[i] = x /\ i = Len(t))
        /\ cl' = [cl EXCEPT ![c] = cl[c]]
    BY Saying
  <1>2. task' \in [AfcClients -> Kinds \cup {"none"}] /\ task'[c] \in {"none", cl[c].kind}
        /\ \A d \in AfcClients : d # c => task'[d] = task[d]
    <2>1. task \in [AfcClients -> Kinds \cup {"none"}]
      BY <1>1 DEF AfcTypes
    <2>2. CASE task' = task
      BY <1>1, <2>1, <2>2
    <2>3. CASE task' = [task EXCEPT ![c] = "none"]
      BY <2>1, <2>3
    <2> QED BY <2>2, <2>3
  <1>3. ProxyFrame(c, cl[c])
    BY <1>1, <1>2 DEF ProxyFrame
  <1>4. \A i \in DOMAIN t : t[i] = News(c) \/ (task'[c] = "none" /\ i = Len(t))
    BY <1>1
  <1>5. Text(c)' = Text(c)
    BY DEF Text, Piece
  <1>6. cl[c].kind = "browse" /\ t[Len(t)] \in {"Complete", "Bare"} => app'[c] = cl[c].buf \o SubSeq(t, 1, Len(t) - 1)
    BY ONLY <1>1, task[c] = "browse" /\ x \in {"Complete", "Bare"} => app'[c] = cl[c].buf \o status[c]
  <1>7. cl[c].kind = "install" /\ t[Len(t)] = "Complete" => (cl[c].path \in intact'[c] => app'[c] = Text(c))
    BY <1>1
  <1>8. Proxying(c)'
    BY <1>1, <1>2, <1>4, <1>5, <1>6, <1>7 DEF Proxying, News
  <1> QED BY <1>3, <1>8, ProxyStep

LEMMA ProxyDeviceOK ==
  ASSUME AfcInv, NEW c \in AfcClients, ProxyWorks(c) \/ ProxyCompletes(c) \/ ProxyFails(c),
         UNCHANGED <<fs, dirThere, open, afcReq, afcRep, afcUp, intact>>
  PROVE  AfcInv'
  <1>0. AfcTypes /\ ClientOK(c) /\ task[c] # "none"
    BY DEF AfcInv, ProxyWorks, ProxyCompletes, ProxyFails
  <1>1. cl[c].pc = "await" /\ task[c] = cl[c].kind
    BY <1>0 DEF ClientOK, Proxying
  <1>2. CASE ProxyWorks(c)
    <2>1. PICK x : x = News(c)
      OBVIOUS
    <2>2. x \in Stuff /\ x \notin {"Complete", "Bare"}
      BY <2>1, StuffFacts DEF News
    <2>3. status' = [status EXCEPT ![c] = Append(@, x)]
      BY <1>1, <1>2, <2>1 DEF ProxyWorks, News
    <2> QED BY <1>0, <1>2, <2>1, <2>2, <2>3, SaidOK DEF ProxyWorks, AfcTypes
  <1>3. CASE ProxyFails(c)
    <2>1. PICK x \in {"Error", "closed", "Bare"} :
            status' = [status EXCEPT ![c] = Append(@, x)] /\ (task[c] = "browse" => x # "Bare")
      BY <1>3 DEF ProxyFails
    <2>2. x \in Stuff
      BY StuffFacts
    <2>3. UNCHANGED <<app, cl>> /\ task' = [task EXCEPT ![c] = "none"] /\ task'[c] = "none" /\ DOMAIN app = AfcClients
      BY <1>0, <1>3 DEF ProxyFails, AfcTypes
    <2> QED BY <1>0, <2>1, <2>2, <2>3, SaidOK
  <1>4. CASE ProxyCompletes(c)
    <2>1. PICK x \in {"Complete", "Bare"} : status' = [status EXCEPT ![c] = Append(@, x)]
      BY <1>4 DEF ProxyCompletes
    <2>2. x \in Stuff
      BY StuffFacts
    <2>3. UNCHANGED cl /\ task' = [task EXCEPT ![c] = "none"] /\ task'[c] = "none"
      BY <1>0, <1>4 DEF ProxyCompletes, AfcTypes
    <2>4. PICK done : done = CASE task[c] = "install" -> fs[cl[c].path]
                               [] task[c] = "browse" -> cl[c].buf \o status[c]
                               [] OTHER -> <<>>
      OBVIOUS
    <2>5. app' = [app EXCEPT ![c] = done]
      BY <1>4, <2>4 DEF ProxyCompletes
    <2>6. DOMAIN app' = AfcClients /\ app'[c] = done /\ \A d \in AfcClients : d # c => app'[d] = app[d]
      BY <1>0, <2>5 DEF AfcTypes
    <2>7. task[c] = "browse" => done = cl[c].buf \o status[c]
      BY <2>4
    <2>8. task[c] = "install" => done = fs[cl[c].path]
      BY <2>4
    <2>9. task[c] = "install" /\ cl[c].path \in intact[c] => fs[cl[c].path] = Text(c)
      BY <1>0, <1>1 DEF ClientOK, Pushing, AtHand, Puts
    <2> QED BY <1>0, <2>1, <2>2, <2>3, <2>6, <2>7, <2>8, <2>9, SaidOK
  <1> QED BY <1>2, <1>3, <1>4

-----------------------------------------------------------------------------
(* The theorems.                                                           *)

LEMMA AfcInvInit == AfcInit => AfcInv
  <1> SUFFICES ASSUME AfcInit PROVE AfcInv
    OBVIOUS
  <1>1. Idle \in Client /\ Idle.pc = "idle" /\ Idle.kind = "none"
    <2>1. "idle" \in Pcs /\ Dir \in Things /\ <<>> \in Seq(Things) /\ <<>> \in Seq(Stuff)
      BY DEF Pcs, Over, Things
    <2> QED BY <2>1 DEF Idle, Client
  <1>2. Text("dev") \in Seq(Stuff) /\ <<>> \in Seq(Stuff)
    BY TextFacts
  <1>3. AfcTypes
    BY <1>1, <1>2 DEF AfcTypes, AfcInit
  <1>4. ASSUME NEW c \in AfcClients PROVE ClientOK(c)
    <2>1. /\ afcReq[c] = <<>> /\ afcRep[c] = <<>> /\ open[c] = {} /\ intact[c] = {} /\ task[c] = "none"
          /\ status[c] = <<>> /\ cl[c].pc = "idle" /\ cl[c].kind = "none"
      BY <1>1 DEF AfcInit
    <2>2. Turn(c) /\ Handles(c)
      BY <2>1 DEF Turn, Handles
    <2>3. Fits(cl[c]) /\ Pulling(c) /\ Pushing(c) /\ Proxying(c)
      BY <2>1 DEF Fits, Waits, Pulling, Pushing, Puts, Proxying
    <2> QED BY <2>2, <2>3 DEF ClientOK
  <1> QED BY <1>3, <1>4 DEF AfcInv

LEMMA AfcInvNext == AfcInv /\ [AfcNext]_<<afcVars, proxyVars>> => AfcInv'
  <1> SUFFICES ASSUME AfcInv, [AfcNext]_<<afcVars, proxyVars>> PROVE AfcInv'
    OBVIOUS
  <1>1. CASE UNCHANGED <<afcVars, proxyVars>>
    <2>1. UNCHANGED <<fs, dirThere, open, afcReq, afcRep, afcUp, cl, intact, task, status, app>>
      BY <1>1 DEF afcVars, proxyVars
    <2>2. AfcTypes'
      BY <2>1 DEF AfcInv, AfcTypes
    <2>3. \A d \in AfcClients : ClientOK(d)'
      BY <2>1, OtherClient DEF AfcInv
    <2> QED BY <2>2, <2>3 DEF AfcInv
  <1>2. CASE AfcNext
    <2>1. PICK c \in AfcClients :
            \/ (AfcStart(c) \/ AfcClientStep(c) \/ DevServes(c) \/ DevRefuses(c) \/ DevHangsUp(c)) /\ UNCHANGED proxyVars
            \/ /\ ProxyConnect(c) \/ AwaitComplete(c) \/ ListApps(c) \/ ProxyWorks(c) \/ ProxyCompletes(c) \/ ProxyFails(c)
               /\ UNCHANGED <<fs, dirThere, open, afcReq, afcRep, afcUp, intact>>
      BY <1>2 DEF AfcNext
    <2> QED BY <2>1, StartOK, ClientStepOK, DevServesOK, DevRefusesOK, DevHangsUpOK,
               ProxyConnectOK, AwaitCompleteOK, ListAppsOK, ProxyDeviceOK
  <1> QED BY <1>1, <1>2

\* What the invariant says of the connections and of the files.
LEMMA AfcInvSafe == AfcInv => AfcSafe
  <1> SUFFICES ASSUME AfcInv, NEW c \in AfcClients
               PROVE  /\ Len(afcReq[c]) + Len(afcRep[c]) <= 1
                      /\ \A i \in DOMAIN afcRep[c] : afcRep[c][i].num = cl[c].num
                      /\ cl[c].pc \in Over =>
                           /\ afcReq[c] = <<>> /\ afcRep[c] = <<>>
                           /\ {h.id : h \in open[c]} \subseteq cl[c].freed \cup cl[c].leaked
    BY DEF AfcSafe, AfcInStep, HandlesClosed
  <1>1. Turn(c) /\ Handles(c)
    BY DEF AfcInv, ClientOK
  <1>2. ASSUME NEW x PROVE Len(<<x>>) = 1 /\ DOMAIN <<x>> = {1} /\ <<x>>[1] = x
    OBVIOUS
  <1>3. Len(<<>>) = 0 /\ DOMAIN <<>> = {}
    OBVIOUS
  <1>4. afcReq[c] = <<>> \/ Len(afcReq[c]) = 1
    BY <1>1, <1>2 DEF Turn
  <1>5. \/ afcRep[c] = <<>>
        \/ Len(afcRep[c]) = 1 /\ DOMAIN afcRep[c] = {1} /\ afcRep[c][1].num = cl[c].num
    BY <1>1, <1>2 DEF Turn, RepFits
  <1>6. Len(afcReq[c]) + Len(afcRep[c]) <= 1
    <2>1. afcReq[c] = <<>> \/ afcRep[c] = <<>>
      BY <1>1 DEF Turn
    <2>2. afcReq[c] = <<>> => Len(afcReq[c]) = 0
      BY <1>3
    <2>3. afcRep[c] = <<>> => Len(afcRep[c]) = 0
      BY <1>3
    <2>4. \/ Len(afcReq[c]) = 0 /\ Len(afcRep[c]) \in {0, 1}
          \/ Len(afcRep[c]) = 0 /\ Len(afcReq[c]) \in {0, 1}
      BY ONLY <1>4, <1>5, <2>1, <2>2, <2>3
    <2>5. \A m, n : (m = 0 /\ n \in {0, 1}) \/ (n = 0 /\ m \in {0, 1}) => m + n <= 1
      OBVIOUS
    <2> QED BY ONLY <2>4, <2>5, Zenon
  <1>7. \A i \in DOMAIN afcRep[c] : afcRep[c][i].num = cl[c].num
    BY <1>3, <1>5
  <1>8. ASSUME cl[c].pc \in Over
        PROVE  /\ afcReq[c] = <<>> /\ afcRep[c] = <<>>
               /\ {h.id : h \in open[c]} \subseteq cl[c].freed \cup cl[c].leaked
    <2>1. cl[c].pc \notin Waits
      BY <1>8 DEF Over, Waits
    <2>2. afcReq[c] = <<>> /\ afcRep[c] = <<>> /\ Held(c) = {}
      BY <2>1, Quiet
    <2> QED BY <1>1, <2>2 DEF Handles
  <1> QED BY <1>6, <1>7, <1>8

LEMMA AfcInvWhole == AfcInv => FilesWhole
  <1> SUFFICES ASSUME AfcInv PROVE FilesWhole
    OBVIOUS
  <1>1. PullWhole
    BY DEF AfcInv, ClientOK, Pulling, PullWhole
  <1>2. PushWhole
    BY DEF AfcInv, ClientOK, Pushing, AtHand, PushWhole
  <1>3. AppWhole
    BY DEF AfcInv, ClientOK, Proxying, AppWhole
  <1> QED BY <1>1, <1>2, <1>3 DEF FilesWhole

\* send_request and recv_response stay in step, whatever fails and whoever
\* hangs up, and an operation that has ended has left no handle open but those
\* the code gives up.
THEOREM ConnectionsInOrder == AfcSpec => []AfcSafe
  BY AfcInvInit, AfcInvNext, AfcInvSafe, PTL DEF AfcSpec

\* What pull_file, push_file and install report as done is the whole file, and
\* browse the whole list, whatever the sizes of the reads, the order of the
\* listings and the answers of the device, unless another client wrote to it.
THEOREM WholeFiles == AfcSpec => []FilesWhole
  BY AfcInvInit, AfcInvNext, AfcInvWhole, PTL DEF AfcSpec
=============================================================================
