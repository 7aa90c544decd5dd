--------------------------- MODULE ServiceProofs ---------------------------
(***************************************************************************)
(* Proofs about the services: a command of the single-request services     *)
(* stops at the first refusal, for any number of hosts; the image mounter  *)
(* recovers from what it left in its cache, and reports a mount only when  *)
(* there is one, for any number of processes.                              *)
(***************************************************************************)
EXTENDS PlistServices, Mounter, TLAPS

-----------------------------------------------------------------------------
(* The image mounter.                                                      *)

File == [build : Builds \cup {"none"}, whole : BOOLEAN]
Whole(b) == [build |-> b, whole |-> TRUE]
MtPcs == {"start", "read", "create", "fill", "connect", "tss", "mounted"} \cup Talking

MtTypes ==
  /\ cache \in [Parts -> File] /\ files \in [Mounters -> [Parts -> File]]
  /\ mp \in [Mounters -> MtPcs] /\ src \in [Mounters -> Builds] /\ step \in [Mounters -> 0..3]
  /\ torn \in BOOLEAN
  /\ \A m \in Fetching : step[m] \in 0..2

\* The process that fills the cache is the only one that fetches; the files it
\* has written are whole, and the trust cache, the last of them whatever their
\* source, is not there until it is being written.
WriterOK(m) ==
  /\ \A k \in Fetching : k = m
  /\ \A i \in 1..2 : i <= step[m] => /\ cache[Order[src[m]][i]] = Whole(src[m])
                                     /\ files[m][Order[src[m]][i]] = Whole(src[m])
  /\ ~(mp[m] = "fill" /\ step[m] = 2) => cache["trustcache"] = NoFile

\* A process that reads the cache has what is there.
ReaderOK(m) ==
  /\ cache["trustcache"] # NoFile
  /\ \A i \in 1..2 : i <= step[m] => files[m][Order["xcode"][i]] = cache[Order["xcode"][i]]

\* Nobody writes, and there is a trust cache: all files are whole.
CacheOK ==
  Writing = {} /\ cache["trustcache"] # NoFile => \E b \in Builds : \A p \in Parts : cache[p] = Whole(b)

MtInv ==
  /\ MtTypes
  /\ ~torn => /\ CacheOK /\ CacheRecovers
              /\ \A m \in Writing : WriterOK(m)
              /\ \A m \in Mounters : mp[m] = "read" => ReaderOK(m)

LEMMA OrderFacts ==
  /\ Order["xcode"][1] = "image" /\ Order["xcode"][2] = "manifest" /\ Order["xcode"][3] = "trustcache"
  /\ Order["github"][1] = "manifest" /\ Order["github"][2] = "image" /\ Order["github"][3] = "trustcache"
  BY DEF Order

LEMMA MtInvInit == MtInit => MtInv
  <1> SUFFICES ASSUME MtInit PROVE MtInv
    OBVIOUS
  <1>1. NoFile \in File
    BY DEF NoFile, File
  <1>2. MtTypes
    <2>1. files \in [Mounters -> [Parts -> File]] /\ cache \in [Parts -> File]
      BY <1>1 DEF MtInit
    <2>2. mp \in [Mounters -> MtPcs] /\ src \in [Mounters -> Builds] /\ step \in [Mounters -> 0..3]
      BY DEF MtInit, Builds, MtPcs
    <2> QED BY <2>1, <2>2 DEF MtInit, MtTypes, Fetching
  <1> QED BY <1>2 DEF MtInit, MtInv, Fetching, Writing, CacheOK, CacheRecovers, Fetched, Parts, Talking

\* Steps that leave the cache and its readers and writers alone.
LEMMA TalkStepInv ==
  ASSUME MtInv, NEW m \in Mounters, UNCHANGED fileVars,
         UNCHANGED mp \/ (Fetched(m) /\ \E to \in Talking \cup {"tss"} : mp' = [mp EXCEPT ![m] = to])
  PROVE  MtInv'
  <1> USE DEF MtInv
  <1>1. UNCHANGED <<cache, files, src, step, torn>>
    BY DEF fileVars
  <1>2. \A k \in Mounters : (Fetched(k)' <=> Fetched(k)) /\ (mp'[k] = mp[k] \/ (Fetched(k) /\ Fetched(k)'))
    BY DEF Fetched, MtTypes
  <1>3. Fetching' = Fetching /\ Writing' = Writing
    BY <1>2 DEF Fetching, Writing, Fetched, Talking
  <1>4. MtTypes'
    BY <1>1, <1>3 DEF MtTypes, MtPcs
  <1>5. CacheRecovers => CacheRecovers'
    BY <1>1, <1>2, ZenonT(30) DEF CacheRecovers
  <1>6. \A k \in Mounters : k \in Writing \/ mp'[k] = "read" => mp'[k] = mp[k]
    BY <1>2 DEF Fetched, Writing, Talking
  <1>7. CacheOK => CacheOK'
    BY <1>1, <1>3 DEF CacheOK
  <1>8. ASSUME NEW k \in Writing, WriterOK(k) PROVE WriterOK(k)'
    BY <1>1, <1>3, <1>6, <1>8 DEF WriterOK, Writing
  <1>9. ASSUME NEW k \in Mounters, ReaderOK(k) PROVE ReaderOK(k)'
    BY <1>1, <1>9 DEF ReaderOK
  <1> QED BY <1>1, <1>3, <1>4, <1>5, <1>6, <1>7, <1>8, <1>9

\* To start.
LEMMA FetchStartInv == ASSUME MtInv, NEW m \in Mounters, FetchStart(m) PROVE MtInv'
  <1> USE DEF MtInv, FetchStart, At
  <1>1. MtTypes'
    <2>1. mp' \in [Mounters -> MtPcs] /\ src' \in [Mounters -> Builds] /\ step' = [step EXCEPT ![m] = 0]
      BY DEF MtTypes, MtPcs
    <2>2. \A k \in Mounters : k # m => mp'[k] = mp[k]
      BY DEF MtTypes
    <2>3. \A k \in Fetching' : step'[k] \in 0..2
      BY <2>1, <2>2 DEF MtTypes, Fetching
    <2>4. step' \in [Mounters -> 0..3] /\ torn' \in BOOLEAN
      BY <2>1 DEF MtTypes
    <2> QED BY <2>1, <2>3, <2>4 DEF MtTypes
  <1> SUFFICES ASSUME ~torn' PROVE /\ CacheOK' /\ CacheRecovers'
                                   /\ \A k \in Writing' : WriterOK(k)'
                                   /\ \A k \in Mounters : mp'[k] = "read" => ReaderOK(k)'
    BY <1>1
  <1>2. ~torn /\ Writing = {} /\ (Cached \/ Fetching = {})
    BY DEF MtTypes
  <1>3. Cached => \E b \in Builds : \A p \in Parts : cache[p] = Whole(b)
    BY <1>2 DEF CacheOK, Cached, Parts
  <1>4. CacheRecovers'
    <2>1. \A k \in Mounters : Fetched(k)' => Fetched(k)
      BY DEF Fetched, Talking, MtTypes
    <2> QED BY <1>2, <2>1 DEF CacheRecovers
  <1>5. CASE Cached /\ mp[m] = "start" /\ mp' = [mp EXCEPT ![m] = "read"] /\ UNCHANGED src
    <2>1. Writing' = {}
      BY <1>2, <1>5 DEF Writing, MtTypes
    <2>2. CacheOK'
      BY <1>3, <1>5 DEF CacheOK
    <2>3. ASSUME NEW k \in Mounters, mp'[k] = "read" PROVE ReaderOK(k)'
      BY <1>2, <1>5, <2>3 DEF ReaderOK, Cached, Parts, MtTypes
    <2> QED BY <1>4, <2>1, <2>2, <2>3
  <1>6. CASE ~Cached /\ mp[m] = "start" /\ mp' = [mp EXCEPT ![m] = "create"]
    <2>1. Fetching = {} /\ Fetching' = {m} /\ Writing' = {m}
      BY <1>2, <1>6 DEF Fetching, Writing, MtTypes
    <2>2. cache["trustcache"] = NoFile
      BY <1>2, <1>6 DEF CacheOK, Cached, Parts, NoFile, Whole
    <2>3. WriterOK(m)'
      BY <2>1, <2>2, <1>6 DEF WriterOK, MtTypes
    <2>4. CacheOK'
      BY <2>1 DEF CacheOK
    <2>5. \A k \in Mounters : mp'[k] # "read"
      BY <2>1, <1>6 DEF Fetching, MtTypes
    <2> QED BY <1>4, <2>1, <2>3, <2>4, <2>5
  <1> QED BY <1>5, <1>6

LEMMA ReadInv == ASSUME MtInv, NEW m \in Mounters, ReadCached(m) PROVE MtInv'
  <1> USE OrderFacts DEF MtInv, ReadCached, At
  <1>0. step[m] \in 0..2 /\ Order["xcode"][step[m] + 1] \in Parts
    BY DEF MtTypes, Fetching, Parts
  <1>1. files' \in [Mounters -> [Parts -> File]]
    BY <1>0 DEF MtTypes
  <1>2. MtTypes'
    BY <1>0, <1>1 DEF MtTypes, MtPcs, Fetching
  <1> SUFFICES ASSUME ~torn PROVE /\ CacheOK' /\ CacheRecovers'
                                  /\ \A k \in Writing' : WriterOK(k)'
                                  /\ \A k \in Mounters : mp'[k] = "read" => ReaderOK(k)'
    BY <1>2
  <1>3. Writing = {} /\ Writing' = {}
    BY DEF Writing, WriterOK, MtTypes, Fetching
  <1>4. CacheOK'
    BY <1>3 DEF CacheOK
  <1>5. PICK b \in Builds : \A p \in Parts : cache[p] = Whole(b)
    BY <1>3 DEF CacheOK, ReaderOK
  <1>6. ASSUME NEW k \in Mounters, k # m PROVE files'[k] = files[k] /\ step'[k] = step[k] /\ mp'[k] = mp[k]
    BY <1>6 DEF MtTypes
  <1>7. \A i \in 1..3 : i <= step'[m] => files'[m][Order["xcode"][i]] = cache[Order["xcode"][i]]
    <2> SUFFICES ASSUME NEW i \in 1..3, i <= step[m] + 1
                 PROVE files'[m][Order["xcode"][i]] = cache[Order["xcode"][i]]
      BY DEF MtTypes
    <2>1. CASE i = step[m] + 1
      BY <1>0, <2>1 DEF MtTypes
    <2>2. CASE i <= step[m]
      <3>1. i \in 1..2 /\ Order["xcode"][i] # Order["xcode"][step[m] + 1] /\ Order["xcode"][i] \in Parts
        BY <1>0, <2>2 DEF Parts
      <3>2. files[m][Order["xcode"][i]] = cache[Order["xcode"][i]]
        BY <2>2, <3>1 DEF ReaderOK
      <3> QED BY <1>0, <3>1, <3>2 DEF MtTypes
    <2> QED BY <1>0, <2>1, <2>2
  <1>8. CacheRecovers'
    <2>1. ASSUME mp'[m] = "connect" PROVE \A p \in Parts : files'[m][p] = Whole(b)
      <3>1. step'[m] = 3
        BY <1>0, <2>1 DEF MtTypes
      <3> QED BY <1>5, <1>7, <3>1 DEF Parts
    <2>2. ASSUME NEW k \in Mounters, Fetched(k)'
          PROVE  \E c \in Builds : \A p \in Parts : files'[k][p] = Whole(c)
      <3>1. CASE k = m
        BY <2>1, <2>2, <3>1 DEF Fetched, Talking, MtTypes
      <3>2. CASE k # m
        BY <1>6, <2>2, <3>2 DEF CacheRecovers, Fetched, Whole
      <3> QED BY <3>1, <3>2
    <2> QED BY <2>2 DEF CacheRecovers, Whole
  <1>9. ASSUME NEW k \in Mounters, mp'[k] = "read" PROVE ReaderOK(k)'
    <2>1. mp[k] = "read"
      BY <1>6, <1>9 DEF MtTypes
    <2> QED BY <1>6, <1>7, <2>1 DEF ReaderOK
  <1> QED BY <1>3, <1>4, <1>8, <1>9

LEMMA PartFacts ==
  ASSUME NEW b \in Builds
  PROVE  /\ \A i \in 1..3 : Order[b][i] \in Parts
         /\ \A p \in Parts : \E i \in 1..3 : p = Order[b][i]
         /\ \A i, j \in 1..3 : Order[b][i] = Order[b][j] => i = j
         /\ Order[b][3] = "trustcache" /\ "trustcache" \in Parts
  BY OrderFacts DEF Builds, Parts

\* What the writer knows before it writes its next file.
LEMMA WriterAlone ==
  ASSUME MtInv, NEW m \in Writing
  PROVE  /\ m \in Mounters /\ step[m] \in 0..2 /\ src[m] \in Builds
         /\ ~torn => Fetching = {m} /\ Writing = {m} /\ WriterOK(m)
  BY DEF MtInv, MtTypes, Writing, Fetching, WriterOK

LEMMA CreateInv == ASSUME MtInv, NEW m \in Mounters, CreateFile(m) PROVE MtInv'
  <1> DEFINE part == Order[src[m]][step[m] + 1]
             file == [build |-> src[m], whole |-> FALSE]
  <1> USE DEF MtInv
  <1>1. /\ mp[m] = "create" /\ mp' = [mp EXCEPT ![m] = "fill"] /\ cache' = [cache EXCEPT ![part] = file]
        /\ UNCHANGED <<files, src, step, torn>>
    BY DEF CreateFile, At
  <1>2. m \in Writing
    BY <1>1 DEF Writing
  <1>3. /\ step[m] \in 0..2 /\ src[m] \in Builds
        /\ ~torn => Fetching = {m} /\ Writing = {m} /\ WriterOK(m)
    BY <1>2, WriterAlone
  <1>4. part \in Parts /\ file \in File /\ step[m] + 1 \in 1..3
    BY <1>3, PartFacts DEF File
  <1>5. Writing' = Writing /\ Fetching' = Fetching
    BY <1>1 DEF Writing, Fetching, MtTypes
  <1> HIDE DEF file
  <1>6. MtTypes'
    BY <1>1, <1>4, <1>5 DEF MtTypes, MtPcs
  <1> SUFFICES ASSUME ~torn PROVE /\ CacheOK' /\ CacheRecovers'
                                  /\ \A k \in Writing' : WriterOK(k)'
                                  /\ \A k \in Mounters : mp'[k] = "read" => ReaderOK(k)'
    BY <1>1, <1>6
  <1>7. \A k \in Mounters : mp'[k] # "read"
    BY <1>1, <1>3, <1>5 DEF Fetching, MtTypes
  <1>8. CacheOK'
    BY <1>2, <1>5 DEF CacheOK
  <1>9. CacheRecovers'
    <2>1. \A k \in Mounters : Fetched(k)' => Fetched(k)
      BY <1>1 DEF Fetched, Talking, MtTypes
    <2> QED BY <1>1, <2>1 DEF CacheRecovers
  <1>10. WriterOK(m)'
    <2>1. ASSUME NEW i \in 1..2, i <= step[m]
          PROVE cache'[Order[src[m]][i]] = Whole(src[m]) /\ files[m][Order[src[m]][i]] = Whole(src[m])
      <3>1. i \in 1..3 /\ i # step[m] + 1
        BY <1>3, <2>1
      <3>2. Order[src[m]][i] \in Parts /\ Order[src[m]][i] # part
        BY <1>3, <1>4, <3>1, PartFacts
      <3> QED BY <1>1, <1>3, <2>1, <3>2 DEF WriterOK, MtTypes
    <2>2. step[m] # 2 => cache'["trustcache"] = NoFile
      <3>1. step[m] # 2 => part # "trustcache"
        <4>1. 3 \in 1..3 /\ (step[m] # 2 => step[m] + 1 # 3)
          BY <1>3
        <4> QED BY <1>3, <1>4, <4>1, PartFacts
      <3> QED BY <1>1, <1>3, <3>1, PartFacts DEF WriterOK, MtTypes
    <2> QED BY <1>1, <1>3, <1>5, <2>1, <2>2 DEF WriterOK, MtTypes
  <1> QED BY <1>3, <1>5, <1>7, <1>8, <1>9, <1>10

LEMMA FillInv == ASSUME MtInv, NEW m \in Mounters, FillFile(m) PROVE MtInv'
  <1> DEFINE part == Order[src[m]][step[m] + 1]
             file == Whole(src[m])
  <1> USE DEF MtInv
  <1>1. /\ mp[m] = "fill" /\ mp' = [mp EXCEPT ![m] = IF step[m] = 2 THEN "connect" ELSE "create"]
        /\ cache' = [cache EXCEPT ![part] = file] /\ files' = [files EXCEPT ![m][part] = file]
        /\ step' = [step EXCEPT ![m] = @ + 1] /\ UNCHANGED <<src, torn>>
    BY DEF FillFile, At, Whole
  <1>2. m \in Writing
    BY <1>1 DEF Writing
  <1>3. /\ step[m] \in 0..2 /\ src[m] \in Builds
        /\ ~torn => Fetching = {m} /\ Writing = {m} /\ WriterOK(m)
    BY <1>2, WriterAlone
  <1>4. part \in Parts /\ file \in File /\ step[m] + 1 \in 1..3
    BY <1>3, PartFacts DEF File, Whole
  <1>5. step[m] # 2 => Writing' = Writing /\ Fetching' = Fetching
    BY <1>1 DEF Writing, Fetching, MtTypes
  <1> HIDE DEF file
  <1>6. MtTypes'
    <2>1. files' \in [Mounters -> [Parts -> File]] /\ cache' \in [Parts -> File]
      BY <1>1, <1>4 DEF MtTypes
    <2>2. mp' \in [Mounters -> MtPcs] /\ step' \in [Mounters -> 0..3]
      BY <1>1, <1>3 DEF MtTypes, MtPcs
    <2>3. \A k \in Fetching' : step'[k] \in 0..2
      BY <1>1, <1>3 DEF Fetching, MtTypes
    <2> QED BY <1>1, <2>1, <2>2, <2>3 DEF MtTypes
  <1> SUFFICES ASSUME ~torn PROVE /\ CacheOK' /\ CacheRecovers'
                                  /\ \A k \in Writing' : WriterOK(k)'
                                  /\ \A k \in Mounters : mp'[k] = "read" => ReaderOK(k)'
    BY <1>1, <1>6
  <1>7. \A k \in Mounters : mp'[k] # "read"
    BY <1>1, <1>3 DEF Fetching, MtTypes
  <1>8. ASSUME NEW i \in 1..3, i <= step[m] + 1
        PROVE  cache'[Order[src[m]][i]] = file /\ files'[m][Order[src[m]][i]] = file
    <2>1. CASE i = step[m] + 1
      BY <1>1, <1>4, <2>1 DEF MtTypes
    <2>2. CASE i # step[m] + 1
      <3>1. i \in 1..2 /\ i <= step[m] /\ Order[src[m]][i] \in Parts /\ Order[src[m]][i] # part
        BY <1>3, <1>4, <1>8, <2>2, PartFacts
      <3> QED BY <1>1, <1>3, <1>4, <3>1 DEF WriterOK, MtTypes, file
    <2> QED BY <2>1, <2>2
  <1>9. CASE step[m] = 2
    <2>1. \A p \in Parts : cache'[p] = file /\ files'[m][p] = file
      BY <1>3, <1>8, <1>9, PartFacts
    <2>2. Writing' = {}
      BY <1>1, <1>3, <1>9 DEF Writing, MtTypes
    <2>3. CacheOK'
      BY <1>3, <2>1 DEF CacheOK, file
    <2>4. CacheRecovers'
      <3>1. \A k \in Mounters : k # m => files'[k] = files[k] /\ (Fetched(k)' => Fetched(k))
        BY <1>1 DEF Fetched, MtTypes
      <3>2. CacheRecovers /\ torn' = torn
        BY <1>1
      <3>3. ASSUME NEW k \in Mounters, Fetched(k)'
            PROVE  \E b \in Builds : \A p \in Parts : files'[k][p] = [build |-> b, whole |-> TRUE]
        <4>1. CASE k = m
          BY <1>3, <2>1, <4>1 DEF file, Whole
        <4>2. CASE k # m
          <5>1. files'[k] = files[k] /\ Fetched(k)
            BY <3>1, <3>3, <4>2
          <5> HIDE DEF MtInv
          <5> QED BY <3>2, <5>1 DEF CacheRecovers
        <4> QED BY <4>1, <4>2
      <3> HIDE DEF MtInv
      <3> QED BY <3>3 DEF CacheRecovers
    <2> QED BY <1>7, <2>2, <2>3, <2>4
  <1>10. CASE step[m] # 2
    <2>1. CacheOK'
      BY <1>2, <1>5, <1>10 DEF CacheOK
    <2>2. CacheRecovers'
      <3>1. \A k \in Mounters : (Fetched(k)' => Fetched(k) /\ k # m) /\ (k # m => files'[k] = files[k])
        BY <1>1, <1>10 DEF Fetched, Talking, MtTypes
      <3>2. CacheRecovers /\ torn' = torn
        BY <1>1
      <3> HIDE DEF MtInv
      <3> QED BY <3>1, <3>2 DEF CacheRecovers
    <2>3. cache'["trustcache"] = NoFile
      <3>1. part # "trustcache"
        <4>1. 3 \in 1..3 /\ step[m] + 1 # 3
          BY <1>3, <1>10
        <4> QED BY <1>3, <1>4, <4>1, PartFacts
      <3> QED BY <1>1, <1>3, <1>10, <3>1, PartFacts DEF WriterOK, MtTypes
    <2>4. step'[m] = step[m] + 1
      BY <1>1 DEF MtTypes
    <2>5. WriterOK(m)'
      BY <1>1, <1>3, <1>5, <1>8, <1>10, <2>3, <2>4 DEF WriterOK, file
    <2> QED BY <1>3, <1>5, <1>7, <1>10, <2>1, <2>2, <2>5
  <1> QED BY <1>9, <1>10

\* A process ends.
LEMMA LeavesInv ==
  ASSUME MtInv, NEW m \in Mounters, NEW to \in {"start", "mounted"}, Leaves(m, to), UNCHANGED cache,
         torn' = (torn \/ (mp[m] = "fill" /\ step[m] = 2))
  PROVE  MtInv'
  <1> USE DEF MtInv
  <1>1. /\ mp' = [mp EXCEPT ![m] = to]
        /\ files' = [files EXCEPT ![m] = [p \in Parts |-> NoFile]] /\ step' = [step EXCEPT ![m] = 0]
        /\ src' = [src EXCEPT ![m] = "xcode"]
    BY DEF Leaves, MtGoes
  <1>2. MtTypes'
    <2>1. [p \in Parts |-> NoFile] \in [Parts -> File]
      BY DEF NoFile, File
    <2>2. files' \in [Mounters -> [Parts -> File]] /\ mp' \in [Mounters -> MtPcs] /\ src' \in [Mounters -> Builds]
      BY <1>1, <2>1 DEF MtTypes, MtPcs, Builds
    <2>3. step' \in [Mounters -> 0..3] /\ torn' \in BOOLEAN
      BY <1>1 DEF MtTypes
    <2>4. \A k \in Fetching' : step'[k] \in 0..2
      BY <1>1 DEF MtTypes, Fetching
    <2> QED BY <1>1, <2>2, <2>3, <2>4 DEF MtTypes
  <1> SUFFICES ASSUME ~torn' PROVE /\ CacheOK' /\ CacheRecovers'
                                   /\ \A k \in Writing' : WriterOK(k)'
                                   /\ \A k \in Mounters : mp'[k] = "read" => ReaderOK(k)'
    BY <1>2
  <1>3. ~torn /\ ~(mp[m] = "fill" /\ step[m] = 2)
    BY <1>1 DEF MtTypes
  <1>4. /\ Writing' = Writing \ {m} /\ Fetching' = Fetching \ {m} /\ mp'[m] = to
        /\ \A k \in Mounters : k # m => UNCHANGED <<mp[k], files[k], step[k], src[k]>>
    BY <1>1 DEF Writing, Fetching, MtTypes
  <1>5. m \in Writing => cache["trustcache"] = NoFile
    BY <1>3 DEF WriterOK
  <1>6. CacheOK'
    BY <1>1, <1>3, <1>4, <1>5 DEF CacheOK
  <1>7. CacheRecovers'
    BY <1>3, <1>4 DEF CacheRecovers, Fetched, Talking
  <1>8. ASSUME NEW k \in Writing' PROVE WriterOK(k)'
    <2>1. k \in Mounters /\ k # m /\ WriterOK(k)
      BY <1>3, <1>4 DEF Writing
    <2> QED BY <1>1, <1>4, <2>1 DEF WriterOK
  <1>9. ASSUME NEW k \in Mounters, mp'[k] = "read" PROVE ReaderOK(k)'
    BY <1>1, <1>3, <1>4, <1>9 DEF ReaderOK
  <1> QED BY <1>6, <1>7, <1>8, <1>9

LEMMA MtStep == MtInv /\ [MtNext]_mtVars => MtInv'
  <1> SUFFICES ASSUME MtInv, [MtNext]_mtVars PROVE MtInv'
    OBVIOUS
  <1>1. CASE MtOrphan \/ DeviceReboots \/ UNCHANGED mtVars
    <2>1. UNCHANGED <<cache, mp, files, src, step, torn>>
      BY <1>1 DEF MtOrphan, DeviceReboots, mtVars, fileVars
    <2>2. Fetching' = Fetching /\ Writing' = Writing
      BY <2>1 DEF Fetching, Writing
    <2>3. MtTypes => MtTypes'
      BY <2>1, <2>2 DEF MtTypes
    <2>4. (CacheOK => CacheOK') /\ (CacheRecovers => CacheRecovers')
      BY <2>1, <2>2 DEF CacheOK, CacheRecovers, Fetched
    <2>5. \A m \in Mounters : (WriterOK(m) => WriterOK(m)') /\ (ReaderOK(m) => ReaderOK(m)')
      BY <2>1, <2>2 DEF WriterOK, ReaderOK
    <2>6. Writing \subseteq Mounters
      BY DEF Writing
    <2> QED BY <2>1, <2>2, <2>3, <2>4, <2>5, <2>6 DEF MtInv
  <1>2. ASSUME NEW m \in Mounters, FetchStart(m) \/ ReadCached(m) \/ CreateFile(m) \/ FillFile(m)
        PROVE  MtInv'
    BY <1>2, FetchStartInv, ReadInv, CreateInv, FillInv
  <1>3. ASSUME NEW m \in Mounters,
               Lookup(m) \/ LookedUp(m) \/ Queried(m) \/ TssFlow(m) \/ Received(m) \/ Uploaded(m)
        PROVE  MtInv'
    <2>1. CASE mp[m] = "lookup" /\ Leaves(m, "mounted") /\ UNCHANGED <<cache, torn>>
      BY <2>1, LeavesInv DEF MtInv, MtTypes
    <2>2. CASE ~(Leaves(m, "mounted") /\ UNCHANGED <<cache, torn>>)
      <3>1. UNCHANGED fileVars /\ \E to \in Talking \cup {"tss"} : mp' = [mp EXCEPT ![m] = to]
        BY <1>3, <2>2 DEF Lookup, LookedUp, Queried, TssFlow, Received, Uploaded, At, MtGoes, Talking
      <3>2. Fetched(m)
        BY <1>3 DEF Lookup, LookedUp, Queried, TssFlow, Received, Uploaded, At, Hears, Fetched, Talking
      <3> QED BY <3>1, <3>2, TalkStepInv
    <2>3. Leaves(m, "mounted") => mp[m] = "lookup"
      BY <1>3 DEF Lookup, LookedUp, Queried, TssFlow, Received, Uploaded, At, MtGoes, Leaves, MtInv, MtTypes
    <2> QED BY <2>1, <2>2, <2>3
  <1>4. ASSUME NEW m \in Mounters, MountImage(m) \/ Fails(m) PROVE MtInv'
    <2>1. CASE MountImage(m)
      BY <2>1, LeavesInv DEF MountImage, MtInv, MtTypes
    <2>2. CASE Fails(m)
      BY <2>2, LeavesInv DEF Fails
    <2> QED BY <1>4, <2>1, <2>2
  <1>5. ASSUME NEW m \in Mounters, MtLooks(m) \/ MtAgrees(m) \/ MtMounts(m) \/ MtRefuses(m) \/ MtCloses(m)
        PROVE  MtInv'
    <2>1. UNCHANGED <<mp, fileVars>>
      BY <1>5 DEF MtLooks, MtAgrees, MtMounts, MtRefuses, MtCloses
    <2> QED BY <2>1, TalkStepInv
  <1> QED BY <1>1, <1>2, <1>3, <1>4, <1>5 DEF MtNext

\* Whatever processes were killed where, a process that fetches from the cache
\* has whole files of one build, or the history has a torn last write or two
\* fetches at a time: for any number of processes.
THEOREM CacheGood == MtSpec => []CacheRecovers
  <1>1. MtInv => CacheRecovers
    BY DEF MtInv, CacheRecovers
  <1> QED BY <1>1, MtInvInit, MtStep, PTL DEF MtSpec

\* A sequence of at most one, and a queue of which the rest is known.
LEMMA SoleMsg ==
  ASSUME NEW S, NEW q \in Seq(S), NEW e \in S
  PROVE  /\ q # <<>> => Head(q) = q[1] /\ Tail(q) \in Seq(S) /\ q[1] \in S
         /\ Len(q) = 1 => Tail(q) = <<>>
         /\ q = <<>> => Append(q, e) = <<e>>
         /\ Append(q, e) \in Seq(S) /\ <<e>> \in Seq(S) /\ Len(<<e>>) = 1 /\ <<e>>[1] = e /\ <<e>> # <<>>
         /\ \A i \in DOMAIN q : i \in DOMAIN Append(q, e) /\ Append(q, e)[i] = q[i]
         /\ \A i \in DOMAIN Append(q, e) : i \in DOMAIN q \/ Append(q, e)[i] = e
         /\ \E i \in DOMAIN Append(q, e) : Append(q, e)[i] = e
  <1>1. Len(q) + 1 \in DOMAIN Append(q, e) /\ Append(q, e)[Len(q) + 1] = e
    OBVIOUS
  <1>2. /\ q # <<>> => Head(q) = q[1] /\ Tail(q) \in Seq(S) /\ q[1] \in S
    OBVIOUS
  <1>5. ASSUME Len(q) = 1 PROVE Tail(q) = <<>>
    <2> DEFINE t == Tail(q)
    <2>1. t \in Seq(S) /\ Len(t) = 0
      BY <1>5
    <2> HIDE DEF t
    <2>2. t = <<>>
      BY ONLY <2>1
    <2> QED BY <2>2 DEF t
  <1>6. q = <<>> => Append(q, e) = <<e>>
    OBVIOUS
  <1>3. Append(q, e) \in Seq(S) /\ <<e>> \in Seq(S) /\ Len(<<e>>) = 1 /\ <<e>>[1] = e /\ <<e>> # <<>>
    OBVIOUS
  <1>4. /\ \A i \in DOMAIN q : i \in DOMAIN Append(q, e) /\ Append(q, e)[i] = q[i]
        /\ \A i \in DOMAIN Append(q, e) : i \in DOMAIN q \/ Append(q, e)[i] = e
    OBVIOUS
  <1> QED BY <1>1, <1>2, <1>3, <1>4, <1>5, <1>6

LEMMA RestOf ==
  ASSUME NEW S, NEW q \in Seq(S), q # <<>>
  PROVE  /\ Tail(q) \in Seq(S) /\ 1 \in DOMAIN q
         /\ \A i \in DOMAIN Tail(q) : i + 1 \in DOMAIN q /\ i + 1 > 1 /\ Tail(q)[i] = q[i + 1]
  OBVIOUS

MtRequests == {"lookup", "query", "receive", "bytes", "mount", "misfit"}
MtAnswers == {"present", "absent", "ticket", "ack", "Complete", "error", "closed"}

\* What a process has asked for where it waits.
Expects == [lookup |-> {"lookup"}, query |-> {"query"}, receive |-> {"receive"}, upload |-> {"bytes"},
            mount |-> {"mount", "misfit"}]
Consent(m) == (mp[m] = "lookup" /\ says[m][1] = "present") \/ (mp[m] = "mount" /\ says[m][1] = "Complete")

TalkTypes ==
  /\ mp \in [Mounters -> MtPcs] /\ asks \in [Mounters -> Seq(MtRequests)] /\ says \in [Mounters -> Seq(MtAnswers)]
  /\ told \in [Mounters -> {"no", "yes", "stale"}] /\ mounted \in BOOLEAN

\* One request is out at a time, and there is no answer with it but the end of
\* the connection; behind an answer comes nothing else.  The answer a process
\* takes for the image being there was given while it was.
TalkOK(m) ==
  /\ told[m] = "yes" => mounted
  /\ mp[m] = "mounted" => told[m] # "no"
  /\ mp[m] \in Talking =>
       /\ asks[m] = <<>> \/ /\ \E a \in Expects[mp[m]] : asks[m] = <<a>>
                            /\ \A i \in DOMAIN says[m] : says[m][i] = "closed"
       /\ \A i \in DOMAIN says[m] : i > 1 => says[m][i] = "closed"
       /\ says[m] # <<>> /\ Consent(m) => told[m] # "no"

TalkInv == TalkTypes /\ \A m \in Mounters : TalkOK(m)

LEMMA TalkInit == MtInit => TalkInv
  <1> SUFFICES ASSUME MtInit PROVE TalkInv
    OBVIOUS
  <1>1. <<>> \in Seq(MtRequests) /\ <<>> \in Seq(MtAnswers)
    OBVIOUS
  <1>2. TalkTypes
    BY <1>1 DEF MtInit, TalkTypes, MtPcs
  <1>3. ASSUME NEW m \in Mounters PROVE TalkOK(m)
    BY DEF MtInit, TalkOK, Talking
  <1> QED BY <1>2, <1>3 DEF TalkInv

\* A process not concerned in a step.
LEMMA OtherTalk ==
  ASSUME NEW m, TalkOK(m), UNCHANGED <<mp[m], asks[m], says[m], told[m]>>, mounted => mounted'
  PROVE  TalkOK(m)'
  BY DEF TalkOK, Consent

\* A process that is not in a conversation after the step.
LEMMA QuietTalk ==
  ASSUME NEW m, TalkOK(m), mp'[m] \notin Talking, mp'[m] = "mounted" => told'[m] # "no",
         told'[m] = "yes" => mounted'
  PROVE  TalkOK(m)'
  BY DEF TalkOK

\* A process that has heard an answer and asks for the next thing.
LEMMA NextRequest ==
  ASSUME TalkInv, NEW m \in Mounters, NEW from \in Talking, NEW to \in Talking, NEW a \in Expects[to], a \in MtRequests,
         Hears(m, from), Heard(m) # "closed", MtGoes(m, to), MtAsks(m, a), UNCHANGED <<told, mounted>>
  PROVE  TalkInv'
  <1>1. says[m] \in Seq(MtAnswers) /\ asks[m] \in Seq(MtRequests) /\ says[m] # <<>> /\ mp[m] \in Talking
    BY DEF TalkInv, TalkTypes, Hears
  <1>2. /\ Tail(says[m]) \in Seq(MtAnswers) /\ 1 \in DOMAIN says[m] /\ Head(says[m]) = says[m][1]
        /\ \A i \in DOMAIN Tail(says[m]) : i + 1 \in DOMAIN says[m] /\ i + 1 > 1 /\ Tail(says[m])[i] = says[m][i + 1]
    BY <1>1, RestOf, SoleMsg
  <1>3. asks[m] = <<>> /\ \A i \in DOMAIN says[m] : i > 1 => says[m][i] = "closed"
    BY <1>1, <1>2 DEF TalkInv, TalkOK, Heard
  <1>4. asks'[m] = <<a>> /\ asks' \in [Mounters -> Seq(MtRequests)]
    BY <1>1, <1>3, SoleMsg DEF MtAsks, TalkInv, TalkTypes
  <1>5. says'[m] = Tail(says[m]) /\ says' \in [Mounters -> Seq(MtAnswers)] /\ mp'[m] = to /\ mp' \in [Mounters -> MtPcs]
    BY <1>2 DEF Hears, MtGoes, TalkInv, TalkTypes, MtPcs
  <1>6. \A i \in DOMAIN says'[m] : says'[m][i] = "closed"
    BY <1>2, <1>3, <1>5
  <1>7. says'[m] # <<>> => 1 \in DOMAIN says'[m]
    BY <1>5, RestOf
  <1>8. TalkOK(m)'
    BY <1>4, <1>5, <1>6, <1>7 DEF TalkOK, TalkInv, Consent, Talking
  <1>9. ASSUME NEW k \in Mounters, k # m PROVE TalkOK(k)'
    <2>1. UNCHANGED <<mp[k], asks[k], says[k], told[k]>>
      BY <1>9 DEF MtGoes, MtAsks, Hears, TalkInv, TalkTypes
    <2> QED BY <2>1, OtherTalk DEF TalkInv
  <1> QED BY <1>4, <1>5, <1>8, <1>9 DEF TalkInv, TalkTypes

\* A process that connects.
LEMMA FirstRequest ==
  ASSUME TalkInv, NEW m \in Mounters, NEW to \in Talking, NEW a \in Expects[to], a \in MtRequests,
         mp' = [mp EXCEPT ![m] = to], Connects(m, a), UNCHANGED <<told, mounted>>
  PROVE  TalkInv'
  <1>1. <<a>> \in Seq(MtRequests) /\ <<>> \in Seq(MtAnswers)
    OBVIOUS
  <1>2. /\ asks' \in [Mounters -> Seq(MtRequests)] /\ says' \in [Mounters -> Seq(MtAnswers)]
        /\ mp' \in [Mounters -> MtPcs] /\ asks'[m] = <<a>> /\ says'[m] = <<>> /\ mp'[m] = to
    BY <1>1 DEF Connects, TalkInv, TalkTypes, MtPcs
  <1>3. TalkOK(m)'
    BY <1>2 DEF TalkInv, TalkOK, Talking
  <1>4. ASSUME NEW k \in Mounters, k # m PROVE TalkOK(k)'
    <2>1. UNCHANGED <<mp[k], asks[k], says[k], told[k]>>
      BY <1>4 DEF Connects, TalkInv, TalkTypes
    <2> QED BY <2>1, OtherTalk DEF TalkInv
  <1> QED BY <1>2, <1>3, <1>4 DEF TalkInv, TalkTypes

\* A process that ends.
LEMMA LeavesTalk ==
  ASSUME TalkInv, NEW m \in Mounters, NEW to \in {"start", "mounted"}, Leaves(m, to), UNCHANGED mounted,
         told' = told \/ told' = [told EXCEPT ![m] = "no"], to = "mounted" => told'[m] # "no"
  PROVE  TalkInv'
  <1>1. /\ mp' \in [Mounters -> MtPcs] /\ asks' \in [Mounters -> Seq(MtRequests)]
        /\ says' \in [Mounters -> Seq(MtAnswers)] /\ told' \in [Mounters -> {"no", "yes", "stale"}] /\ mp'[m] = to
    <2>1. <<>> \in Seq(MtRequests) /\ <<>> \in Seq(MtAnswers) /\ to \in MtPcs
      BY DEF MtPcs
    <2> QED BY <2>1 DEF Leaves, MtGoes, TalkInv, TalkTypes
  <1>2. TalkOK(m)'
    BY <1>1, QuietTalk DEF TalkInv, TalkOK, TalkTypes, Talking
  <1>3. ASSUME NEW k \in Mounters, k # m PROVE TalkOK(k)'
    <2>1. UNCHANGED <<mp[k], asks[k], says[k], told[k]>>
      BY <1>3 DEF Leaves, MtGoes, TalkInv, TalkTypes
    <2> QED BY <2>1, OtherTalk DEF TalkInv
  <1> QED BY <1>1, <1>2, <1>3 DEF TalkInv, TalkTypes

\* The device answers.
LEMMA AnswerTalk ==
  ASSUME TalkInv, NEW m \in Mounters, NEW what \in MtAnswers, Listens(m), MtSays(m, what), UNCHANGED mp,
         told' = told \/ (told' = [told EXCEPT ![m] = "yes"] /\ mounted'), mounted' \in BOOLEAN, mounted => mounted',
         (Wanted(m) = "lookup" /\ what = "present") \/ (Wanted(m) \in {"mount", "misfit"} /\ what = "Complete")
           => told'[m] # "no"
  PROVE  TalkInv'
  <1>1. /\ mp[m] \in Talking /\ asks[m] # <<>> /\ asks[m] \in Seq(MtRequests) /\ says[m] \in Seq(MtAnswers)
        /\ \A i \in DOMAIN says[m] : says[m][i] # "closed"
    BY DEF Listens, Connected, TalkInv, TalkTypes
  <1>2. PICK a \in Expects[mp[m]] : asks[m] = <<a>>
    BY <1>1 DEF TalkInv, TalkOK
  <1>3. says[m] = <<>>
    <2>1. \A i \in DOMAIN says[m] : FALSE
      BY <1>1 DEF TalkInv, TalkOK
    <2> QED BY <1>1, <2>1
  <1>4. a \in MtRequests /\ Wanted(m) = a /\ Tail(asks[m]) = <<>>
    BY <1>1, <1>2, SoleMsg DEF Wanted, Expects, Talking, MtRequests
  <1>5. Append(says[m], what) = <<what>> /\ <<what>> \in Seq(MtAnswers) /\ <<what>>[1] = what /\ <<>> \in Seq(MtRequests)
    BY <1>1, <1>3, SoleMsg
  <1>6. /\ asks'[m] = <<>> /\ asks' \in [Mounters -> Seq(MtRequests)]
        /\ says'[m] = <<what>> /\ says' \in [Mounters -> Seq(MtAnswers)]
        /\ told' \in [Mounters -> {"no", "yes", "stale"}]
    BY <1>4, <1>5 DEF MtSays, TalkInv, TalkTypes
  <1>7. Consent(m)' => told'[m] # "no"
    BY <1>2, <1>4, <1>5, <1>6 DEF Consent, Expects, Talking
  <1>8. \A i \in DOMAIN <<what>> : ~(i > 1)
    OBVIOUS
  <1>9. TalkOK(m)'
    BY <1>1, <1>6, <1>7, <1>8 DEF TalkOK, TalkInv, Talking, TalkTypes
  <1>10. ASSUME NEW k \in Mounters, k # m PROVE TalkOK(k)'
    <2>1. UNCHANGED <<mp[k], asks[k], says[k], told[k]>>
      BY <1>10 DEF MtSays, TalkInv, TalkTypes
    <2> QED BY <2>1, OtherTalk DEF TalkInv
  <1> QED BY <1>6, <1>9, <1>10 DEF TalkInv, TalkTypes

LEMMA RebootTalk == ASSUME TalkInv, DeviceReboots PROVE TalkInv'
  <1>1. "closed" \in MtAnswers /\ <<>> \in Seq(MtRequests)
    BY DEF MtAnswers
  <1>2. ASSUME NEW m \in Mounters
        PROVE  /\ says'[m] = IF Connected(m) THEN Append(says[m], "closed") ELSE says[m]
               /\ says'[m] \in Seq(MtAnswers) /\ asks'[m] = <<>> /\ told'[m] # "yes"
               /\ told[m] # "no" => told'[m] # "no"
               /\ told'[m] \in {"no", "yes", "stale"}
    BY <1>1, SoleMsg DEF DeviceReboots, TalkInv, TalkTypes
  <1>3. TalkTypes'
    BY <1>1, <1>2 DEF DeviceReboots, TalkInv, TalkTypes
  <1>4. ASSUME NEW m \in Mounters PROVE TalkOK(m)'
    <2>1. CASE mp[m] \notin Talking
      BY <1>2, <2>1, QuietTalk DEF DeviceReboots, TalkInv, TalkOK
    <2>2. CASE mp[m] \in Talking
      <3>1. says[m] \in Seq(MtAnswers)
        BY DEF TalkInv, TalkTypes
      <3>2. /\ \A i \in DOMAIN says[m] : i \in DOMAIN Append(says[m], "closed") /\ Append(says[m], "closed")[i] = says[m][i]
            /\ \A i \in DOMAIN Append(says[m], "closed") : i \in DOMAIN says[m] \/ Append(says[m], "closed")[i] = "closed"
        BY <1>1, <3>1, SoleMsg
      <3>3. \A i \in DOMAIN says'[m] : i > 1 => says'[m][i] = "closed"
        <4>1. \A i \in DOMAIN says[m] : i > 1 => says[m][i] = "closed"
          BY <2>2 DEF TalkInv, TalkOK
        <4> QED BY <1>2, <3>2, <4>1
      <3>4. says'[m] # <<>> /\ Consent(m)' => told[m] # "no"
        <4>1. CASE says[m] = <<>>
          <5>1. Append(says[m], "closed")[1] = "closed"
            BY <1>1, <3>1, <4>1, SoleMsg
          <5> QED BY <1>2, <4>1, <5>1 DEF Consent
        <4>2. CASE says[m] # <<>>
          <5>1. 1 \in DOMAIN says[m]
            BY <3>1, <4>2, RestOf
          <5>2. says'[m][1] = says[m][1] /\ mp'[m] = mp[m]
            BY <1>2, <3>2, <5>1 DEF DeviceReboots
          <5> QED BY <2>2, <4>2, <5>2 DEF Consent, TalkInv, TalkOK
        <4> QED BY <4>1, <4>2
      <3>5. mp'[m] = mp[m] /\ mp[m] # "mounted"
        BY <2>2 DEF DeviceReboots, Talking
      <3> QED BY <1>2, <2>2, <3>3, <3>4, <3>5 DEF TalkOK
    <2> QED BY <2>1, <2>2
  <1> QED BY <1>3, <1>4 DEF TalkInv

LEMMA TalkStep == TalkInv /\ [MtNext]_mtVars => TalkInv'
  <1> SUFFICES ASSUME TalkInv, [MtNext]_mtVars PROVE TalkInv'
    OBVIOUS
  <1>1. CASE MtOrphan \/ UNCHANGED mtVars
    <2>1. UNCHANGED <<mp, asks, says, told>> /\ mounted' \in BOOLEAN /\ (mounted => mounted')
      BY <1>1 DEF MtOrphan, mtVars, talkVars, TalkInv, TalkTypes
    <2> QED BY <2>1, OtherTalk DEF TalkInv, TalkTypes
  <1>2. ASSUME NEW m \in Mounters, FetchStart(m) \/ ReadCached(m) \/ CreateFile(m) \/ FillFile(m)
        PROVE  TalkInv'
    <2>1. /\ UNCHANGED <<asks, says, told, mounted>>
          /\ \E to \in {"read", "create", "fill", "connect"} : mp' = [mp EXCEPT ![m] = to]
      BY <1>2 DEF FetchStart, ReadCached, CreateFile, FillFile, At, talkVars
    <2>2. mp' \in [Mounters -> MtPcs] /\ mp'[m] \notin Talking \cup {"mounted"} /\ \A k \in Mounters : k # m => mp'[k] = mp[k]
      BY <2>1 DEF TalkInv, TalkTypes, MtPcs, Talking
    <2>3. TalkOK(m)'
      BY <2>1, <2>2, QuietTalk DEF TalkInv, TalkOK
    <2>4. ASSUME NEW k \in Mounters, k # m PROVE TalkOK(k)'
      BY <2>1, <2>2, <2>4, OtherTalk DEF TalkInv
    <2> QED BY <2>1, <2>2, <2>3, <2>4 DEF TalkInv, TalkTypes
  <1>3. ASSUME NEW m \in Mounters, Lookup(m) \/ TssFlow(m) PROVE TalkInv'
    <2>1. /\ "lookup" \in Expects["lookup"] \cap MtRequests /\ "receive" \in Expects["receive"] \cap MtRequests
          /\ {"lookup", "receive"} \subseteq Talking
      BY DEF Expects, MtRequests, Talking
    <2> QED BY <1>3, <2>1, FirstRequest DEF Lookup, TssFlow, At
  <1>4. ASSUME NEW m \in Mounters, LookedUp(m) PROVE TalkInv'
    <2>1. CASE Heard(m) = "present" /\ Leaves(m, "mounted")
      <3>1. says[m] \in Seq(MtAnswers) /\ says[m] # <<>> /\ mp[m] = "lookup"
        BY <1>4 DEF LookedUp, TalkInv, TalkTypes
      <3>2. says[m][1] = "present"
        BY <2>1, <3>1, SoleMsg DEF Heard
      <3>3. told[m] # "no"
        BY <3>1, <3>2 DEF TalkInv, TalkOK, Consent, Talking
      <3> QED BY <1>4, <2>1, <3>3, LeavesTalk DEF LookedUp
    <2>2. CASE Heard(m) # "closed" /\ Hears(m, "lookup") /\ MtGoes(m, "query") /\ MtAsks(m, "query")
      <3>1. "query" \in Expects["query"] /\ "query" \in MtRequests /\ "query" \in Talking /\ "lookup" \in Talking
        BY DEF Expects, MtRequests, Talking
      <3> QED BY <1>4, <2>2, <3>1, NextRequest DEF LookedUp
    <2> QED BY <1>4, <2>1, <2>2 DEF LookedUp
  <1>5. ASSUME NEW m \in Mounters, Queried(m) PROVE TalkInv'
    <2>1. CASE Heard(m) = "ticket" /\ MtGoes(m, "receive") /\ MtAsks(m, "receive")
      <3>1. "receive" \in Expects["receive"] /\ "receive" \in MtRequests /\ "receive" \in Talking /\ "query" \in Talking
        BY DEF Expects, MtRequests, Talking
      <3> QED BY <1>5, <2>1, <3>1, NextRequest DEF Queried
    <2>2. CASE MtGoes(m, "tss") /\ UNCHANGED asks
      <3>1. says[m] \in Seq(MtAnswers) /\ says[m] # <<>> /\ says' = [says EXCEPT ![m] = Tail(@)]
        BY <1>5 DEF Queried, Hears, TalkInv, TalkTypes
      <3>2. Tail(says[m]) \in Seq(MtAnswers)
        BY <3>1, RestOf
      <3>3. says' \in [Mounters -> Seq(MtAnswers)] /\ mp' \in [Mounters -> MtPcs] /\ mp'[m] = "tss"
        BY <2>2, <3>1, <3>2 DEF MtGoes, TalkInv, TalkTypes, MtPcs
      <3>4. UNCHANGED <<asks, told, mounted>>
        BY <1>5, <2>2 DEF Queried
      <3>5. TalkOK(m)'
        BY <3>3, <3>4, QuietTalk DEF TalkInv, TalkOK, Talking
      <3>6. ASSUME NEW k \in Mounters, k # m PROVE TalkOK(k)'
        <4>1. UNCHANGED <<mp[k], asks[k], says[k], told[k]>>
          BY <2>2, <3>1, <3>4, <3>6 DEF MtGoes, TalkInv, TalkTypes
        <4> QED BY <3>4, <4>1, OtherTalk DEF TalkInv
      <3> QED BY <3>3, <3>4, <3>5, <3>6 DEF TalkInv, TalkTypes
    <2> QED BY <1>5, <2>1, <2>2 DEF Queried
  <1>6. ASSUME NEW m \in Mounters, Received(m) \/ Uploaded(m) PROVE TalkInv'
    <2>1. /\ "bytes" \in Expects["upload"] /\ "bytes" \in MtRequests /\ {"receive", "upload", "mount"} \subseteq Talking
          /\ MountRequest(m) \in Expects["mount"] /\ MountRequest(m) \in MtRequests
      BY DEF Expects, MtRequests, Talking, MountRequest
    <2>2. CASE Received(m)
      BY <2>1, <2>2, NextRequest DEF Received
    <2>3. CASE Uploaded(m)
      BY <2>1, <2>3, NextRequest DEF Uploaded
    <2> QED BY <1>6, <2>2, <2>3
  <1>7. ASSUME NEW m \in Mounters, MountImage(m) PROVE TalkInv'
    <2>1. says[m] \in Seq(MtAnswers) /\ says[m] # <<>> /\ mp[m] = "mount"
      BY <1>7 DEF MountImage, TalkInv, TalkTypes
    <2>2. says[m][1] = "Complete"
      BY <1>7, <2>1, SoleMsg DEF MountImage, Heard
    <2>3. told[m] # "no"
      BY <2>1, <2>2 DEF TalkInv, TalkOK, Consent, Talking
    <2> QED BY <1>7, <2>3, LeavesTalk DEF MountImage
  <1>8. ASSUME NEW m \in Mounters, Fails(m) PROVE TalkInv'
    BY <1>8, LeavesTalk DEF Fails
  <1>9. ASSUME NEW m \in Mounters, MtLooks(m) \/ MtAgrees(m) \/ MtMounts(m) \/ MtRefuses(m) \/ MtCloses(m)
        PROVE  TalkInv'
    <2> USE DEF MtAnswers
    <2>0. mounted \in BOOLEAN /\ told \in [Mounters -> {"no", "yes", "stale"}]
      BY DEF TalkInv, TalkTypes
    <2>1. CASE MtLooks(m)
      <3>1. told'[m] = IF mounted THEN "yes" ELSE told[m]
        BY <2>0, <2>1 DEF MtLooks
      <3> QED BY <2>0, <2>1, <3>1, AnswerTalk DEF MtLooks
    <2>2. CASE MtAgrees(m)
      <3>1. PICK what \in {"ticket", "ack", "Complete"} :
              Listens(m) /\ MtSays(m, what) /\ (what = "Complete" => Wanted(m) = "bytes")
        BY <2>2 DEF MtAgrees
      <3> QED BY <2>0, <2>2, <3>1, AnswerTalk DEF MtAgrees
    <2>3. CASE MtMounts(m)
      <3>1. told'[m] = "yes" /\ mounted' = TRUE
        BY <2>0, <2>3 DEF MtMounts
      <3> QED BY <2>0, <2>3, <3>1, AnswerTalk DEF MtMounts
    <2>4. CASE MtRefuses(m) \/ MtCloses(m)
      BY <2>0, <2>4, AnswerTalk DEF MtRefuses, MtCloses
    <2> QED BY <1>9, <2>1, <2>2, <2>3, <2>4
  <1> QED BY <1>1, <1>2, <1>3, <1>4, <1>5, <1>6, <1>7, <1>8, <1>9, RebootTalk DEF MtNext

\* mount reports success only after the device has said to this run that the
\* image is there, and then it is unless the device has rebooted since: for any
\* number of processes, however their requests, the answers and reboots
\* interleave.
THEOREM MountReported == MtSpec => []MountedMeansMounted
  <1>1. TalkInv => MountedMeansMounted
    BY DEF TalkInv, TalkOK, MountedMeansMounted
  <1> QED BY <1>1, TalkInit, TalkStep, PTL DEF MtSpec

-----------------------------------------------------------------------------
(* The single-request services.                                            *)

Names ==
  {"Flush", "Hello", "GetConfig", "SetConfig", "Escalate", "EscalateResponse", "Migrate", "SessionInfo", "Drm",
   "ActivationInfo", "Albert", "HandleActivation", "Deactivate", "GasGauge", "DeveloperModeStatus",
   "EnableDeveloperMode", "GetWifiConnections", "EnableWifiConnections", "FrontMost", "SetOrientation",
   "GetOrientation", "Greeting", "VersionsOk", "ScreenShot", "Restart"}
Requests == [req : Names, accepts : SUBSET Shapes]

\* The requests of a command are distinct, and the code that reads an answer
\* takes no other refusal for consent than the ones Missed lists: read off the
\* commands one by one.
RequestOK(r) == r \in Requests /\ r.accepts \cap Refusals \subseteq Missed(r.req)
CommandOK(s) ==
  /\ s \in Seq(Requests) /\ Len(s) > 0
  /\ \A i, j \in DOMAIN s : s[i].req = s[j].req => i = j
  /\ \A i \in DOMAIN s : s[i].accepts \cap Refusals \subseteq Missed(s[i].req)

LEMMA RequestFacts ==
  ASSUME NEW r \in Names
  PROVE  /\ r \in {"Flush", "SetConfig", "EscalateResponse", "Migrate"} => RequestOK(Ack(r)) /\ Ack(r).req = r
         /\ RequestOK(Value(r)) /\ Value(r).req = r
         /\ r \in {"HandleActivation", "DeveloperModeStatus", "EnableDeveloperMode", "GetWifiConnections",
                  "EnableWifiConnections"} => RequestOK(NoError(r)) /\ NoError(r).req = r
         /\ r \in {"Hello", "Deactivate", "SetOrientation"} => RequestOK(Unread(r)) /\ Unread(r).req = r
         /\ r = "Restart" => RequestOK(Status(r)) /\ Status(r).req = r
  BY DEF RequestOK, Requests, Shapes, Acks, Ack, Value, NoError, Unread, Status, Refusals, Missed

LEMMA One == ASSUME NEW a, RequestOK(a) PROVE CommandOK(<<a>>)
  BY DEF CommandOK, RequestOK
LEMMA Two == ASSUME NEW a, NEW b, RequestOK(a), RequestOK(b), a.req # b.req PROVE CommandOK(<<a, b>>)
  BY DEF CommandOK, RequestOK
LEMMA Three ==
  ASSUME NEW a, NEW b, NEW c, RequestOK(a), RequestOK(b), RequestOK(c), a.req # b.req, a.req # c.req, b.req # c.req
  PROVE  CommandOK(<<a, b, c>>)
  BY DEF CommandOK, RequestOK
LEMMA Five ==
  ASSUME NEW a, NEW b, NEW c, NEW d, NEW e, RequestOK(a), RequestOK(b), RequestOK(c), RequestOK(d), RequestOK(e),
         a.req \notin {b.req, c.req, d.req, e.req}, b.req \notin {c.req, d.req, e.req}, c.req \notin {d.req, e.req},
         d.req # e.req
  PROVE  CommandOK(<<a, b, c, d, e>>)
  BY DEF CommandOK, RequestOK
LEMMA Six ==
  ASSUME NEW a, NEW b, NEW c, NEW d, NEW e, NEW f, RequestOK(a), RequestOK(b), RequestOK(c), RequestOK(d),
         RequestOK(e), RequestOK(f), a.req \notin {b.req, c.req, d.req, e.req, f.req},
         b.req \notin {c.req, d.req, e.req, f.req}, c.req \notin {d.req, e.req, f.req},
         d.req \notin {e.req, f.req}, e.req # f.req
  PROVE  CommandOK(<<a, b, c, d, e, f>>)
  BY DEF CommandOK, RequestOK

LEMMA CommandFacts == \A c \in DOMAIN Script : CommandOK(Script[c])
  <1> USE DEF Names
  <1>1. RequestOK(GetCloudConfig) /\ GetCloudConfig.req = "GetConfig"
    BY DEF GetCloudConfig, RequestOK, Requests, Shapes, Refusals, Missed
  <1>2. /\ RequestOK(Flush) /\ Flush.req = "Flush" /\ RequestOK(Hello) /\ Hello.req = "Hello"
        /\ RequestOK(SetCloudConfig) /\ SetCloudConfig.req = "SetConfig"
        /\ RequestOK(Escalate) /\ Escalate.req = "Escalate"
        /\ RequestOK(EscalateResponse) /\ EscalateResponse.req = "EscalateResponse"
        /\ RequestOK(ProceedKeybagMigration) /\ ProceedKeybagMigration.req = "Migrate"
    BY RequestFacts DEF Flush, Hello, SetCloudConfig, Escalate, EscalateResponse, ProceedKeybagMigration
  <1>3. CommandOK(SetupStatus) /\ CommandOK(Skip)
    BY <1>1, <1>2, Two, Three DEF SetupStatus, Skip
  <1>4. CommandOK(Enroll)
    BY <1>2, Six DEF Enroll
  <1>5. CommandOK(Activate)
    <2>1. /\ RequestOK(CreateTunnel1SessionInfo) /\ CreateTunnel1SessionInfo.req = "SessionInfo"
          /\ RequestOK(Value("Drm")) /\ Value("Drm").req = "Drm"
          /\ RequestOK(CreateActivationInfo) /\ CreateActivationInfo.req = "ActivationInfo"
          /\ RequestOK(Value("Albert")) /\ Value("Albert").req = "Albert"
          /\ RequestOK(HandleActivationWithSession) /\ HandleActivationWithSession.req = "HandleActivation"
      BY RequestFacts DEF CreateTunnel1SessionInfo, CreateActivationInfo, HandleActivationWithSession
    <2> QED BY <2>1, Five DEF Activate
  <1>6. CommandOK(TakeScreenshot)
    <2> DEFINE greeting == [req |-> "Greeting", accepts |-> {"good", "odd"}]
    <2>1. RequestOK(greeting) /\ greeting.req = "Greeting"
      BY DEF RequestOK, Requests, Shapes, Refusals, Missed
    <2>2. /\ RequestOK(Value("VersionsOk")) /\ Value("VersionsOk").req = "VersionsOk"
          /\ RequestOK(Value("ScreenShot")) /\ Value("ScreenShot").req = "ScreenShot"
      BY RequestFacts
    <2>3. TakeScreenshot = <<greeting, Value("VersionsOk"), Value("ScreenShot")>>
      BY DEF TakeScreenshot
    <2> HIDE DEF greeting
    <2> QED BY <2>1, <2>2, <2>3, Three
  <1>7. /\ CommandOK(<<Deactivate>>) /\ CommandOK(<<Status("Restart")>>) /\ CommandOK(<<DiagnosticsQuery>>)
        /\ CommandOK(<<DeveloperModeStatus>>) /\ CommandOK(<<EnableDeveloperMode>>)
    BY RequestFacts, One DEF Deactivate, DiagnosticsQuery, DeveloperModeStatus, EnableDeveloperMode
  <1>8. /\ CommandOK(<<GetWifiEnabled>>) /\ CommandOK(<<SetWifiEnabled>>) /\ CommandOK(<<SetOrientation>>)
        /\ CommandOK(<<GetOrientation>>) /\ CommandOK(<<GetForegroundApp>>)
    BY RequestFacts, One DEF GetWifiEnabled, SetWifiEnabled, SetOrientation, GetOrientation, GetForegroundApp
  <1> QED BY <1>3, <1>4, <1>5, <1>6, <1>7, <1>8 DEF Script

PsMsg == [to : {"device", "host"}, req : Names, shape : Shapes \cup {"none"}]
Seen(h, i) == Done(h, i) \/ Overlooked(h, i)

PsTypes ==
  /\ cmd \in [Hosts -> DOMAIN Script] /\ at \in [Hosts -> Nat] /\ wire \in [Hosts -> Seq(PsMsg)]
  /\ state \in [Hosts -> {"new", "already", "send", "recv", "ok", "failed"}] /\ did \in [Hosts -> Seq(Names)]
  /\ refused \in [Hosts -> SUBSET [req : Names, shape : Shapes]]

\* What is on a connection is the request the host is at, or its answer; an
\* answer was given for a deed, or is a refusal.
WireOK(h) ==
  wire[h] # <<>> =>
    /\ state[h] = "recv" /\ Len(wire[h]) = 1 /\ wire[h][1].req = This(h).req
    /\ wire[h][1].to = "host" =>
         \/ Done(h, at[h])
         \/ wire[h][1].shape \in Refusals /\ [req |-> This(h).req, shape |-> wire[h][1].shape] \in refused[h]

\* Every request before the one a host is at has been done, or its refusal was
\* overlooked; none after it has.
DeedsOK(h) ==
  /\ at[h] \in DOMAIN Script[cmd[h]]
  /\ state[h] \in {"new", "already"} => at[h] = 1 /\ did[h] = <<>>
  /\ \A i \in DOMAIN Script[cmd[h]] : i < at[h] => Seen(h, i)
  /\ \A i \in DOMAIN Script[cmd[h]] : i > at[h] => ~Done(h, i)
  /\ state[h] = "ok" => at[h] = Len(Script[cmd[h]]) /\ Seen(h, at[h])

PsInv == PsTypes /\ \A h \in Hosts : WireOK(h) /\ DeedsOK(h)

LEMMA ScriptDomain ==
  ASSUME NEW c \in DOMAIN Script
  PROVE  /\ Len(Script[c]) \in Nat /\ Len(Script[c]) > 0 /\ DOMAIN Script[c] = 1..Len(Script[c])
         /\ \A i \in DOMAIN Script[c] : Script[c][i].req \in Names
         /\ \A i, j \in DOMAIN Script[c] : Script[c][i].req = Script[c][j].req => i = j
         /\ \A i \in DOMAIN Script[c] : Script[c][i].accepts \cap Refusals \subseteq Missed(Script[c][i].req)
  <1>1. CommandOK(Script[c])
    BY CommandFacts
  <1> HIDE DEF Script
  <1> DEFINE s == Script[c]
  <1> HIDE DEF s
  <1>2. /\ s \in Seq(Requests) /\ Len(s) > 0
        /\ \A i, j \in DOMAIN s : s[i].req = s[j].req => i = j
        /\ \A i \in DOMAIN s : s[i].accepts \cap Refusals \subseteq Missed(s[i].req)
    BY <1>1 DEF CommandOK, s
  <1>3. \A r \in Requests : r.req \in Names
    BY DEF Requests
  <1>4. Len(s) \in Nat /\ DOMAIN s = 1..Len(s) /\ \A i \in DOMAIN s : s[i] \in Requests
    BY ONLY <1>2
  <1> QED BY <1>2, <1>3, <1>4 DEF s

LEMMA PsInvInit == PsInit => PsInv
  <1> SUFFICES ASSUME PsInit PROVE PsInv
    OBVIOUS
  <1>1. "skip" \in DOMAIN Script
    BY DEF Script
  <1>2. PsTypes
    BY <1>1 DEF PsInit, PsTypes
  <1>3. ASSUME NEW h \in Hosts PROVE WireOK(h) /\ DeedsOK(h)
    BY <1>1, ScriptDomain DEF PsInit, WireOK, DeedsOK, Done
  <1> QED BY <1>2, <1>3 DEF PsInv

\* A host not concerned in a step keeps its part of the invariant.
LEMMA OtherHost ==
  ASSUME NEW h, WireOK(h), DeedsOK(h),
         UNCHANGED <<cmd[h], at[h], state[h], wire[h], did[h], refused[h]>>
  PROVE  WireOK(h)' /\ DeedsOK(h)'
  BY DEF WireOK, DeedsOK, This, Done, Overlooked, Seen

LEMMA PsStep == PsInv /\ [PsNext]_psVars => PsInv'
  <1> HIDE DEF Script
  <1> SUFFICES ASSUME PsInv, [PsNext]_psVars PROVE PsInv'
    OBVIOUS
  <1>1. CASE UNCHANGED psVars
    BY <1>1, OtherHost DEF psVars, PsInv, PsTypes
  <1>2. ASSUME NEW h \in Hosts, PsStart(h) \/ PsSend(h) \/ PsRecv(h) \/ PsBreaks(h) \/ PsDoes(h) \/ PsRefuses(h)
        PROVE  PsInv'
    <2> USE DEF PsInv
    <2>1. ASSUME NEW k \in Hosts, k # h PROVE WireOK(k)' /\ DeedsOK(k)'
      <3>1. UNCHANGED <<cmd[k], at[k], state[k], wire[k], did[k], refused[k]>>
        BY <1>2, <2>1 DEF PsStart, PsSend, PsRecv, PsBreaks, PsDoes, PsRefuses, Answers, PsTypes
      <3> QED BY <3>1, OtherHost
    <2>0. /\ cmd[h] \in DOMAIN Script /\ at[h] \in DOMAIN Script[cmd[h]] /\ This(h).req \in Names
          /\ wire[h] \in Seq(PsMsg) /\ did[h] \in Seq(Names)
      BY ScriptDomain DEF PsTypes, DeedsOK, This
    <2>2. CASE PsStart(h)
      <3> DEFINE m == ToDevice("Greeting")
      <3>0. /\ "activate" \in DOMAIN Script /\ "screenshot" \in DOMAIN Script /\ Script["screenshot"][1].req = "Greeting"
            /\ m \in PsMsg /\ m.to = "device" /\ m.req = "Greeting"
        BY DEF Script, TakeScreenshot, ToDevice, PsMsg, Names
      <3> HIDE DEF m
      <3>1. <<m>> \in Seq(PsMsg) /\ Len(<<m>>) = 1 /\ <<m>>[1] = m
        BY <3>0, SoleMsg
      <3>2. wire[h] = <<>> /\ at[h] = 1 /\ did[h] = <<>> /\ UNCHANGED <<at, did, refused>>
        BY <2>2 DEF PsStart, WireOK, DeedsOK
      <3>3. cmd' \in [Hosts -> DOMAIN Script] /\ state'[h] \in {"send", "recv", "already", "failed"}
        <4>1. cmd' = cmd \/ \E c \in DOMAIN Script : cmd' = [cmd EXCEPT ![h] = c]
          BY <2>2, <3>0 DEF PsStart
        <4> QED BY <2>2, <4>1 DEF PsTypes, PsStart
      <3>4. \/ UNCHANGED wire
            \/ wire' = [wire EXCEPT ![h] = <<m>>] /\ cmd'[h] = "screenshot" /\ state'[h] = "recv"
        BY <2>2 DEF PsStart, PsTypes, m
      <3>5. PsTypes'
        <4>1. wire' \in [Hosts -> Seq(PsMsg)]
          BY <3>1, <3>4 DEF PsTypes
        <4> QED BY <2>2, <3>2, <3>3, <4>1 DEF PsTypes, PsStart
      <3>6. WireOK(h)'
        <4>1. CASE UNCHANGED wire
          BY <3>2, <4>1 DEF WireOK
        <4>2. CASE wire' = [wire EXCEPT ![h] = <<m>>] /\ cmd'[h] = "screenshot" /\ state'[h] = "recv"
          <5>1. wire'[h] = <<m>>
            BY <4>2 DEF PsTypes
          <5>2. This(h)'.req = "Greeting"
            BY <3>0, <3>2, <4>2 DEF This
          <5> QED BY <3>0, <3>1, <4>2, <5>1, <5>2 DEF WireOK
        <4> QED BY <3>4, <4>1, <4>2
      <3>7. DeedsOK(h)'
        <4>1. cmd'[h] \in DOMAIN Script
          BY <3>3
        <4>2. \A i : ~Done(h, i)'
          BY <3>2 DEF Done
        <4> QED BY <3>2, <3>3, <4>1, <4>2, ScriptDomain DEF DeedsOK
      <3> QED BY <2>1, <3>5, <3>6, <3>7
    <2>3. CASE PsSend(h)
      <3> DEFINE m == ToDevice(This(h).req)
      <3>1. m \in PsMsg /\ m.to = "device" /\ m.req = This(h).req
        BY <2>0 DEF PsMsg, ToDevice
      <3>2. wire[h] = <<>> /\ wire' = [wire EXCEPT ![h] = Append(wire[h], m)] /\ state[h] = "send"
            /\ state' = [state EXCEPT ![h] = "recv"] /\ UNCHANGED <<cmd, at, did, refused>>
        BY <2>3 DEF PsSend, WireOK, PsTypes
      <3> HIDE DEF m
      <3>3. Append(wire[h], m) = <<m>> /\ <<m>> \in Seq(PsMsg) /\ Len(<<m>>) = 1 /\ <<m>>[1] = m
        BY <2>0, <3>1, <3>2, SoleMsg
      <3>4. PsTypes' /\ wire'[h] = <<m>> /\ state'[h] = "recv"
        BY <3>2, <3>3 DEF PsTypes
      <3>5. WireOK(h)'
        BY <3>1, <3>2, <3>3, <3>4 DEF WireOK, This
      <3>6. DeedsOK(h)'
        BY <3>2, <3>4 DEF DeedsOK, Done, Overlooked, Seen
      <3> QED BY <2>1, <3>4, <3>5, <3>6
    <2>4. CASE PsRecv(h)
      <3> DEFINE good == wire[h][1].shape \in This(h).accepts
                 last == at[h] = Len(Script[cmd[h]])
      <3>1. /\ state[h] = "recv" /\ wire[h] # <<>> /\ Head(wire[h]) = wire[h][1] /\ wire[h][1].to = "host"
            /\ UNCHANGED <<cmd, did, refused>>
        BY <2>0, <2>4, SoleMsg DEF PsRecv
      <3>2. /\ wire' = [wire EXCEPT ![h] = <<>>]
            /\ state' = [state EXCEPT ![h] = IF ~good THEN "failed" ELSE IF last THEN "ok" ELSE "send"]
            /\ at' = [at EXCEPT ![h] = IF good /\ ~last THEN @ + 1 ELSE @]
        <4>1. Tail(wire[h]) = <<>>
          <5>1. Len(wire[h]) = 1 /\ wire[h] \in Seq(PsMsg) /\ wire[h][1] \in PsMsg
            <6>1. Len(wire[h]) = 1
              BY <3>1 DEF WireOK
            <6> QED BY <2>0, <6>1
          <5> QED BY <5>1, SoleMsg
        <4> QED BY <2>4, <3>1, <4>1 DEF PsRecv
      <3>3. good => Seen(h, at[h])
        <4>1. good /\ wire[h][1].shape \in Refusals => wire[h][1].shape \in Missed(This(h).req)
          BY <2>0, ScriptDomain DEF This
        <4> QED BY <2>0, <3>1, <4>1 DEF WireOK, Seen, Overlooked, This
      <3>4. PsTypes' /\ wire'[h] = <<>>
        BY <3>1, <3>2 DEF PsTypes
      <3>5. WireOK(h)'
        BY <3>4 DEF WireOK
      <3>6. CASE good /\ ~last
        <4>1. at'[h] = at[h] + 1 /\ state'[h] = "send" /\ at[h] \in Nat /\ at[h] + 1 \in DOMAIN Script[cmd[h]]
          BY <2>0, <3>2, <3>6, ScriptDomain DEF PsTypes
        <4>2. \A i \in DOMAIN Script[cmd[h]] : i \in Nat
          BY <2>0, ScriptDomain
        <4>3. \A i \in DOMAIN Script[cmd[h]] : i < at[h] + 1 => Seen(h, i)
          BY <3>3, <3>6, <4>1, <4>2 DEF DeedsOK
        <4>4. \A i \in DOMAIN Script[cmd[h]] : i > at[h] + 1 => ~Done(h, i)
          BY <4>1, <4>2 DEF DeedsOK
        <4>5. \A i : (Seen(h, i)' <=> Seen(h, i)) /\ (Done(h, i)' <=> Done(h, i))
          BY <3>1 DEF Seen, Overlooked, Done
        <4>6. DeedsOK(h)'
          BY <3>1, <4>1, <4>3, <4>4, <4>5 DEF DeedsOK
        <4> QED BY <2>1, <3>4, <3>5, <4>6
      <3>7. CASE ~(good /\ ~last)
        <4>1. at'[h] = at[h] /\ (state'[h] = "failed" \/ (state'[h] = "ok" /\ good /\ last))
          BY <3>2, <3>7 DEF PsTypes
        <4>2. DeedsOK(h)'
          BY <3>1, <3>3, <4>1 DEF DeedsOK, Seen, Overlooked, Done
        <4> QED BY <2>1, <3>4, <3>5, <4>2
      <3> QED BY <3>6, <3>7
    <2>5. CASE PsBreaks(h)
      <3>1. PsTypes' /\ wire'[h] = <<>> /\ state'[h] = "failed" /\ UNCHANGED <<cmd, at, did, refused>>
        BY <2>5 DEF PsBreaks, PsTypes
      <3>2. WireOK(h)' /\ DeedsOK(h)'
        BY <3>1 DEF WireOK, DeedsOK, Seen, Overlooked, Done
      <3> QED BY <2>1, <3>1, <3>2
    <2>6. ASSUME NEW s \in Shapes, Asked(h), Answers(h, s)
          PROVE  /\ wire' \in [Hosts -> Seq(PsMsg)] /\ state[h] = "recv" /\ Len(wire'[h]) = 1
                 /\ Head(wire[h]).req = This(h).req /\ wire'[h][1].req = This(h).req /\ wire'[h][1].shape = s
      <3> DEFINE m == [wire[h][1] EXCEPT !.to = "host", !.shape = s]
      <3>1. wire[h] # <<>> /\ Head(wire[h]) = wire[h][1] /\ wire[h][1] \in PsMsg
        BY <2>0, <2>6, SoleMsg DEF Asked
      <3>2. state[h] = "recv" /\ wire[h][1].req = This(h).req
        BY <3>1 DEF WireOK
      <3>3. m \in PsMsg /\ m.req = This(h).req /\ m.shape = s
        BY <3>1, <3>2 DEF PsMsg
      <3>4. wire' = [wire EXCEPT ![h] = <<m>>]
        BY <2>6, <3>1 DEF Answers
      <3> HIDE DEF m
      <3>5. <<m>> \in Seq(PsMsg) /\ Len(<<m>>) = 1 /\ <<m>>[1] = m
        BY <3>3, SoleMsg
      <3> QED BY <3>1, <3>2, <3>3, <3>4, <3>5 DEF PsTypes
    <2>7. CASE PsDoes(h)
      <3> DEFINE r == This(h).req
      <3>1. /\ wire' \in [Hosts -> Seq(PsMsg)] /\ state[h] = "recv" /\ Len(wire'[h]) = 1
            /\ Head(wire[h]).req = r /\ wire'[h][1].req = r
        BY <2>6, <2>7 DEF PsDoes, Shapes
      <3>2. did' = [did EXCEPT ![h] = Append(did[h], r)] /\ UNCHANGED <<cmd, at, state, refused>>
        BY <2>7, <3>1 DEF PsDoes, PsTypes
      <3>3. /\ Append(did[h], r) \in Seq(Names)
            /\ \A i \in DOMAIN did[h] : i \in DOMAIN Append(did[h], r) /\ Append(did[h], r)[i] = did[h][i]
            /\ \A i \in DOMAIN Append(did[h], r) : i \in DOMAIN did[h] \/ Append(did[h], r)[i] = r
            /\ \E i \in DOMAIN Append(did[h], r) : Append(did[h], r)[i] = r
            /\ \A i \in DOMAIN Append(did[h], r) : i \in DOMAIN did[h] => Append(did[h], r)[i] = did[h][i]
        BY <2>0, SoleMsg
      <3>4. PsTypes' /\ did'[h] = Append(did[h], r)
        BY <3>1, <3>2, <3>3 DEF PsTypes
      <3> HIDE DEF r
      <3>5. Done(h, at[h])' /\ This(h)' = This(h)
        BY <3>2, <3>3, <3>4 DEF Done, This, r
      <3>6. \A i \in DOMAIN Script[cmd[h]] : Done(h, i) => Done(h, i)'
        BY <3>2, <3>3, <3>4 DEF Done
      <3>7. \A i \in DOMAIN Script[cmd[h]] : i # at[h] /\ Done(h, i)' => Done(h, i)
        <4> SUFFICES ASSUME NEW i \in DOMAIN Script[cmd[h]], i # at[h], Done(h, i)' PROVE Done(h, i)
          OBVIOUS
        <4>1. Script[cmd[h]][i].req # r
          BY <2>0, ScriptDomain DEF This, r
        <4> QED BY <3>2, <3>3, <3>4, <4>1 DEF Done
      <3>8. WireOK(h)'
        BY <3>1, <3>2, <3>5 DEF WireOK, This, Done, r
      <3>9. DeedsOK(h)'
        <4>1. \A i \in DOMAIN Script[cmd[h]] : i > at[h] => i # at[h]
          BY <2>0, ScriptDomain
        <4>2. \A i : Overlooked(h, i)' <=> Overlooked(h, i)
          BY <3>2 DEF Overlooked
        <4> QED BY <3>1, <3>2, <3>6, <3>7, <4>1, <4>2 DEF DeedsOK, Seen
      <3> QED BY <2>1, <3>4, <3>8, <3>9
    <2>8. CASE PsRefuses(h)
      <3>1. PICK s \in Refusals :
              /\ Answers(h, s)
              /\ refused' = [refused EXCEPT ![h] = @ \cup {[req |-> Head(wire[h]).req, shape |-> s]}]
        BY <2>8 DEF PsRefuses
      <3>2. s \in Shapes /\ Asked(h) /\ UNCHANGED <<cmd, at, state, did>>
        BY <2>8 DEF PsRefuses, Refusals, Shapes
      <3>3. /\ wire' \in [Hosts -> Seq(PsMsg)] /\ state[h] = "recv" /\ Len(wire'[h]) = 1
            /\ Head(wire[h]).req = This(h).req /\ wire'[h][1].req = This(h).req /\ wire'[h][1].shape = s
        BY <2>6, <3>1, <3>2
      <3> DEFINE mine == [req |-> This(h).req, shape |-> s]
      <3>4. mine \in [req : Names, shape : Shapes] /\ refused'[h] = refused[h] \cup {mine}
        BY <2>0, <3>1, <3>2, <3>3 DEF PsTypes
      <3>5. PsTypes'
        <4>1. refused' \in [Hosts -> SUBSET [req : Names, shape : Shapes]]
          BY <2>0, <3>1, <3>3, <3>4 DEF PsTypes
        <4> QED BY <3>2, <3>3, <4>1 DEF PsTypes
      <3>6. WireOK(h)'
        <4>1. This(h)' = This(h) /\ mine \in refused'[h]
          BY <3>2, <3>4 DEF This
        <4> QED BY <3>1, <3>2, <3>3, <4>1 DEF WireOK
      <3>7. DeedsOK(h)'
        <4>1. \A i : (Done(h, i)' <=> Done(h, i)) /\ (Overlooked(h, i) => Overlooked(h, i)')
          BY <3>2, <3>4 DEF Overlooked, Done
        <4> QED BY <3>2, <4>1 DEF DeedsOK, Seen
      <3> QED BY <2>1, <3>5, <3>6, <3>7
    <2> QED BY <1>2, <2>2, <2>3, <2>4, <2>5, <2>7, <2>8
  <1> QED BY <1>1, <1>2 DEF PsNext

\* A command goes no further than the first request the device refuses and
\* does not report success, whatever is killed or breaks and in whatever shape
\* the device refuses, but for the refusals Missed says its client takes for
\* consent: for any number of hosts.
THEOREM CommandsStop == PsSpec => []StopsAtRefusal
  <1>1. PsInv => StopsAtRefusal
    <2> SUFFICES ASSUME PsInv, NEW h \in Hosts, NEW i \in DOMAIN Script[cmd[h]], ~Seen(h, i)
                 PROVE  /\ state[h] # "ok"
                        /\ \A k \in DOMAIN Script[cmd[h]] : k > i => ~Done(h, k)
      BY DEF StopsAtRefusal, Seen
    <2> HIDE DEF Script
    <2>1. /\ cmd[h] \in DOMAIN Script /\ at[h] \in DOMAIN Script[cmd[h]]
          /\ DOMAIN Script[cmd[h]] = 1..Len(Script[cmd[h]]) /\ Len(Script[cmd[h]]) \in Nat
      BY ScriptDomain DEF PsInv, PsTypes, DeedsOK
    <2>2. i >= at[h] /\ (state[h] = "ok" => i # at[h] /\ at[h] = Len(Script[cmd[h]]))
      BY <2>1 DEF PsInv, DeedsOK
    <2> QED BY <2>1, <2>2 DEF PsInv, DeedsOK
  <1> QED BY <1>1, PsInvInit, PsStep, PTL DEF PsSpec

=============================================================================
