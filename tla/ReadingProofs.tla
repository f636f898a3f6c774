--------------------------- MODULE ReadingProofs ---------------------------
(***************************************************************************)
(* What is read is what was written.  A name in the list of images or      *)
(* kernels means what it says: read by the parsers of references and       *)
(* written out again it is the same name.  And a Dockerfile is carried out *)
(* line by line.                                                           *)
(***************************************************************************)
EXTENDS ImageProofs, FiniteSetTheorems

-----------------------------------------------------------------------------
(* The invariant.                                                          *)
Again(n) == FullName(ParseImageRef(n)) = n
KAgain(k) == KernelName(ParseKernelRef(k.fields)) = k
Sound(store, n) == IF store = "image" THEN Again(n) ELSE KAgain(n)

(* A reference whose full name can be read again. *)
WellNamed(ref) ==
  /\ IsSeq(ref.repository) /\ ref.repository # <<>>
  /\ Len(ref.repository) > 1 \/ isRegistryHost(ref.registry)
  /\ IsSeq(Last(ref.repository)) /\ Last(ref.repository) # <<>>
  /\ ref.digest # "" => Len(Last(ref.repository)) = 1

(* A process that has names to write: an id that is looked for in the      *)
(* index has its names only when the index was read.                       *)
HasNames(p) ==
  \/ Fetches(p)
  \/ /\ Indexing(p)
     /\ loc[p].at = "load" => loc[p].next \notin {"removing", "kernel removing"}

NamesSound(p) == HasNames(p) => \A n \in loc[p].names : Sound(loc[p].store, n)
CopySound(p) ==
  loc[p].at \in {"truncate", "write"} => \A n \in DOMAIN loc[p].idx : Sound(loc[p].store, n)
RefSound(p) == loc[p].at \in {"platform", "config", "save image"} => WellNamed(loc[p].ref)

IndexSound == \A s \in {"image", "kernel"} : \A n \in DOMAIN index[s] : Sound(s, n)
ArchiveSound == archive # <<>> => Again(archive[1].name)
CommandsWritten == \A p \in Proc : \A i \in DOMAIN todo[p] : WellWritten(todo[p][i].raw)

NameInv ==
  /\ IndexSound /\ ArchiveSound /\ CommandsWritten
  /\ \A p \in Proc : NamesSound(p) /\ CopySound(p) /\ RefSound(p)

-----------------------------------------------------------------------------
(* Sequences: the last element and what is before it, the first and what   *)
(* follows.                                                                *)
LEMMA SeqFacts ==
  ASSUME NEW s, IsSeq(s)
  PROVE  Len(s) \in Nat /\ DOMAIN s = 1 .. Len(s) /\ (s # <<>> <=> Len(s) > 0)
<1>1. Len(s) \in Nat /\ DOMAIN s = 1 .. Len(s)
  BY LenProperties DEF IsSeq
<1>2. s # <<>> => Len(s) \in Nat \ {0}
  BY EmptySeq DEF IsSeq
<1>3. s = <<>> => Len(s) = 0
  OBVIOUS
<1>4. QED
  BY <1>1, <1>2, <1>3

LEMMA SameSeq ==
  ASSUME NEW s, NEW t, IsSeq(s), IsSeq(t), Len(s) = Len(t), \A i \in 1 .. Len(s) : s[i] = t[i]
  PROVE  s = t
<1>1. /\ Len(s) \in Nat /\ s \in [1 .. Len(s) -> Range(s)]
      /\ t \in [1 .. Len(s) -> Range(t)]
  BY LenProperties DEF IsSeq
<1>2. QED
  BY <1>1

LEMMA AppendFacts ==
  ASSUME NEW s, NEW e, IsSeq(s)
  PROVE  /\ IsSeq(Append(s, e)) /\ Len(Append(s, e)) = Len(s) + 1
         /\ \A i \in 1 .. Len(s) : Append(s, e)[i] = s[i]
         /\ Last(Append(s, e)) = e /\ Append(s, e) # <<>>
<1> DEFINE S == Range(s) \cup {e}
<1>1. s \in Seq(S)
  BY SeqMonotonic DEF IsSeq
<1>2. /\ Append(s, e) \in Seq(S) /\ Len(Append(s, e)) = Len(s) + 1
      /\ \A i \in 1 .. Len(s) : Append(s, e)[i] = s[i]
      /\ Append(s, e)[Len(s) + 1] = e /\ Append(s, e) # <<>>
  BY <1>1, AppendProperties
<1>3. IsSeq(Append(s, e))
  BY <1>2, SeqIsSeq
<1>4. QED
  BY <1>2, <1>3 DEF Last

LEMMA FrontFacts ==
  ASSUME NEW s, IsSeq(s), s # <<>>
  PROVE  /\ IsSeq(Front(s)) /\ Len(Front(s)) = Len(s) - 1
         /\ \A i \in 1 .. Len(s) - 1 : Front(s)[i] = s[i]
         /\ Append(Front(s), Last(s)) = s
<1>1. s \in Seq(Range(s)) /\ Len(s) \in Nat /\ Len(s) > 0
  BY SeqFacts DEF IsSeq
<1>2. /\ Front(s) \in Seq(Range(s))
      /\ Len(Front(s)) = IF 1 <= Len(s) - 1 THEN Len(s) - 1 - 1 + 1 ELSE 0
      /\ \A i \in 1 .. Len(s) - 1 - 1 + 1 : Front(s)[i] = s[1 + i - 1]
  <2>1. 1 \in Int /\ Len(s) - 1 \in Int
    BY <1>1
  <2>2. \A i \in 1 .. Len(s) - 1 : s[i] \in Range(s)
    BY <1>1, ElementOfSeq
  <2>3. QED
    BY <2>1, <2>2, SubSeqProperties DEF Front
<1>3. Len(Front(s)) = Len(s) - 1
  <2>1. PICK n, m : n = Len(s) /\ m = Len(Front(s))
    OBVIOUS
  <2>2. n \in Nat /\ n > 0 /\ m = IF 1 <= n - 1 THEN n - 1 - 1 + 1 ELSE 0
    BY <1>1, <1>2, <2>1
  <2>3. m = n - 1
    BY <2>2
  <2>4. QED
    BY <2>1, <2>3
<1>4. \A i \in 1 .. Len(s) - 1 : Front(s)[i] = s[i]
  BY <1>1, <1>2
<1>5. IsSeq(Front(s))
  BY <1>2, SeqIsSeq
<1>6. Append(Front(s), Last(s)) = s
  <2> DEFINE t == Append(Front(s), Last(s))
  <2>1. /\ IsSeq(t) /\ Len(t) = Len(Front(s)) + 1 /\ Last(t) = Last(s)
        /\ \A i \in 1 .. Len(Front(s)) : t[i] = Front(s)[i]
    BY <1>5, AppendFacts
  <2> HIDE DEF t
  <2>2. Len(t) = Len(s)
    BY <1>1, <1>3, <2>1
  <2>3. t[Len(s)] = s[Len(s)]
    BY <2>1, <2>2 DEF Last
  <2>4. ASSUME NEW i \in 1 .. Len(s)
        PROVE  t[i] = s[i]
    <3>1. i = Len(s) \/ (i \in 1 .. Len(s) - 1 /\ i \in 1 .. Len(Front(s)))
      BY <1>1, <1>3
    <3>2. QED
      BY <1>4, <2>1, <2>3, <3>1
  <2>5. t = s
    BY <2>1, <2>2, <2>4, SameSeq
  <2>6. QED
    BY <2>5 DEF t
<1>7. QED
  BY <1>3, <1>4, <1>5, <1>6

LEMMA FrontOfAppend ==
  ASSUME NEW s, NEW e, IsSeq(s)
  PROVE  Front(Append(s, e)) = s
<1> DEFINE t == Append(s, e)
<1>1. IsSeq(t) /\ Len(t) = Len(s) + 1 /\ (\A i \in 1 .. Len(s) : t[i] = s[i]) /\ t # <<>>
  BY AppendFacts
<1> HIDE DEF t
<1>2. /\ IsSeq(Front(t)) /\ Len(Front(t)) = Len(t) - 1
      /\ \A i \in 1 .. Len(t) - 1 : Front(t)[i] = t[i]
  BY <1>1, FrontFacts
<1>3. Len(t) - 1 = Len(s)
  BY <1>1, SeqFacts
<1>4. Front(t) = s
  BY <1>1, <1>2, <1>3, SameSeq
<1>5. QED
  BY <1>4 DEF t

LEMMA ConsFacts ==
  ASSUME NEW a, NEW s, IsSeq(s)
  PROVE  LET t == <<a>> \o s
         IN  /\ IsSeq(t) /\ Len(t) = Len(s) + 1 /\ t[1] = a
             /\ \A i \in 1 .. Len(s) : t[i + 1] = s[i]
             /\ s # <<>> => Last(t) = Last(s)
<1> DEFINE S == Range(s) \cup {a}
           b == <<a>>
           t == b \o s
<1>1. s \in Seq(S) /\ b \in Seq(S) /\ Len(b) = 1 /\ b[1] = a
  BY SeqMonotonic DEF IsSeq
<1>2. Len(s) \in Nat /\ (s # <<>> <=> Len(s) > 0)
  BY SeqFacts
<1> HIDE DEF S, b
<1>3. /\ t \in Seq(S) /\ Len(t) = Len(b) + Len(s)
      /\ \A i \in 1 .. Len(b) + Len(s) : t[i] = IF i <= Len(b) THEN b[i] ELSE s[i - Len(b)]
  BY <1>1, ConcatProperties
<1>4. Len(t) = Len(s) + 1 /\ t[1] = a
  BY <1>1, <1>2, <1>3
<1>5. ASSUME NEW i \in 1 .. Len(s)
      PROVE  t[i + 1] = s[i]
  <2>1. i + 1 \in 1 .. Len(b) + Len(s) /\ ~(i + 1 <= Len(b)) /\ i + 1 - Len(b) = i
    BY <1>1, <1>2
  <2>2. QED
    BY <1>3, <2>1
<1>6. IsSeq(t)
  BY <1>3, SeqIsSeq
<1>7. ASSUME s # <<>>
      PROVE  Last(t) = Last(s)
  <2>1. Len(s) \in 1 .. Len(s)
    BY <1>2, <1>7
  <2>2. QED
    BY <1>4, <1>5, <2>1 DEF Last
<1>8. QED
  BY <1>4, <1>5, <1>6, <1>7 DEF b

LEMMA TailFacts ==
  ASSUME NEW s, IsSeq(s), s # <<>>
  PROVE  /\ IsSeq(Tail(s)) /\ Len(Tail(s)) = Len(s) - 1
         /\ \A i \in 1 .. Len(s) - 1 : Tail(s)[i] = s[i + 1]
         /\ Len(s) > 1 => Last(Tail(s)) = Last(s)
         /\ <<s[1]>> \o Tail(s) = s
<1>1. s \in Seq(Range(s)) /\ Len(s) \in Nat /\ Len(s) > 0
  BY SeqFacts DEF IsSeq
<1>2. /\ Tail(s) \in Seq(Range(s)) /\ Len(Tail(s)) = Len(s) - 1
      /\ \A i \in 1 .. Len(Tail(s)) : Tail(s)[i] = s[i + 1]
  BY <1>1, HeadTailProperties
<1>3. IsSeq(Tail(s))
  BY <1>2, SeqIsSeq
<1>4. ASSUME Len(s) > 1
      PROVE  Last(Tail(s)) = Last(s)
  <2>1. Len(Tail(s)) \in 1 .. Len(Tail(s)) /\ Len(Tail(s)) + 1 = Len(s)
    BY <1>1, <1>2, <1>4
  <2>2. Tail(s)[Len(Tail(s))] = s[Len(Tail(s)) + 1]
    BY <1>2, <2>1
  <2>3. QED
    BY <2>1, <2>2 DEF Last
<1>5. <<s[1]>> \o Tail(s) = s
  <2> DEFINE t == <<s[1]>> \o Tail(s)
  <2>1. /\ IsSeq(t) /\ Len(t) = Len(Tail(s)) + 1 /\ t[1] = s[1]
        /\ \A i \in 1 .. Len(Tail(s)) : t[i + 1] = Tail(s)[i]
    BY <1>3, ConsFacts
  <2> HIDE DEF t
  <2>2. Len(t) = Len(s)
    BY <1>1, <1>2, <2>1
  <2>3. ASSUME NEW i \in 1 .. Len(s)
        PROVE  t[i] = s[i]
    <3>1. CASE i = 1
      BY <2>1, <3>1
    <3>2. CASE i # 1
      <4>1. i - 1 \in 1 .. Len(Tail(s)) /\ i - 1 + 1 = i
        BY <1>1, <1>2, <3>2
      <4>2. t[i - 1 + 1] = Tail(s)[i - 1] /\ Tail(s)[i - 1] = s[i - 1 + 1]
        BY <1>2, <2>1, <4>1
      <4>3. QED
        BY <4>1, <4>2
    <3>3. QED
      BY <3>1, <3>2
  <2>4. t = s
    BY <2>1, <2>2, <2>3, SameSeq
  <2>5. QED
    BY <2>4 DEF t
<1>6. QED
  BY <1>2, <1>3, <1>4, <1>5

-----------------------------------------------------------------------------
(* Names of images.                                                        *)

(* What is between the slashes of a full name before the tag is added.     *)
Path(ref) == <<ref.registry>> \o ref.repository

LEMMA PathFacts ==
  ASSUME NEW ref, WellNamed(ref)
  PROVE  /\ IsSeq(Path(ref)) /\ Len(Path(ref)) > 1 /\ Path(ref) # <<>>
         /\ Path(ref)[1] = ref.registry
         /\ Len(Path(ref)) > 2 \/ isRegistryHost(ref.registry)
         /\ Last(Path(ref)) = Last(ref.repository)
<1>1. /\ IsSeq(Path(ref)) /\ Len(Path(ref)) = Len(ref.repository) + 1
      /\ Path(ref)[1] = ref.registry /\ Last(Path(ref)) = Last(ref.repository)
  BY ConsFacts DEF WellNamed, Path
<1>2. Len(ref.repository) \in Nat /\ Len(ref.repository) > 0
  BY SeqFacts DEF WellNamed
<1>3. Len(Path(ref)) > 1 /\ Path(ref) # <<>>
  BY <1>1, <1>2, SeqFacts
<1>4. Len(ref.repository) > 1 => Len(Path(ref)) > 2
  BY <1>1, <1>2
<1>5. QED
  BY <1>1, <1>3, <1>4 DEF WellNamed

(* A registry and a repository that are read as such.                      *)
LEMMA ReadsPath ==
  ASSUME NEW path, IsSeq(path), Len(path) > 1, Len(path) > 2 \/ isRegistryHost(path[1]),
         NEW raw, IsSeq(raw.parts), IsSeq(Last(raw.parts)),
         path = IF Len(Last(raw.parts)) = 1 THEN raw.parts
                ELSE Append(Front(raw.parts), Front(Last(raw.parts)))
  PROVE  /\ Path(ParseImageRef(raw)) = path
         /\ ParseImageRef(raw).digest = raw.digest
         /\ Len(Last(raw.parts)) # 1 => ParseImageRef(raw).tag = Last(Last(raw.parts))
<1> DEFINE ref == ParseImageRef(raw)
<1>1. Len(path) \in Nat /\ path # <<>>
  <2>1. PICK n : n = Len(path)
    OBVIOUS
  <2>2. n \in Nat /\ n > 1 /\ (path # <<>> <=> n > 0)
    BY <2>1, SeqFacts
  <2>3. n > 0
    BY <2>2
  <2>4. QED
    BY <2>1, <2>2, <2>3
<1>2. Len(path) > 2 \/ (Len(path) = 2 /\ isRegistryHost(path[1]))
  <2>1. PICK n : n = Len(path)
    OBVIOUS
  <2>2. n \in Nat /\ n > 1 /\ (n > 2 \/ isRegistryHost(path[1]))
    BY <1>1, <2>1
  <2>3. n > 2 \/ n = 2
    BY <2>2
  <2>4. QED
    BY <2>1, <2>2, <2>3
<1>3. /\ ref.registry = path[1] /\ ref.repository = Tail(path) /\ ref.digest = raw.digest
      /\ Len(Last(raw.parts)) # 1 => ref.tag = Last(Last(raw.parts))
  BY <1>2 DEF ParseImageRef
<1>4. <<path[1]>> \o Tail(path) = path
  BY <1>1, TailFacts
<1> HIDE DEF ref
<1>5. QED
  BY <1>3, <1>4 DEF ref, Path

(* The full name of a well named reference is read as the same parts.      *)
LEMMA NamesAgain ==
  ASSUME NEW ref, WellNamed(ref)
  PROVE  Again(FullName(ref))
<1> DEFINE path == Path(ref)
           last == Last(path)
           n == FullName(ref)
           again == ParseImageRef(n)
<1>1. /\ IsSeq(path) /\ Len(path) > 1 /\ path # <<>>
      /\ Len(path) > 2 \/ isRegistryHost(path[1])
      /\ IsSeq(last) /\ last # <<>> /\ (ref.digest # "" => Len(last) = 1)
  BY PathFacts DEF WellNamed
<1>2. /\ n.parts = IF ref.digest # "" THEN path ELSE Append(Front(path), Append(last, ref.tag))
      /\ n.digest = ref.digest
      /\ n = [parts |-> n.parts, digest |-> n.digest]
  BY DEF FullName, Path
<1>3. FullName(again) =
        [parts |-> IF again.digest # "" THEN Path(again)
                   ELSE Append(Front(Path(again)), Append(Last(Path(again)), again.tag)),
         digest |-> again.digest]
  BY DEF FullName, Path
<1> HIDE DEF path, n, again
<1>4. CASE ref.digest # ""
  <2>1. n.parts = path /\ Len(Last(n.parts)) = 1
    BY <1>1, <1>2, <1>4
  <2>2. Path(again) = path /\ again.digest = ref.digest
    BY <1>1, <1>2, <2>1, ReadsPath DEF again
  <2>3. QED
    BY <1>2, <1>3, <1>4, <2>1, <2>2 DEF Again, again, n
<1>5. CASE ref.digest = ""
  <2> DEFINE tagged == Append(last, ref.tag)
  <2>1. /\ IsSeq(tagged) /\ Len(tagged) = Len(last) + 1 /\ Last(tagged) = ref.tag
        /\ Front(tagged) = last
    <3>1. IsSeq(last)
      BY <1>1
    <3> HIDE DEF last
    <3>2. IsSeq(tagged) /\ Len(tagged) = Len(last) + 1 /\ Last(tagged) = ref.tag
      BY <3>1, AppendFacts
    <3>3. Front(tagged) = last
      BY <3>1, FrontOfAppend
    <3>4. QED
      BY <3>2, <3>3
  <2>2. Len(last) \in Nat /\ Len(last) > 0
    BY <1>1, SeqFacts
  <2>3. Len(tagged) # 1
    BY <2>1, <2>2
  <2> HIDE DEF tagged
  <2>4. IsSeq(Front(path)) /\ Append(Front(path), last) = path
    BY <1>1, FrontFacts
  <2>5. n.parts = Append(Front(path), tagged)
    BY <1>2, <1>5 DEF tagged
  <2>6. IsSeq(n.parts) /\ Last(n.parts) = tagged /\ Front(n.parts) = Front(path)
    BY <2>4, <2>5, AppendFacts, FrontOfAppend
  <2>7. Append(Front(n.parts), Front(Last(n.parts))) = path
    BY <2>1, <2>4, <2>6
  <2>8. Path(again) = path /\ again.digest = ref.digest /\ again.tag = ref.tag
    BY <1>1, <1>2, <2>1, <2>3, <2>6, <2>7, ReadsPath DEF again
  <2>9. FullName(again).parts = n.parts /\ FullName(again).digest = n.digest
    BY <1>2, <1>3, <1>5, <2>5, <2>8 DEF tagged
  <2>10. QED
    BY <1>2, <1>3, <2>9 DEF Again, again, n
<1>6. QED
  BY <1>4, <1>5

(* What users write, as far as it is well written, becomes such a          *)
(* reference.                                                              *)
LEMMA UsersNames ==
  ASSUME NEW raw, WellWritten(raw)
  PROVE  WellNamed(ParseImageRef(raw))
<1> DEFINE parts == raw.parts
           last == Last(parts)
           rest == IF Len(last) = 1 THEN parts ELSE Append(Front(parts), Front(last))
           named == Len(rest) > 2 \/ (Len(rest) = 2 /\ isRegistryHost(rest[1]))
           ref == ParseImageRef(raw)
<1>1. /\ IsSeq(parts) /\ parts # <<>> /\ IsSeq(last) /\ last # <<>>
      /\ raw.digest # "" => Len(last) <= 2
  BY DEF WellWritten
<1>2. Len(last) \in Nat /\ Len(last) > 0
  BY <1>1, SeqFacts
<1>3. /\ ref.registry = IF named THEN rest[1] ELSE <<"docker.io">>
      /\ ref.repository = IF named THEN Tail(rest)
                          ELSE IF Len(rest) = 1 THEN <<<<"library">>>> \o rest ELSE rest
      /\ ref.digest = raw.digest
  BY DEF ParseImageRef
<1>4. /\ IsSeq(rest) /\ rest # <<>> /\ IsSeq(Last(rest)) /\ Last(rest) # <<>>
      /\ raw.digest # "" => Len(Last(rest)) = 1
  <2>1. CASE Len(last) = 1
    BY <1>1, <2>1
  <2>2. CASE Len(last) # 1
    <3>1. IsSeq(Front(parts)) /\ IsSeq(Front(last)) /\ Len(Front(last)) = Len(last) - 1
      BY <1>1, FrontFacts
    <3>2. IsSeq(rest) /\ rest # <<>> /\ Last(rest) = Front(last)
      BY <2>2, <3>1, AppendFacts
    <3>3. Len(Front(last)) > 0 /\ (Len(last) <= 2 => Len(Front(last)) = 1)
      <4>1. PICK k, j : k = Len(last) /\ j = Len(Front(last))
        OBVIOUS
      <4>2. k \in Nat /\ k > 0 /\ k # 1 /\ j = k - 1
        BY <1>2, <2>2, <3>1, <4>1
      <4>3. j > 0 /\ (k <= 2 => j = 1)
        BY <4>2
      <4>4. QED
        BY <4>1, <4>3
    <3>4. Front(last) # <<>>
      BY <3>1, <3>3, SeqFacts
    <3> HIDE DEF rest, last
    <3>5. QED
      BY <1>1, <3>1, <3>2, <3>3, <3>4
  <2>3. QED
    BY <2>1, <2>2
<1> HIDE DEF rest, ref
<1>5. Len(rest) \in Nat /\ Len(rest) > 0
  BY <1>4, SeqFacts
<1>6. CASE named
  <2>1. Len(rest) > 1
    <3>1. PICK k : k = Len(rest)
      OBVIOUS
    <3>2. k > 2 \/ k = 2
      BY <1>6, <3>1
    <3>3. k > 1
      BY <1>5, <3>1, <3>2
    <3>4. QED
      BY <3>1, <3>3
  <2>2. IsSeq(Tail(rest)) /\ Len(Tail(rest)) = Len(rest) - 1 /\ Last(Tail(rest)) = Last(rest)
    BY <1>4, <2>1, TailFacts
  <2>3. Len(Tail(rest)) > 0 /\ (Len(rest) > 2 => Len(Tail(rest)) > 1)
    BY <1>5, <2>1, <2>2
  <2>4. Tail(rest) # <<>>
    BY <2>2, <2>3, SeqFacts
  <2>5. ref.registry = rest[1] /\ ref.repository = Tail(rest)
    BY <1>3, <1>6
  <2>6. Len(Tail(rest)) > 1 \/ isRegistryHost(rest[1])
    BY <1>6, <2>3
  <2>7. QED
    BY <1>3, <1>4, <2>2, <2>4, <2>5, <2>6 DEF WellNamed, ref
<1>7. CASE ~named
  <2>1. CASE Len(rest) = 1
    <3> DEFINE full == <<<<"library">>>> \o rest
    <3>1. IsSeq(full) /\ Len(full) = Len(rest) + 1 /\ Last(full) = Last(rest)
      BY <1>4, ConsFacts
    <3>2. ref.repository = full
      BY <1>3, <1>7, <2>1
    <3> HIDE DEF full
    <3>3. Len(full) > 1 /\ full # <<>>
      BY <1>5, <3>1, SeqFacts
    <3>4. QED
      BY <1>3, <1>4, <3>1, <3>2, <3>3 DEF WellNamed, ref
  <2>2. CASE Len(rest) # 1
    <3>1. ref.repository = rest
      BY <1>3, <1>7, <2>2
    <3>2. Len(rest) > 1
      <4>1. PICK n : n = Len(rest)
        OBVIOUS
      <4>2. n \in Nat /\ n > 0 /\ n # 1
        BY <1>5, <2>2, <4>1
      <4>3. n > 1
        BY <4>2
      <4>4. QED
        BY <4>1, <4>3
    <3>3. QED
      BY <1>3, <1>4, <3>1, <3>2 DEF WellNamed, ref
  <2>3. QED
    BY <2>1, <2>2
<1>8. QED
  BY <1>6, <1>7

(* So does what a registry serves.                                         *)
LEMMA ServedNames ==
  ASSUME RegistriesAreHosts, NEW ref,
         <<ref.registry, ref.repository, ref.tag>> \in DOMAIN Remote
  PROVE  WellNamed(ref)
<1> DEFINE name == <<ref.registry, ref.repository, ref.tag>>
<1>1. name[1] = ref.registry /\ name[2] = ref.repository
  OBVIOUS
<1> HIDE DEF name
<1>2. /\ IsSeq(ref.repository) /\ ref.repository # <<>>
      /\ Len(ref.repository) > 1 \/ isRegistryHost(ref.registry)
      /\ IsSeq(Last(ref.repository)) /\ Len(Last(ref.repository)) = 1
  BY <1>1 DEF RegistriesAreHosts, name
<1>3. Last(ref.repository) # <<>>
  <2>1. PICK last : last = Last(ref.repository)
    OBVIOUS
  <2>2. IsSeq(last) /\ Len(last) = 1
    BY <1>2, <2>1
  <2>3. last # <<>>
    BY <2>2, SeqFacts
  <2>4. QED
    BY <2>1, <2>3
<1>4. QED
  BY <1>2, <1>3 DEF WellNamed

(* Names of kernels: every sequence of fields is read as itself.           *)
LEMMA KernelsAgain ==
  ASSUME NEW r, ReqOK(r)
  PROVE  KAgain(KernelName(r))
<1> DEFINE k == KernelName(r)
           f == k.fields
           rest == Tail(f)
           known == Len(rest) = 2 /\ rest[2] \in Arches
           again == ParseKernelRef(f)
<1>1. IsSeq(f) /\ Len(f) = Len(r.version) + 2 /\ Len(r.version) \in Nat
  BY NameOfKernel
<1>2. k = [fields |-> f]
  BY DEF KernelName
<1>3. /\ again.distro = f[1] /\ again.version = IF known THEN <<rest[1]>> ELSE rest
      /\ again.arch = IF known THEN rest[2] ELSE ""
  BY DEF ParseKernelRef
<1>4. KernelName(again) =
        [fields |-> <<again.distro>> \o again.version \o
                      IF again.arch = "" THEN <<>> ELSE <<again.arch>>]
  BY DEF KernelName
<1> HIDE DEF k, f, again
<1>5. f # <<>>
  BY <1>1, SeqFacts
<1>6. /\ IsSeq(rest) /\ Len(rest) = Len(f) - 1 /\ <<f[1]>> \o rest = f
      /\ \A i \in 1 .. Len(f) - 1 : rest[i] = f[i + 1]
  BY <1>1, <1>5, TailFacts
<1> HIDE DEF rest
<1>7. CASE known
  <2>1. rest[2] # ""
    BY <1>7 DEF Arches
  <2>2. again.distro = f[1] /\ again.version = <<rest[1]>> /\ again.arch = rest[2]
    BY <1>3, <1>7
  <2>3. rest = <<rest[1]>> \o <<rest[2]>>
    <3>1. PICK t : t = Tail(rest)
      OBVIOUS
    <3>2. Len(rest) = 2 /\ rest # <<>>
      <4>1. PICK n : n = Len(rest)
        OBVIOUS
      <4>2. n = 2 /\ (rest # <<>> <=> n > 0)
        BY <1>6, <1>7, <4>1, SeqFacts
      <4>3. QED
        BY <4>1, <4>2
    <3>3. /\ IsSeq(t) /\ Len(t) = 1 /\ t[1] = rest[2] /\ <<rest[1]>> \o t = rest
      BY <1>6, <3>1, <3>2, TailFacts
    <3>4. t = <<rest[2]>>
      BY <3>3, LenProperties DEF IsSeq
    <3>5. QED
      BY <3>3, <3>4
  <2>4. (<<f[1]>> \o <<rest[1]>>) \o <<rest[2]>> = f
    <3> DEFINE S == {f[1], rest[1], rest[2]}
    <3>1. <<f[1]>> \in Seq(S) /\ <<rest[1]>> \in Seq(S) /\ <<rest[2]>> \in Seq(S)
      OBVIOUS
    <3>2. (<<f[1]>> \o <<rest[1]>>) \o <<rest[2]>> = <<f[1]>> \o (<<rest[1]>> \o <<rest[2]>>)
      BY <3>1, ConcatAssociative
    <3>3. QED
      BY <1>6, <2>3, <3>2
  <2>5. QED
    BY <1>2, <1>4, <2>1, <2>2, <2>4 DEF KAgain, k, f, again
<1>8. CASE ~known
  <2>1. again.version = rest /\ again.arch = ""
    BY <1>3, <1>8
  <2>2. f \o <<>> = f
    BY <1>1, ConcatEmptySeq DEF IsSeq
  <2>3. QED
    BY <1>2, <1>3, <1>4, <1>6, <2>1, <2>2 DEF KAgain, k, f, again
<1>9. QED
  BY <1>7, <1>8

-----------------------------------------------------------------------------
(* What the steps do to names and references.                              *)

(* The places that lead on to a request for a manifest's image.            *)
LEMMA PullingByPlace ==
  ASSUME NEW p \in Proc, Act(p), loc[p].at \in PullPlaces
  PROVE  \/ PullResolve(p) \/ FetchManifest(p) \/ FetchPlatform(p) \/ FetchConfig(p)
         \/ FailedAttempt(p) \/ Killed(p)
<1>1. loc[p].at \in Watched
  BY DEF PullPlaces, Watched
<1>2. ~NextLayer(p) /\ ~GetBlob(p) /\ ~ExtractEntry(p) /\ ~VerifyLayer(p) /\ ~SaveImage(p)
  BY DEF NextLayer, GetBlob, ExtractEntry, VerifyLayer, SaveImage, At, PullPlaces
<1>3. ~LoadIndex(p) /\ ~Truncate(p) /\ ~SaveIndex(p) /\ ~RmiResolve(p) /\ ~RemoveAll(p)
      /\ ~ReadArchive(p)
  BY DEF LoadIndex, Truncate, SaveIndex, RmiResolve, RemoveAll, ReadArchive, At, PullPlaces
<1>4. ~CommitKernel(p) /\ ~CommitRootfs(p) /\ ~CommitSave(p) /\ ~CopyModule(p) /\ ~SaveKernel(p)
      /\ ~FindStored(p)
  BY DEF CommitKernel, CommitRootfs, CommitSave, CopyModule, SaveKernel, FindStored, At, PullPlaces
<1>5. QED
  BY <1>1, <1>2, <1>3, <1>4, ByPlace

(* A manifest is asked for by a name that the registry has.                *)
LEMMA ManifestNamed ==
  ASSUME NEW p \in Proc, ShapesOK, RegistriesAreHosts, FetchManifest(p), loc'[p].at \in Tracked
  PROVE  WellNamed(loc'[p].ref)
<1> DEFINE ref == loc[p].ref
           name == <<ref.registry, ref.repository, ref.tag>>
<1>1. ~FailMet(p)
  BY StopsUntracked
<1>2. name \in DOMAIN Remote
  BY <1>1 DEF FetchManifest
<1>3. WellNamed(ref)
  BY <1>2, ServedNames
<1>4. \E at, image : loc' = [loc EXCEPT ![p].at = at, ![p].image = image, ![p].tries = 0]
  BY <1>1, ManifestCases
<1>5. loc'[p].ref = ref
  BY <1>4 DEF ShapesOK, LocFields
<1> HIDE DEF ref
<1>6. QED
  BY <1>3, <1>5

(* The name of an image is taken from a reference that has been served.    *)
LEMMA ConfigNamed ==
  ASSUME NEW p \in Proc, ShapesOK, RefSound(p), FetchConfig(p), loc'[p].at \in Tracked
  PROVE  loc'[p].store = "image" /\ \A n \in loc'[p].names : Again(n)
<1>1. WellNamed(loc[p].ref)
  BY DEF RefSound, FetchConfig, At
<1>2. ~FailMet(p)
  BY StopsUntracked
<1>3. PICK at, config, names, strict : GotConfig(p, at, config, names, strict)
  BY <1>2, FetchConfigCases
<1>4. loc'[p].store = "image" /\ loc'[p].names = names /\ names = {FullName(loc[p].ref)}
  BY <1>3 DEF GotConfig, ShapesOK, LocFields
<1>5. Again(FullName(loc[p].ref))
  BY <1>1, NamesAgain
<1>6. QED
  BY <1>4, <1>5

LEMMA LayersKeepNames ==
  ASSUME NEW p \in Proc, ShapesOK, Act(p), Fetches(p), loc'[p].at \in Tracked
  PROVE  loc'[p].names = loc[p].names
<1>a. ~Fail(p) /\ ~FailMet(p) /\ ~Killed(p)
  BY StopsUntracked
<1>b. loc[p].at \in LayerPlaces /\ loc[p].at \in Watched
  BY DEF Fetches, Watched
<1>1. CASE NextLayer(p)
  <2>1. \E at : Goto(p, at)
    BY <1>1 DEF NextLayer
  <2>2. QED
    BY <2>1 DEF Goto, ShapesOK, LocFields
<1>2. CASE GetBlob(p)
  <2>1. \E blob, met : loc' = [loc EXCEPT ![p].at = "extract", ![p].e = 1, ![p].tries = 0,
                                          ![p].blob = blob, ![p].met = met]
    BY <1>2 DEF GetBlob
  <2>2. QED
    BY <2>1 DEF ShapesOK, LocFields
<1>3. CASE ExtractEntry(p)
  <2>1. loc' = [loc EXCEPT ![p].e = @ + 1]
    BY <1>a, <1>3 DEF ExtractEntry
  <2>2. QED
    BY <2>1 DEF ShapesOK, LocFields
<1>4. CASE VerifyLayer(p)
  <2>1. loc' = [loc EXCEPT ![p].at = "layer", ![p].n = @ + 1]
    BY <1>a, <1>4 DEF VerifyLayer
  <2>2. QED
    BY <2>1 DEF ShapesOK, LocFields
<1>5. CASE SaveImage(p)
  <2>1. \E config : loc' = [loc EXCEPT ![p].at = "load", ![p].config = config]
    BY <1>5 DEF SaveImage
  <2>2. QED
    BY <2>1 DEF ShapesOK, LocFields
<1>6. CASE FailedAttempt(p)
  <2>1. loc' = [loc EXCEPT ![p].tries = @ + 1]
    BY <1>a, <1>6 DEF FailedAttempt
  <2>2. QED
    BY <2>1 DEF ShapesOK, LocFields
<1>7. ~PullResolve(p) /\ ~FetchManifest(p) /\ ~FetchPlatform(p) /\ ~FetchConfig(p)
      /\ ~LoadIndex(p) /\ ~Truncate(p) /\ ~SaveIndex(p) /\ ~RmiResolve(p) /\ ~RemoveAll(p)
      /\ ~ReadArchive(p) /\ ~CommitKernel(p) /\ ~CommitRootfs(p) /\ ~CommitSave(p)
      /\ ~CopyModule(p) /\ ~SaveKernel(p) /\ ~FindStored(p)
  BY <1>b DEF PullResolve, FetchManifest, FetchPlatform, FetchConfig, LoadIndex, Truncate,
     SaveIndex, RmiResolve, RemoveAll, ReadArchive, CommitKernel, CommitRootfs, CommitSave,
     CopyModule, SaveKernel, FindStored, At, LayerPlaces
<1>8. QED
  BY <1>a, <1>b, <1>1, <1>2, <1>3, <1>4, <1>5, <1>6, <1>7, ByPlace

(* The name that a command gives to what it has loaded or built.           *)
LEMMA CommandNamed ==
  ASSUME NEW p \in Proc, Shapes, Control, ArchiveSound, CommandsWritten, Act(p),
         ToIndex(p), loc'[p].next # "removing"
  PROVE  loc'[p].store = "image" /\ \A n \in loc'[p].names : Again(n)
<1>0. ShapesOK /\ CommandsOK /\ Routed(p)
  BY DEF Shapes, Control
<1>a. loc[p].at \in {"rmi", "load image", "commit save"} /\ loc'[p].at = "load"
  BY DEF ToIndex
<1>b. ~Fail(p) /\ ~FailMet(p) /\ ~Killed(p)
  BY <1>0, <1>a, StopsUntracked DEF Tracked
<1>1. CASE RmiResolve(p)
  <2>1. \E id : loc' = [loc EXCEPT ![p].at = "load", ![p].id = id, ![p].next = "removing"]
    BY <1>b, <1>1 DEF RmiResolve
  <2>2. loc'[p].next = "removing"
    BY <1>0, <2>1 DEF ShapesOK, LocFields
  <2>3. QED
    BY <2>2
<1>2. CASE ReadArchive(p)
  <2>1. /\ archive # <<>>
        /\ loc' = [loc EXCEPT ![p].at = "load", ![p].id = NewId(p),
                              ![p].names = {archive[1].name},
                              ![p].next = "done", ![p].strict = FALSE]
    BY <1>b, <1>2, ReadArchiveCases
  <2>2. Again(archive[1].name)
    BY <2>1 DEF ArchiveSound
  <2>3. loc'[p].store = loc[p].store /\ loc'[p].names = {archive[1].name}
    BY <1>0, <2>1 DEF ShapesOK, LocFields
  <2>4. loc[p].store = "image"
    BY <1>0, <1>2 DEF Routed, ReadArchive, At
  <2>5. QED
    BY <2>2, <2>3, <2>4
<1>3. CASE CommitSave(p)
  <2>1. loc' = [loc EXCEPT ![p].at = "load", ![p].store = "image",
                  ![p].names = {FullName(ParseImageRef(Cmd(p).raw))},
                  ![p].next = "clean", ![p].strict = FALSE]
    BY <1>3 DEF CommitSave, ImageNames
  <2>2. loc'[p].store = "image" /\ loc'[p].names = {FullName(ParseImageRef(Cmd(p).raw))}
    BY <1>0, <2>1 DEF ShapesOK, LocFields
  <2>3. WellWritten(Cmd(p).raw)
    <3>1. Cmd(p) = todo[p][1] /\ 1 \in DOMAIN todo[p]
      BY <1>0, HeadInDomain DEF Cmd, CommandsOK
    <3>2. QED
      BY <3>1 DEF CommandsWritten
  <2>4. Again(FullName(ParseImageRef(Cmd(p).raw)))
    BY <2>3, UsersNames, NamesAgain
  <2>5. QED
    BY <2>2, <2>4
<1>4. ~PullResolve(p) /\ ~FetchManifest(p) /\ ~FetchPlatform(p) /\ ~FetchConfig(p)
      /\ ~NextLayer(p) /\ ~GetBlob(p) /\ ~ExtractEntry(p) /\ ~VerifyLayer(p) /\ ~SaveImage(p)
      /\ ~FailedAttempt(p) /\ ~LoadIndex(p) /\ ~Truncate(p) /\ ~SaveIndex(p) /\ ~RemoveAll(p)
      /\ ~CommitKernel(p) /\ ~CommitRootfs(p) /\ ~CopyModule(p) /\ ~SaveKernel(p)
      /\ ~FindStored(p)
  BY <1>a DEF PullResolve, FetchManifest, FetchPlatform, FetchConfig, NextLayer, GetBlob,
     ExtractEntry, VerifyLayer, SaveImage, FailedAttempt, Requests, LoadIndex, Truncate,
     SaveIndex, RemoveAll, CommitKernel, CommitRootfs, CopyModule, SaveKernel, FindStored, At
<1>5. loc[p].at \in Watched
  BY <1>a DEF Watched
<1>6. QED
  BY <1>b, <1>1, <1>2, <1>3, <1>4, <1>5, ByPlace

(* A command comes to save at its beginning.                               *)
LEMMA SaveGoesOn ==
  ASSUME NEW p \in Proc, ShapesOK, Act(p), loc[p].at = "save image"
  PROVE  loc'[p].at # "save image"
<1>a. Fail(p) \/ FailMet(p) \/ Killed(p) => loc'[p].at # "save image"
  <2>1. ASSUME Fail(p)
        PROVE  loc'[p].at = Failed(p)
    BY <2>1 DEF Fail, ShapesOK, LocFields
  <2>2. ASSUME FailMet(p)
        PROVE  loc'[p].at = Failed(p)
    BY <2>2 DEF FailMet, ShapesOK, LocFields
  <2>3. QED
    BY <2>1, <2>2, KilledGoes DEF Failed
<1>1. WriteArchive(p) => loc'[p].at # "save image"
  <2>1. WriteArchive(p) => Fail(p) \/ Goto(p, "done")
    BY DEF WriteArchive
  <2>2. Goto(p, "done") => loc'[p].at = "done"
    BY DEF Goto, ShapesOK, LocFields
  <2>3. QED
    BY <1>a, <2>1, <2>2
<1>2. ~Pull(p)
  BY DEF Pull, PullResolve, FetchManifest, FetchPlatform, FetchConfig, NextLayer, GetBlob,
     ExtractEntry, VerifyLayer, SaveImage, Pulled, FailedAttempt, Requests, LoadIndex, Truncate,
     SaveIndex, At
<1>3. ~RmiResolve(p) /\ ~RemoveAll(p) /\ ~ReadArchive(p) /\ ~AssembleRootfs(p) /\ ~CopyLayer(p)
      /\ ~Assembled(p) /\ ~CopyKernel(p)
  BY DEF RmiResolve, RemoveAll, ReadArchive, AssembleRootfs, CopyLayer, Assembled, CopyKernel, At
<1>4. ~KernelStep(p) /\ ~Stall(p)
  BY DEF KernelStep, PullKernel, DownloadArchive, DownloadEnds, ExtractArchive, OCIKernelPulled,
     CopyBinary, CopyModule, SaveKernel, KernelPulled, FindStored, RemoveKernel, Stall, At
<1>5. ~BuildStep(p)
  BY DEF BuildStep, ParseDockerfile, BeginProcess, HandleFrom, FromPulled, CopyBaseLayer, FromEnds,
     HandleKernel, KernelEnds, HandleRun, Machine, RunEnds, HandleCopy, Configure, ProcessEnds,
     CommitKernel, CommitRootfs, CommitSave, CleanUp, Handles, At
<1>6. ~NextCommand(p)
  BY DEF NextCommand, Busy, Ended
<1>7. QED
  BY <1>a, <1>1, <1>2, <1>3, <1>4, <1>5, <1>6 DEF Act, Progress, ImageStep

LEMMA SaveBegins ==
  ASSUME NEW p \in Proc, Shapes, Control, Kinds, Act(p), loc'[p].at = "save image"
  PROVE  NextCommand(p)
<1>1. ShapesOK
  BY DEF Shapes
<1>2. loc[p].at # "save image"
  BY <1>1, SaveGoesOn
<1>3. ~(loc' = loc) /\ ~KeepsPlace(p)
  BY <1>2 DEF KeepsPlace
<1>4. ~Stops(p) /\ ~PullsOn(p) /\ ~ToImage(p) /\ ~InLayers(p) /\ ~Loads(p) /\ ~Truncates(p)
      /\ ~ToIndex(p) /\ ~ToBase(p)
  BY DEF Stops, Halts, PullsOn, ToImage, InLayers, LayerPlaces, Loads, Truncates, ToIndex, ToBase
<1>5. ~ToWork(p) /\ ~ToKernel(p) /\ ~Downloads(p) /\ ~ToModules(p) /\ ~ToSaving(p) /\ ~ToRemoving(p)
  BY DEF ToWork, ToKernel, Downloads, ToModules, ToSaving, ToRemoving
<1>6. ~BuildStep(p)
  <2>1. BuildStep(p) => BuildMoves(p)
    BY BuildSteps DEF Kinds
  <2>2. ~BuildMoves(p)
    BY DEF BuildMoves, Parses, Opens, Builds, Boots, Judges, Commits, Committing, Indexing, Cleans
  <2>3. QED
    BY <2>1, <2>2
<1>7. ~Writes(p)
  BY DEF Writes, Control, Routed, Routes, Indexing
<1>8. QED
  BY <1>3, <1>4, <1>5, <1>6, <1>7, Flow DEF Moves

-----------------------------------------------------------------------------
(* The invariant is kept.                                                  *)
LEMMA NamesSoundKept ==
  ASSUME NEW p \in Proc, Shapes, Control, Kinds, NameInv, Act(p), ReqOK(kern[p].req) \/
         loc[p].at # "modules"
  PROVE  NamesSound(p)'
<1>0. /\ ShapesOK /\ Routed(p) /\ IndexSound /\ ArchiveSound /\ CommandsWritten
      /\ NamesSound(p) /\ CopySound(p) /\ RefSound(p)
  BY DEF Shapes, Control, NameInv
<1>1. HasNames(p)' => loc'[p].at \in Tracked
  BY DEF HasNames, Fetches, Indexing, Tracked
<1>2. SUFFICES ASSUME HasNames(p)'
               PROVE  \A n \in loc'[p].names : Sound(loc'[p].store, n)
  BY DEF NamesSound
<1>3. CASE loc' = loc \/ KeepsPlace(p)
  <2>1. HasNames(p) /\ loc'[p].names = loc[p].names /\ loc'[p].store = loc[p].store
    BY <1>2, <1>3 DEF HasNames, Fetches, Indexing, KeepsPlace, KeepsRoute, KeepsIndex
  <2>2. QED
    BY <1>0, <2>1 DEF NamesSound
<1>4. CASE ToImage(p)
  <2>1. loc[p].at = "config" /\ loc'[p].at \in {"load", "layer"}
    BY <1>4 DEF ToImage
  <2>2. FetchConfig(p)
    <3>1. ~PullResolve(p) /\ ~FetchManifest(p) /\ ~FetchPlatform(p)
      BY <2>1 DEF PullResolve, FetchManifest, FetchPlatform, At
    <3>2. ~FailMet(p) /\ ~Killed(p)
      BY <1>0, <1>1, <1>2, StopsUntracked
    <3>3. ~FailedAttempt(p)
      <4>1. FailedAttempt(p) => loc' = [loc EXCEPT ![p].tries = @ + 1]
        BY <3>2 DEF FailedAttempt
      <4>2. FailedAttempt(p) => loc'[p].at = loc[p].at
        BY <1>0, <4>1 DEF ShapesOK, LocFields
      <4>3. QED
        BY <2>1, <4>2
    <3>4. QED
      BY <2>1, <3>1, <3>2, <3>3, PullingByPlace DEF PullPlaces
  <2>3. QED
    BY <1>0, <1>1, <1>2, <2>2, ConfigNamed DEF Sound
<1>5. CASE InLayers(p)
  <2>1. Fetches(p) /\ loc'[p].store = loc[p].store
    BY <1>5 DEF InLayers, Fetches, KeepsRoute
  <2>2. loc'[p].names = loc[p].names
    BY <1>0, <1>1, <1>2, <2>1, LayersKeepNames
  <2>3. QED
    BY <1>0, <2>1, <2>2 DEF NamesSound, HasNames
<1>6. CASE Loads(p)
  <2>1. /\ loc'[p].store = loc[p].store /\ loc[p].at = "load"
        /\ loc'[p].idx = index[loc[p].store]
        /\ loc'[p].names = IF loc[p].next \in {"removing", "kernel removing"}
                             THEN {n \in DOMAIN loc'[p].idx : loc'[p].idx[n] = loc[p].id}
                             ELSE loc[p].names
    BY <1>6 DEF Loads, KeepsRoute
  <2>2. CASE loc[p].next \in {"removing", "kernel removing"}
    <3>1. loc[p].store \in {"image", "kernel"}
      BY <1>0, <2>1 DEF Routed, Routes, Indexing
    <3>2. \A n \in loc'[p].names : n \in DOMAIN index[loc[p].store]
      BY <2>1, <2>2
    <3>3. QED
      BY <1>0, <2>1, <3>1, <3>2 DEF IndexSound
  <2>3. CASE loc[p].next \notin {"removing", "kernel removing"}
    <3>1. HasNames(p) /\ loc'[p].names = loc[p].names
      BY <2>1, <2>3 DEF HasNames, Indexing
    <3>2. QED
      BY <1>0, <2>1, <3>1 DEF NamesSound
  <2>4. QED
    BY <2>2, <2>3
<1>7. CASE Truncates(p)
  <2>1. HasNames(p) /\ loc'[p].names = loc[p].names /\ loc'[p].store = loc[p].store
    BY <1>7 DEF HasNames, Indexing, Truncates, KeepsRoute, KeepsIndex
  <2>2. QED
    BY <1>0, <2>1 DEF NamesSound
<1>8. ~Writes(p)
  <2>1. Writes(p) => ~HasNames(p)'
    BY <1>0 DEF Writes, KeepsRoute, Routed, Routes, HasNames, Fetches, Indexing, LayerPlaces
  <2>2. QED
    BY <1>2, <2>1
<1>9. CASE ToIndex(p)
  <2>1. loc'[p].next # "removing"
    BY <1>2, <1>9 DEF ToIndex, HasNames, Fetches, LayerPlaces
  <2>2. QED
    BY <1>0, <1>9, <2>1, CommandNamed DEF Sound
<1>10. CASE ToSaving(p)
  <2>1. /\ loc[p].at = "modules" /\ loc'[p].store = "kernel"
        /\ loc'[p].names = {KernelName(kern[p].req)}
    BY <1>10 DEF ToSaving
  <2>2. KAgain(KernelName(kern[p].req))
    BY <2>1, KernelsAgain
  <2>3. QED
    BY <2>1, <2>2 DEF Sound
<1>11. ~ToRemoving(p)
  BY <1>2 DEF ToRemoving, HasNames, Fetches, LayerPlaces
<1>12. ~Stops(p) /\ ~ToIdle(p) /\ ~PullsOn(p) /\ ~ToBase(p) /\ ~ToWork(p) /\ ~ToKernel(p)
       /\ ~Downloads(p) /\ ~ToModules(p)
  BY <1>2 DEF HasNames, Fetches, Indexing, LayerPlaces, Stops, Halts, ToIdle, Idle, PullsOn, ToBase,
     ToWork, ToKernel, Downloads, ToModules
<1>13. ~Begins(p)
  BY <1>2, FirstPlaces DEF Begins, HasNames, Fetches, Indexing, LayerPlaces
<1>14. QED
  BY <1>3, <1>4, <1>5, <1>6, <1>7, <1>8, <1>9, <1>10, <1>11, <1>12, <1>13, Flow DEF Moves

LEMMA CopySoundKept ==
  ASSUME NEW p \in Proc, Shapes, Control, NameInv, Act(p)
  PROVE  CopySound(p)'
<1>0. Routed(p) /\ IndexSound /\ CopySound(p)
  BY DEF Control, NameInv
<1>1. SUFFICES ASSUME loc'[p].at \in {"truncate", "write"}
               PROVE  \A n \in DOMAIN loc'[p].idx : Sound(loc'[p].store, n)
  BY DEF CopySound
<1>2. CASE loc' = loc \/ KeepsPlace(p) \/ Truncates(p)
  <2>1. /\ loc[p].at \in {"truncate", "write"}
        /\ loc'[p].idx = loc[p].idx /\ loc'[p].store = loc[p].store
    BY <1>1, <1>2 DEF KeepsPlace, Truncates, KeepsRoute, KeepsIndex
  <2>2. QED
    BY <1>0, <2>1 DEF CopySound
<1>3. CASE Loads(p)
  <2>1. /\ loc'[p].store = loc[p].store /\ loc'[p].idx = index[loc[p].store]
        /\ loc[p].store \in {"image", "kernel"}
    BY <1>0, <1>3 DEF Loads, KeepsRoute, Routed, Routes, Indexing
  <2>2. QED
    BY <1>0, <2>1 DEF IndexSound
<1>4. ~Writes(p)
  BY <1>0, <1>1 DEF Writes, Routed, Routes, Indexing
<1>5. ~Stops(p) /\ ~ToIdle(p) /\ ~PullsOn(p) /\ ~ToImage(p) /\ ~InLayers(p) /\ ~ToIndex(p)
      /\ ~ToBase(p)
  BY <1>1 DEF Stops, Halts, ToIdle, Idle, PullsOn, ToImage, InLayers, LayerPlaces, ToIndex, ToBase
<1>6. ~ToWork(p) /\ ~ToKernel(p) /\ ~Downloads(p) /\ ~ToModules(p) /\ ~ToSaving(p) /\ ~ToRemoving(p)
  BY <1>1 DEF ToWork, ToKernel, Downloads, ToModules, ToSaving, ToRemoving
<1>7. ~Begins(p)
  BY <1>1, FirstPlaces DEF Begins
<1>8. QED
  BY <1>2, <1>3, <1>4, <1>5, <1>6, <1>7, Flow DEF Moves

LEMMA RefSoundKept ==
  ASSUME RegistriesAreHosts,
         NEW p \in Proc, Shapes, Control, Kinds, NameInv, Act(p)
  PROVE  RefSound(p)'
<1>0. ShapesOK /\ CommandsOK /\ Routed(p) /\ RefSound(p) /\ CommandsWritten
  BY DEF Shapes, Control, NameInv
<1>1. CASE loc'[p].at = "save image"
  <2>1. NextCommand(p)
    BY <1>1, SaveBegins
  <2>2. loc'[p] = Local(todo[p][2]) /\ Len(todo[p]) > 1
    BY <1>0, <2>1 DEF NextCommand, ShapesOK
  <2>3. loc'[p].ref = ParseImageRef(todo[p][2].raw)
    <3>1. \A cmd, r : r = ParseImageRef(cmd.raw) => Local(cmd).ref = r
      BY DEF Local
    <3>2. QED
      BY <2>2, <3>1
  <2>4. WellWritten(todo[p][2].raw)
    <3>1. 2 \in DOMAIN todo[p]
      BY <1>0, <2>2, SeqFacts DEF CommandsOK
    <3>2. QED
      BY <1>0, <3>1 DEF CommandsWritten
  <2>5. QED
    BY <2>3, <2>4, UsersNames DEF RefSound
<1>2. CASE loc'[p].at \in {"platform", "config"}
  <2>1. loc' = loc \/ KeepsPlace(p) \/ PullsOn(p)
    <3>1. ~Stops(p) /\ ~ToIdle(p) /\ ~ToImage(p) /\ ~InLayers(p) /\ ~ToIndex(p) /\ ~ToBase(p)
      BY <1>2 DEF Stops, Halts, ToIdle, Idle, ToImage, InLayers, LayerPlaces, ToIndex, ToBase
    <3>2. ~ToWork(p) /\ ~ToKernel(p) /\ ~Downloads(p) /\ ~ToModules(p) /\ ~ToSaving(p)
          /\ ~ToRemoving(p) /\ ~Loads(p) /\ ~Truncates(p)
      BY <1>2 DEF ToWork, ToKernel, Downloads, ToModules, ToSaving, ToRemoving, Loads, Truncates
    <3>3. ~Begins(p)
      BY <1>2, FirstPlaces DEF Begins
    <3>4. ~Writes(p)
      BY <1>0, <1>2 DEF Writes, Routed, Routes, Indexing
    <3>5. QED
      BY <3>1, <3>2, <3>3, <3>4, Flow DEF Moves
  <2>2. CASE loc' = loc
    BY <1>0, <2>2 DEF RefSound
  <2>3. CASE KeepsPlace(p) \/ PullsOn(p)
    <3>1. loc[p].at \in PullPlaces /\ loc'[p].at \in Tracked
      BY <1>2, <2>3 DEF KeepsPlace, PullsOn, PullPlaces, Tracked
    <3>2. ~FailMet(p) /\ ~Killed(p)
      BY <1>0, <3>1, StopsUntracked
    <3>3. CASE FetchManifest(p)
      BY <1>0, <3>1, <3>3, ManifestNamed DEF RefSound
    <3>4. CASE FetchPlatform(p) \/ FailedAttempt(p)
      <4>1. FetchPlatform(p) => /\ loc[p].at = "platform"
                                /\ loc' = [loc EXCEPT ![p].at = "config", ![p].tries = 0]
        BY DEF FetchPlatform, At
      <4>2. FailedAttempt(p) => loc' = [loc EXCEPT ![p].tries = @ + 1]
        BY <3>2 DEF FailedAttempt
      <4>3. loc'[p].ref = loc[p].ref /\ loc[p].at \in {"platform", "config"}
        BY <1>0, <1>2, <3>4, <4>1, <4>2 DEF ShapesOK, LocFields
      <4>4. QED
        BY <1>0, <4>3 DEF RefSound
    <3>5. ~PullResolve(p)
      <4>1. PullResolve(p) => loc'[p].at \in {"manifest", "pulled"}
        BY <1>0 DEF PullResolve, ShapesOK, LocFields
      <4>2. QED
        BY <1>2, <4>1
    <3>6. ~FetchConfig(p)
      <4>1. ASSUME NEW at, NEW config, NEW names, NEW strict,
                   GotConfig(p, at, config, names, strict)
            PROVE  loc'[p].at \in {"load", "layer"}
        BY <1>0, <4>1 DEF GotConfig, ShapesOK, LocFields
      <4>2. QED
        BY <1>2, <3>2, <4>1, FetchConfigCases
    <3>7. QED
      BY <3>1, <3>2, <3>3, <3>4, <3>5, <3>6, PullingByPlace
  <2>4. QED
    BY <2>1, <2>2, <2>3
<1>3. QED
  BY <1>1, <1>2 DEF RefSound

LEMMA IndexSoundKept ==
  ASSUME NEW p \in Proc, Shapes, Control, NameInv, Act(p)
  PROVE  IndexSound'
<1>0. ShapesOK /\ Routed(p) /\ IndexSound /\ NamesSound(p) /\ CopySound(p)
  BY DEF Shapes, Control, NameInv
<1>1. CASE index' = index
  BY <1>0, <1>1 DEF IndexSound
<1>2. CASE /\ Writes(p) /\ index' = [index EXCEPT ![loc[p].store] = Change(p)]
  <2>1. loc[p].at = "write" /\ loc[p].store \in {"image", "kernel"}
    BY <1>0, <1>2 DEF Writes, Routed, Routes, Indexing
  <2>2. \A n \in loc[p].names \cup DOMAIN loc[p].idx : Sound(loc[p].store, n)
    BY <1>0, <2>1 DEF NamesSound, CopySound, HasNames, Indexing
  <2>3. DOMAIN Change(p) \subseteq loc[p].names \cup DOMAIN loc[p].idx
    BY DEF Change, Restrict
  <2>4. \A n \in DOMAIN index'[loc[p].store] : Sound(loc[p].store, n)
    BY <1>0, <1>2, <2>1, <2>2, <2>3 DEF ShapesOK
  <2>5. \A s \in {"image", "kernel"} : s # loc[p].store => index'[s] = index[s]
    BY <1>0, <1>2 DEF ShapesOK
  <2>6. QED
    BY <1>0, <2>4, <2>5 DEF IndexSound
<1>3. QED
  BY <1>1, <1>2, IndexFlow

LEMMA ArchiveSoundKept ==
  ASSUME NEW p \in Proc, NameInv, Act(p)
  PROVE  ArchiveSound'
<1>0. ArchiveSound /\ RefSound(p)
  BY DEF NameInv
<1>1. CASE archive' = archive
  BY <1>0, <1>1 DEF ArchiveSound
<1>2. CASE WriteArchive(p)
  <2>1. WellNamed(loc[p].ref)
    BY <1>0, <1>2 DEF RefSound, WriteArchive, At
  <2>2. archive' = archive \/ archive'[1].name = FullName(loc[p].ref)
    <3>1. archive' = archive \/ \E config :
            archive' = <<[name |-> FullName(loc[p].ref), config |-> config]>>
      BY <1>2 DEF WriteArchive
    <3>2. PICK name : name = FullName(loc[p].ref)
      OBVIOUS
    <3>3. QED
      BY <3>1, <3>2
  <2>3. Again(FullName(loc[p].ref))
    BY <2>1, NamesAgain
  <2>4. QED
    BY <1>1, <2>2, <2>3 DEF ArchiveSound
<1>3. QED
  BY <1>1, <1>2, ImageEffects DEF NextLayer, ExtractEntry, Killed, SaveImage, CommitSave,
     RemoveAll, ReadArchive, CommitKernel, CommitRootfs

LEMMA CommandsWrittenKept ==
  ASSUME NEW p \in Proc, Shapes, CommandsWritten, Act(p)
  PROVE  CommandsWritten'
<1>0. CommandsOK
  BY DEF Shapes
<1>1. CASE todo' = todo
  BY <1>1 DEF CommandsWritten
<1>2. CASE NextCommand(p)
  <2>1. IsSeq(todo[p]) /\ Len(todo[p]) > 1 /\ todo' = [todo EXCEPT ![p] = Tail(@)]
    BY <1>0, <1>2 DEF CommandsOK, NextCommand
  <2>2. \A i \in DOMAIN Tail(todo[p]) :
          Tail(todo[p])[i] = todo[p][i + 1] /\ i + 1 \in DOMAIN todo[p]
    BY <2>1, TailIsSeq
  <2>3. todo'[p] = Tail(todo[p]) /\ \A q \in Proc \ {p} : todo'[q] = todo[q]
    BY <1>0, <2>1 DEF CommandsOK
  <2>4. \A i \in DOMAIN todo'[p] : WellWritten(todo'[p][i].raw)
    BY <2>2, <2>3 DEF CommandsWritten
  <2>5. \A q \in Proc \ {p} : \A i \in DOMAIN todo'[q] : WellWritten(todo'[q][i].raw)
    BY <2>3 DEF CommandsWritten
  <2>6. QED
    BY <2>4, <2>5 DEF CommandsWritten
<1>3. QED
  BY <1>1, <1>2, CommandsKept

-----------------------------------------------------------------------------
LEMMA NameInvInit == NamesWellWritten /\ Init => NameInv
<1> SUFFICES ASSUME NamesWellWritten, Init
             PROVE  NameInv
  OBVIOUS
<1>1. /\ index = [image |-> <<>>, kernel |-> <<>>] /\ archive = <<>> /\ todo \in Plan
      /\ loc = [p \in Proc |-> Local(Head(todo[p]))]
  BY DEF Init, ImageInit
<1>2. IndexSound /\ ArchiveSound
  <2>1. \A s \in {"image", "kernel"} : index[s] = <<>>
    BY <1>1
  <2>2. DOMAIN <<>> = {}
    OBVIOUS
  <2>3. QED
    BY <1>1, <2>1, <2>2 DEF IndexSound, ArchiveSound
<1>3. CommandsWritten
  BY <1>1 DEF NamesWellWritten, CommandsWritten
<1>4. ASSUME NEW p \in Proc
      PROVE  NamesSound(p) /\ CopySound(p) /\ RefSound(p)
  <2>1. Head(todo[p]) = todo[p][1] /\ 1 \in DOMAIN todo[p] /\ todo[p][1].kind \in DOMAIN First
    BY <1>1, PlanAssumption, HeadInDomain
  <2>2. /\ loc[p].at = First[todo[p][1].kind]
        /\ loc[p].ref = ParseImageRef(todo[p][1].raw)
    BY <1>1, <2>1 DEF Local
  <2>3. WellNamed(loc[p].ref)
    BY <1>3, <2>1, <2>2, UsersNames DEF CommandsWritten
  <2>4. ~HasNames(p) /\ loc[p].at \notin {"truncate", "write"}
    BY <2>1, <2>2, FirstPlaces DEF HasNames, Fetches, Indexing, LayerPlaces
  <2>5. QED
    BY <2>3, <2>4 DEF NamesSound, CopySound, RefSound
<1>5. QED
  BY <1>2, <1>3, <1>4 DEF NameInv

LEMMA NameInvKept ==
  ASSUME RegistriesAreHosts
  PROVE  TypeInv /\ KernelInv /\ BuildInv /\ NameInv /\ [Next]_vars => NameInv'
<1> SUFFICES ASSUME TypeInv, KernelInv, BuildInv, NameInv, [Next]_vars
             PROVE  NameInv'
  OBVIOUS
<1>0. Shapes /\ Control /\ Kinds /\ Asked /\ CommandsWritten
  BY DEF TypeInv, BaseInv, BuildInv, KernelInv, NameInv
<1>1. ASSUME NEW p \in Proc, Act(p)
      PROVE  NameInv'
  <2>1. Alone(p)
    BY <1>0, <1>1, ShapesKept
  <2>2. ReqOK(kern[p].req) \/ loc[p].at # "modules"
    BY <1>0 DEF Asked
  <2>3. (NamesSound(p) /\ CopySound(p) /\ RefSound(p))'
    <3>1. NamesSound(p)'
      BY <1>0, <1>1, <2>2, NamesSoundKept
    <3>2. CopySound(p)'
      BY <1>0, <1>1, CopySoundKept
    <3>3. RefSound(p)'
      BY <1>0, <1>1, RefSoundKept
    <3>4. QED
      BY <3>1, <3>2, <3>3
  <2>4. ASSUME NEW q \in Proc \ {p}
        PROVE  (NamesSound(q) /\ CopySound(q) /\ RefSound(q))'
    <3>1. loc'[q] = loc[q] /\ NamesSound(q) /\ CopySound(q) /\ RefSound(q)
      BY <2>1 DEF Alone, NameInv
    <3>2. QED
      BY <3>1 DEF NamesSound, CopySound, RefSound, HasNames, Fetches, Indexing
  <2>5. IndexSound' /\ ArchiveSound' /\ CommandsWritten'
    BY <1>0, <1>1, IndexSoundKept, ArchiveSoundKept, CommandsWrittenKept
  <2>6. QED
    BY <2>3, <2>4, <2>5 DEF NameInv
<1>2. ASSUME UNCHANGED <<index, archive, todo, loc>>
      PROVE  NameInv'
  <2>1. IndexSound' /\ ArchiveSound' /\ CommandsWritten'
    BY <1>2 DEF NameInv, IndexSound, ArchiveSound, CommandsWritten
  <2>2. ASSUME NEW p \in Proc
        PROVE  (NamesSound(p) /\ CopySound(p) /\ RefSound(p))'
    <3>1. NamesSound(p) /\ CopySound(p) /\ RefSound(p)
      BY DEF NameInv
    <3>2. QED
      BY <1>2, <3>1 DEF NamesSound, CopySound, RefSound, HasNames, Fetches, Indexing
  <2>3. QED
    BY <2>1, <2>2 DEF NameInv
<1>3. CASE Next
  <2>1. CASE ContainerStops /\ UNCHANGED <<kernelVars, work, bld>>
    BY <1>2, <2>1 DEF ContainerStops, stores
  <2>2. QED
    BY <1>1, <1>3, <2>1, WhoActs
<1>4. CASE UNCHANGED vars
  BY <1>2, <1>4 DEF vars, imageVars, stores, files
<1>5. QED
  BY <1>3, <1>4

(* Whatever is pulled, built, loaded or removed at once, fails or is       *)
(* killed, a name in an index can be typed again (name.go:24-88,           *)
(* kernel.go:51-94): users write at most one colon before a digest, and    *)
(* registries of one-part repositories look like hosts.                    *)
THEOREM NamesAreReadable ==
  NamesWellWritten /\ RegistriesAreHosts => (Spec => []NamesParseBack)
<1> SUFFICES ASSUME NamesWellWritten, RegistriesAreHosts
             PROVE  Spec => []NamesParseBack
  OBVIOUS
<1>1. Init => NameInv
  BY NameInvInit
<1>2. TypeInv /\ KernelInv /\ BuildInv /\ NameInv /\ [Next]_vars => NameInv'
  BY NameInvKept
<1>3. NameInv => NamesParseBack
  BY DEF NameInv, IndexSound, Sound, Again, KAgain, NamesParseBack
<1>4. QED
  BY <1>1, <1>2, <1>3, BuildInvariant, KernelInvariant, PTL DEF Spec


-----------------------------------------------------------------------------
(* Induction up to n, over the set of the numbers that have a property.    *)
LEMMA UpTo ==
  ASSUME NEW n \in Nat, NEW T, 0 \in T, \A k \in 0 .. n - 1 : k \in T => k + 1 \in T
  PROVE  \A k \in 0 .. n : k \in T
<1> DEFINE U == {k \in 0 .. n : k \notin T}
<1> SUFFICES ASSUME U # {}
             PROVE  FALSE
  OBVIOUS
<1>1. PICK k \in U : \A j \in U : k <= j
  <2>1. U \in SUBSET Nat
    OBVIOUS
  <2> HIDE DEF U
  <2>2. QED
    BY <2>1, MinExists
<1>2. k \in 0 .. n /\ k \notin T /\ k # 0
  BY <1>1
<1>3. k - 1 \in 0 .. n - 1 /\ ~(k <= k - 1)
  BY <1>2
<1>4. k - 1 \notin U
  BY <1>1, <1>3
<1>5. k - 1 \in T
  BY <1>3, <1>4
<1>6. (k - 1) + 1 \in T
  BY <1>3, <1>5
<1>7. QED
  BY <1>2, <1>6

LEMMA MaxIs ==
  ASSUME NEW n \in Nat, NEW T \in SUBSET (0 .. n), T # {}
  PROVE  Max(T) \in T /\ \A y \in T : Max(T) >= y
<1>1. PICK x \in T : \A y \in T : y <= x
  BY MaxExists
<1>2. \A y \in T : x >= y
  BY <1>1
<1>3. QED
  BY <1>2 DEF Max

LEMMA MaxOfUpTo ==
  ASSUME NEW k \in Nat, NEW s \in SUBSET (1 .. k + 1), k + 1 \in s
  PROVE  Max(s) = k + 1
<1>1. s \in SUBSET (0 .. k + 1) /\ k + 1 \in Nat
  OBVIOUS
<1>2. Max(s) \in s /\ Max(s) >= k + 1
  BY <1>1, MaxIs
<1> DEFINE m == Max(s)
<1>3. m \in 1 .. k + 1 /\ m >= k + 1
  BY <1>2
<1> HIDE DEF m
<1>4. m = k + 1
  BY <1>3
<1>5. QED
  BY <1>4 DEF m

-----------------------------------------------------------------------------
(* Joining lines takes them one after the other.                           *)
NothingRead == [done |-> <<>>, open |-> <<>>]

LEMMA JoinSteps ==
  ASSUME NEW lines, NEW n \in Nat, DOMAIN lines = 1 .. n
  PROVE  \E a : /\ a[0] = NothingRead /\ a[n] = Joined(lines)
                /\ \A k \in 0 .. n - 1 : a[k + 1] = Join(a[k], lines[k + 1])
<1> DEFINE Is(f, k) ==
             f = [s \in SUBSET (1 .. k) |->
                    IF s = {} THEN NothingRead ELSE Join(f[s \ {Max(s)}], lines[Max(s)])]
           T == {k \in Nat : \E f : Is(f, k)}
<1>1. 0 \in T
  <2> DEFINE f == [s \in SUBSET (1 .. 0) |-> NothingRead]
  <2>1. \A s \in SUBSET (1 .. 0) : s = {}
    OBVIOUS
  <2>2. Is(f, 0)
    BY <2>1
  <2> HIDE DEF Is, f
  <2>3. QED
    BY <2>2
<1>2. ASSUME NEW k \in 0 .. n - 1, k \in T
      PROVE  k + 1 \in T
  <2>1. PICK f : Is(f, k)
    BY <1>2
  <2> DEFINE g == [s \in SUBSET (1 .. k + 1) |->
                     IF k + 1 \in s THEN Join(f[s \ {k + 1}], lines[k + 1]) ELSE f[s]]
  <2>0. k \in Nat /\ k + 1 \in Nat
    OBVIOUS
  <2>2. ASSUME NEW s \in SUBSET (1 .. k + 1), k + 1 \notin s
        PROVE  s \in SUBSET (1 .. k) /\ g[s] = f[s]
    <3>1. \A i \in s : i \in 1 .. k
      BY <2>2
    <3>2. QED
      BY <2>2, <3>1
  <2>3. ASSUME NEW s \in SUBSET (1 .. k + 1)
        PROVE  g[s] = IF s = {} THEN NothingRead ELSE Join(g[s \ {Max(s)}], lines[Max(s)])
    <3>1. CASE k + 1 \in s
      <4>1. Max(s) = k + 1
        BY <2>0, <3>1, MaxOfUpTo
      <4>2. s \ {k + 1} \in SUBSET (1 .. k + 1) /\ k + 1 \notin s \ {k + 1}
        OBVIOUS
      <4>3. g[s \ {k + 1}] = f[s \ {k + 1}]
        BY <2>2, <4>2
      <4>4. g[s] = Join(f[s \ {k + 1}], lines[k + 1])
        BY <3>1
      <4> HIDE DEF g
      <4>5. QED
        BY <3>1, <4>1, <4>3, <4>4
    <3>2. CASE k + 1 \notin s
      <4>1. s \in SUBSET (1 .. k) /\ g[s] = f[s]
        BY <2>2, <3>2
      <4>2. f[s] = IF s = {} THEN NothingRead ELSE Join(f[s \ {Max(s)}], lines[Max(s)])
        BY <2>1, <4>1
      <4>3. s \ {Max(s)} \in SUBSET (1 .. k + 1) /\ k + 1 \notin s \ {Max(s)}
        BY <3>2
      <4>4. g[s \ {Max(s)}] = f[s \ {Max(s)}]
        BY <2>2, <4>3
      <4> HIDE DEF g
      <4>5. QED
        BY <4>1, <4>2, <4>4
    <3>3. QED
      BY <3>1, <3>2
  <2>4. Is(g, k + 1)
    BY <2>3
  <2> HIDE DEF g, Is
  <2>5. QED
    BY <2>0, <2>4
<1>3. n \in T
  <2>1. n \in 0 .. n
    OBVIOUS
  <2> HIDE DEF T
  <2>2. \A k \in 0 .. n : k \in T
    BY <1>1, <1>2, <2>1, UpTo
  <2>3. QED
    BY <2>1, <2>2
<1> DEFINE f == CHOOSE f : Is(f, n)
<1>4. Is(f, n)
  <2>1. \E g : Is(g, n)
    BY <1>3
  <2> HIDE DEF Is
  <2>2. QED
    BY <2>1
<1>5. Joined(lines) = f[1 .. n]
  BY DEF Joined, FoldLeft, MapThenFoldSet, NothingRead
<1> DEFINE a == [k \in 0 .. n |-> f[1 .. k]]
<1>6. a[0] = NothingRead
  <2> HIDE DEF f
  <2>1. 1 .. 0 = {} /\ {} \in SUBSET (1 .. n) /\ 0 \in 0 .. n
    OBVIOUS
  <2>2. f[{}] = NothingRead
    BY <1>4, <2>1
  <2>3. QED
    BY <2>1, <2>2
<1>7. ASSUME NEW k \in 0 .. n - 1
      PROVE  a[k + 1] = Join(a[k], lines[k + 1])
  <2> HIDE DEF f
  <2>1. /\ k \in Nat /\ k \in 0 .. n /\ k + 1 \in 0 .. n
        /\ 1 .. k + 1 \in SUBSET (1 .. n) /\ k + 1 \in 1 .. k + 1
        /\ 1 .. k + 1 \in SUBSET (1 .. k + 1)
    OBVIOUS
  <2>2. Max(1 .. k + 1) = k + 1
    BY <2>1, MaxOfUpTo
  <2>3. (1 .. k + 1) \ {k + 1} = 1 .. k
    BY <2>1
  <2>4. f[1 .. k + 1] = Join(f[(1 .. k + 1) \ {Max(1 .. k + 1)}], lines[Max(1 .. k + 1)])
    BY <1>4, <2>1
  <2>5. QED
    BY <2>1, <2>2, <2>3, <2>4
<1>8. a[n] = Joined(lines)
  <2> HIDE DEF f
  <2>1. n \in 0 .. n
    OBVIOUS
  <2>2. QED
    BY <1>5, <2>1
<1> HIDE DEF a
<1>9. QED
  BY <1>6, <1>7, <1>8

-----------------------------------------------------------------------------
(* The instructions that begin up to a line.                               *)
Upto(lines, k) == {i \in InstructionLines(lines) : i <= k}

LEMMA UptoSteps ==
  ASSUME NEW lines, NEW n \in Nat, DOMAIN lines = 1 .. n, NEW k \in 0 .. n - 1
  PROVE  /\ Cardinality(Upto(lines, k)) \in Nat
         /\ k + 1 \notin InstructionLines(lines) => Upto(lines, k + 1) = Upto(lines, k)
         /\ k + 1 \in InstructionLines(lines) =>
              /\ Upto(lines, k + 1) = Upto(lines, k) \cup {k + 1}
              /\ Cardinality(Upto(lines, k + 1)) = Cardinality(Upto(lines, k)) + 1
<1>1. InstructionLines(lines) \subseteq 1 .. n
  BY DEF InstructionLines
<1>2. Upto(lines, k) \subseteq 1 .. k
  BY <1>1 DEF Upto
<1>3. IsFiniteSet(Upto(lines, k)) /\ Cardinality(Upto(lines, k)) \in Nat
  <2>1. k \in Int /\ 1 \in Int
    OBVIOUS
  <2>2. IsFiniteSet(1 .. k)
    BY <2>1, FS_Interval
  <2>3. QED
    BY <1>2, <2>2, FS_Subset, FS_CardinalityType
<1>4. k + 1 \notin InstructionLines(lines) => Upto(lines, k + 1) = Upto(lines, k)
  BY <1>1 DEF Upto
<1>5. ASSUME k + 1 \in InstructionLines(lines)
      PROVE  Upto(lines, k + 1) = Upto(lines, k) \cup {k + 1}
  BY <1>1, <1>5 DEF Upto
<1>6. k + 1 \notin Upto(lines, k)
  BY DEF Upto
<1>7. QED
  BY <1>3, <1>4, <1>5, <1>6, FS_AddElement

LEMMA PlaceOf ==
  ASSUME NEW lines, NEW n \in Nat, DOMAIN lines = 1 .. n, NEW k \in 0 .. n,
         NEW i \in Upto(lines, k)
  PROVE  Cardinality(Upto(lines, i)) \in 1 .. Cardinality(Upto(lines, k))
<1>1. InstructionLines(lines) \subseteq 1 .. n /\ i \in InstructionLines(lines) /\ i <= k
  BY DEF InstructionLines, Upto
<1>2. Upto(lines, i) \subseteq Upto(lines, k) /\ Upto(lines, k) \subseteq 1 .. k
      /\ i \in Upto(lines, i)
  BY <1>1 DEF Upto
<1>3. IsFiniteSet(1 .. k)
  <2>1. k \in Int /\ 1 \in Int
    OBVIOUS
  <2>2. QED
    BY <2>1, FS_Interval
<1>4. IsFiniteSet(Upto(lines, k))
  BY <1>2, <1>3, FS_Subset
<1>5. /\ IsFiniteSet(Upto(lines, i))
      /\ Cardinality(Upto(lines, i)) <= Cardinality(Upto(lines, k))
  BY <1>2, <1>4, FS_Subset
<1>6. Cardinality(Upto(lines, i)) \in Nat /\ Cardinality(Upto(lines, k)) \in Nat
  BY <1>4, <1>5, FS_CardinalityType
<1>7. Cardinality(Upto(lines, i)) # 0
  BY <1>2, <1>5, FS_EmptySet
<1>8. QED
  BY <1>5, <1>6, <1>7

-----------------------------------------------------------------------------
(* What the joined lines say of the first k lines: one line for every      *)
(* instruction that has begun, with its keyword.                           *)
Written(lines, k, m) ==
  /\ IsSeq(m) /\ Len(m) = Cardinality(Upto(lines, k))
  /\ \A i \in Upto(lines, k) : m[Cardinality(Upto(lines, i))][1][1] = lines[i].words[1][1]

Reading(lines, k, acc) ==
  /\ acc = [done |-> acc.done, open |-> acc.open] /\ IsSeq(acc.done) /\ IsSeq(acc.open)
  /\ acc.open # <<>> => acc.open[1][1] # "#"
  /\ acc.open # <<>> <=> (k # 0 /\ lines[k].cont)
  /\ Written(lines, k, Keep(acc.done, acc.open))

LEMMA WrittenSame ==
  ASSUME NEW lines, NEW n \in Nat, DOMAIN lines = 1 .. n, NEW k \in 0 .. n - 1,
         NEW m, Written(lines, k, m), k + 1 \notin InstructionLines(lines),
         NEW t, IsSeq(t), Len(t) = Len(m), \A i \in 1 .. Len(m) : t[i][1][1] = m[i][1][1]
  PROVE  Written(lines, k + 1, t)
<1>1. Upto(lines, k + 1) = Upto(lines, k)
  BY UptoSteps
<1>2. ASSUME NEW i \in Upto(lines, k)
      PROVE  Cardinality(Upto(lines, i)) \in 1 .. Len(m)
  <2>1. k \in 0 .. n
    OBVIOUS
  <2>2. QED
    BY <2>1, PlaceOf DEF Written
<1>3. QED
  BY <1>1, <1>2 DEF Written

LEMMA WrittenNew ==
  ASSUME NEW lines, NEW n \in Nat, DOMAIN lines = 1 .. n, NEW k \in 0 .. n - 1,
         NEW m, Written(lines, k, m), k + 1 \in InstructionLines(lines)
  PROVE  Written(lines, k + 1, Append(m, lines[k + 1].words))
<1> DEFINE t == Append(m, lines[k + 1].words)
<1>1. /\ Upto(lines, k + 1) = Upto(lines, k) \cup {k + 1}
      /\ Cardinality(Upto(lines, k + 1)) = Cardinality(Upto(lines, k)) + 1
      /\ Cardinality(Upto(lines, k)) \in Nat
  BY UptoSteps
<1>2. /\ IsSeq(t) /\ Len(t) = Len(m) + 1 /\ \A i \in 1 .. Len(m) : t[i] = m[i]
      /\ Last(t) = lines[k + 1].words
  BY AppendFacts DEF Written
<1>3. t[Len(m) + 1] = lines[k + 1].words
  BY <1>2 DEF Last
<1>4. ASSUME NEW i \in Upto(lines, k)
      PROVE  Cardinality(Upto(lines, i)) \in 1 .. Len(m)
  <2>1. k \in 0 .. n
    OBVIOUS
  <2>2. QED
    BY <2>1, PlaceOf DEF Written
<1> HIDE DEF t
<1>5. ASSUME NEW i \in Upto(lines, k + 1)
      PROVE  t[Cardinality(Upto(lines, i))][1][1] = lines[i].words[1][1]
  <2>1. CASE i = k + 1
    BY <1>1, <1>3, <2>1 DEF Written
  <2>2. CASE i \in Upto(lines, k)
    BY <1>2, <1>4, <2>2 DEF Written
  <2>3. QED
    BY <1>1, <2>1, <2>2
<1>6. QED
  BY <1>1, <1>2, <1>5 DEF Written, t

-----------------------------------------------------------------------------
LEMMA EmptyConcat ==
  ASSUME NEW s, IsSeq(s)
  PROVE  <<>> \o s = s
<1>1. s \in Seq(Range(s))
  BY DEF IsSeq
<1>2. QED
  BY <1>1, ConcatEmptySeq

LEMMA ConcatHead ==
  ASSUME NEW s, NEW t, IsSeq(s), IsSeq(t), s # <<>>
  PROVE  s \o t # <<>> /\ (s \o t)[1] = s[1]
<1> DEFINE S == Range(s) \cup Range(t)
<1>1. s \in Seq(S) /\ t \in Seq(S)
  BY SeqMonotonic DEF IsSeq
<1>2. Len(s) \in Nat /\ Len(t) \in Nat /\ Len(s) > 0
  BY SeqFacts
<1>3. /\ s \o t \in Seq(S) /\ Len(s \o t) = Len(s) + Len(t)
      /\ \A i \in 1 .. Len(s) + Len(t) :
           (s \o t)[i] = IF i <= Len(s) THEN s[i] ELSE t[i - Len(s)]
  BY <1>1, ConcatProperties
<1>4. 1 \in 1 .. Len(s) + Len(t) /\ 1 <= Len(s) /\ Len(s) + Len(t) # 0
  BY <1>2
<1>5. Len(s \o t) # 0
  BY <1>3, <1>4
<1>6. QED
  BY <1>3, <1>4, <1>5

(* One more line.                                                          *)
LEMMA ReadingOn ==
  ASSUME NEW lines, NEW n \in Nat, DOMAIN lines = 1 .. n, Tidy(lines),
         \A i \in 1 .. n : IsSeq(lines[i].words) /\ lines[i].cont \in BOOLEAN,
         NEW k \in 0 .. n - 1, NEW acc, Reading(lines, k, acc)
  PROVE  Reading(lines, k + 1, Join(acc, lines[k + 1]))
<1> DEFINE words == lines[k + 1].words
           cont == lines[k + 1].cont
           new == Join(acc, lines[k + 1])
           m == Keep(acc.done, acc.open)
<1>0. k + 1 \in 1 .. n /\ k + 1 \in DOMAIN lines /\ k + 1 # 0 /\ (k + 1) - 1 = k
  OBVIOUS
<1>1. IsSeq(words) /\ IsSeq(acc.done) /\ IsSeq(acc.open) /\ cont \in BOOLEAN
  BY <1>0 DEF Reading
<1>2. Starts(lines, k + 1) <=> acc.open = <<>>
  BY <1>0 DEF Starts, Reading
<1>3. CASE acc.open # <<>>
  <2> DEFINE both == acc.open \o words
             t == Append(acc.done, both)
  <2>1. k + 1 \notin InstructionLines(lines)
    BY <1>2, <1>3 DEF InstructionLines
  <2>2. both # <<>> /\ both[1] = acc.open[1] /\ IsSeq(both)
    BY <1>1, <1>3, ConcatHead, ConcatIsSeq
  <2>3. both[1][1] # "#" /\ acc.open[1][1] # "#"
    BY <1>3, <2>2 DEF Reading
  <2>4. m = Append(acc.done, acc.open)
    BY <1>3, <2>3 DEF Keep
  <2>5. /\ IsSeq(t) /\ Len(t) = Len(m) /\ Len(m) = Len(acc.done) + 1
        /\ Last(t) = both /\ Last(m) = acc.open
        /\ \A i \in 1 .. Len(acc.done) : t[i] = acc.done[i] /\ m[i] = acc.done[i]
    <3> HIDE DEF both
    <3>1. QED
      BY <1>1, <2>4, AppendFacts
  <2> HIDE DEF t, m, both
  <2>6. \A i \in 1 .. Len(m) : t[i][1][1] = m[i][1][1]
    <3>1. Len(acc.done) \in Nat
      BY <1>1, SeqFacts
    <3>2. t[Len(acc.done) + 1] = both /\ m[Len(acc.done) + 1] = acc.open
      BY <2>5 DEF Last
    <3>3. QED
      BY <2>2, <2>5, <3>1, <3>2
  <2>7. Written(lines, k + 1, t)
    BY <2>1, <2>5, <2>6, WrittenSame DEF Reading, m
  <2>8. CASE cont
    <3>1. new = [done |-> acc.done, open |-> both]
      BY <2>8 DEF Join, Reading, both
    <3>2. QED
      BY <1>0, <1>1, <2>2, <2>3, <2>7, <2>8, <3>1 DEF Reading, Keep, t
  <2>9. CASE ~cont
    <3>1. new = [done |-> Keep(acc.done, both), open |-> <<>>]
      BY <2>9 DEF Join, both
    <3>2. Keep(acc.done, both) = t
      BY <2>2, <2>3 DEF Keep, t
    <3>3. new.done = t /\ new.open = <<>> /\ Keep(new.done, new.open) = t
      BY <3>1, <3>2 DEF Keep
    <3>4. IsSeq(new.open)
      BY <3>3 DEF IsSeq
    <3>5. QED
      BY <1>0, <2>5, <2>7, <2>9, <3>1, <3>3, <3>4 DEF Reading
  <2>10. QED
    BY <1>1, <2>8, <2>9
<1>4. CASE acc.open = <<>>
  <2>1. Starts(lines, k + 1) /\ acc.open \o words = words /\ m = acc.done
    BY <1>1, <1>2, <1>4, EmptyConcat DEF Keep
  <2>2. CASE words = <<>> \/ words[1][1] = "#"
    <3>1. ~cont /\ k + 1 \notin InstructionLines(lines)
      BY <1>0, <2>1, <2>2 DEF Tidy, Comment, InstructionLines
    <3>2. new = [done |-> acc.done, open |-> <<>>]
      BY <2>1, <2>2, <3>1 DEF Join, Keep
    <3>3. Keep(new.done, new.open) = m
      BY <2>1, <3>2 DEF Keep
    <3> HIDE DEF m
    <3>4. Written(lines, k + 1, m)
      BY <1>1, <2>1, <3>1, WrittenSame DEF Reading, m
    <3>5. QED
      BY <1>0, <1>1, <1>4, <3>1, <3>2, <3>3, <3>4 DEF Reading
  <2>3. CASE words # <<>> /\ words[1][1] # "#"
    <3>1. k + 1 \in InstructionLines(lines)
      BY <1>0, <2>1, <2>3 DEF Comment, InstructionLines
    <3>2. Written(lines, k + 1, Append(acc.done, words))
      BY <2>1, <3>1, WrittenNew DEF Reading
    <3>3. Keep(new.done, new.open) = Append(acc.done, words)
      BY <1>1, <2>1, <2>3 DEF Join, Keep, Reading
    <3>4. /\ new = [done |-> new.done, open |-> new.open]
          /\ IsSeq(new.done) /\ IsSeq(new.open)
          /\ new.open # <<>> <=> cont
          /\ new.open # <<>> => new.open = words
      <4>1. CASE cont
        <5>1. new = [done |-> acc.done, open |-> words]
          BY <2>1, <4>1 DEF Join, Reading
        <5>2. QED
          BY <1>1, <2>3, <4>1, <5>1
      <4>2. CASE ~cont
        <5>1. new = [done |-> Append(acc.done, words), open |-> <<>>]
          BY <2>1, <2>3, <4>2 DEF Join, Keep
        <5>2. IsSeq(Append(acc.done, words)) /\ IsSeq(<<>>)
          BY <1>1, AppendFacts DEF IsSeq
        <5>3. QED
          BY <4>2, <5>1, <5>2
      <4>3. QED
        BY <1>1, <4>1, <4>2
    <3>5. QED
      BY <1>0, <2>3, <3>2, <3>3, <3>4 DEF Reading
  <2>4. QED
    BY <2>2, <2>3
<1>5. QED
  BY <1>3, <1>4

LEMMA ReadingBegins ==
  ASSUME NEW lines, NEW n \in Nat, DOMAIN lines = 1 .. n
  PROVE  Reading(lines, 0, NothingRead)
<1>1. Upto(lines, 0) = {}
  <2>1. InstructionLines(lines) \subseteq 1 .. n
    BY DEF InstructionLines
  <2>2. QED
    BY <2>1 DEF Upto
<1>2. IsSeq(<<>>) /\ Len(<<>>) = 0 /\ Cardinality(Upto(lines, 0)) = 0
  BY <1>1, FS_EmptySet DEF IsSeq
<1>3. NothingRead.done = <<>> /\ NothingRead.open = <<>>
  BY DEF NothingRead
<1>4. QED
  BY <1>1, <1>2, <1>3 DEF Reading, Written, Keep, NothingRead

(* The joined lines of a tidy file: one for every instruction.             *)
LEMMA MergedLines ==
  ASSUME NEW lines \in Dockerfiles, Tidy(lines)
  PROVE  /\ IsSeq(mergeContinuations(lines))
         /\ Len(mergeContinuations(lines)) = Cardinality(InstructionLines(lines))
         /\ \A i \in InstructionLines(lines) :
              LET j == Cardinality({x \in InstructionLines(lines) : x <= i})
              IN  /\ j \in 1 .. Len(mergeContinuations(lines))
                  /\ mergeContinuations(lines)[j][1][1] = lines[i].words[1][1]
<1> DEFINE n == Len(lines)
           m == mergeContinuations(lines)
<1>1. /\ n \in Nat /\ DOMAIN lines = 1 .. n
      /\ \A i \in 1 .. n : IsSeq(lines[i].words) /\ lines[i].cont \in BOOLEAN
  BY DockerfileAssumption, SeqFacts
<1> HIDE DEF n, m
<1>2. PICK a : /\ a[0] = NothingRead /\ a[n] = Joined(lines)
               /\ \A k \in 0 .. n - 1 : a[k + 1] = Join(a[k], lines[k + 1])
  BY <1>1, JoinSteps
<1> DEFINE T == {k \in 0 .. n : Reading(lines, k, a[k])}
<1>3. 0 \in T
  BY <1>1, <1>2, ReadingBegins
<1>4. ASSUME NEW k \in 0 .. n - 1, k \in T
      PROVE  k + 1 \in T
  <2>1. Reading(lines, k, a[k])
    BY <1>4
  <2>2. Reading(lines, k + 1, Join(a[k], lines[k + 1]))
    BY <1>1, <2>1, ReadingOn
  <2>3. k + 1 \in 0 .. n
    BY <1>1
  <2>4. QED
    BY <1>2, <2>2, <2>3
<1>5. n \in T
  <2>1. n \in 0 .. n
    BY <1>1
  <2> HIDE DEF T
  <2>2. \A k \in 0 .. n : k \in T
    BY <1>1, <1>3, <1>4, UpTo
  <2>3. QED
    BY <2>1, <2>2
<1>6. Written(lines, n, m)
  BY <1>2, <1>5 DEF Reading, mergeContinuations, m
<1>7. Upto(lines, n) = InstructionLines(lines)
  <2>1. InstructionLines(lines) \subseteq 1 .. n
    BY <1>1 DEF InstructionLines
  <2>2. QED
    BY <1>1, <2>1 DEF Upto
<1>8. ASSUME NEW i \in InstructionLines(lines)
      PROVE  /\ Cardinality(Upto(lines, i)) \in 1 .. Len(m)
             /\ m[Cardinality(Upto(lines, i))][1][1] = lines[i].words[1][1]
  <2>1. n \in 0 .. n
    BY <1>1
  <2>2. QED
    BY <1>1, <1>6, <1>7, <2>1, PlaceOf DEF Written
<1>9. QED
  BY <1>6, <1>7, <1>8 DEF Written, Upto, m

(* A line that can be read becomes an instruction of its keyword.          *)
LEMMA KindOfLine ==
  ASSUME NEW words
  PROVE  parseLine(words).kind \in {words[1][1], "wrong", "panic"}
<1> DEFINE kind == words[1][1]
           rest == Tail(words)
<1>1. parseHealthCheck(rest).kind \in {"HEALTHCHECK", "wrong"}
  BY DEF parseHealthCheck, Wrong
<1>2. /\ parseFrom(rest).kind = "FROM"
      /\ parseExpose(rest).kind = "EXPOSE"
      /\ parseRun(rest).kind = "RUN"
      /\ parseKernel(rest).kind = "KERNEL"
      /\ parseCmd(kind, rest).kind = kind
      /\ parseWorkdir(kind, rest).kind = kind
  BY DEF parseFrom, parseExpose, parseRun, parseKernel, parseCmd, parseWorkdir
<1>3. /\ parseCopy(rest).kind \in {"COPY", "wrong"}
      /\ parseAdd(rest).kind \in {"ADD", "wrong"}
      /\ parseShell(rest).kind \in {"SHELL", "wrong"}
      /\ parseVolume(rest).kind \in {"VOLUME", "panic"}
  BY DEF parseCopy, parseAdd, parseShell, parseVolume, Wrong
<1>4. \A k : Assignment(k, rest).kind = k
  BY DEF Assignment
<1>5. parseEnv(rest).kind \in {"ENV", "wrong"} /\ parseLabel(rest).kind \in {"LABEL", "wrong"}
  BY <1>4 DEF parseEnv, parseLabel, Wrong
<1>6. Wrong.kind = "wrong"
  BY DEF Wrong
<1> HIDE DEF kind, rest
<1>7. parseLine(words) =
        IF kind = "HEALTHCHECK" THEN parseHealthCheck(rest)
        ELSE IF rest = <<>> THEN Wrong
        ELSE CASE kind = "FROM" -> parseFrom(rest)
               [] kind = "COPY" -> parseCopy(rest)
               [] kind = "ADD" -> parseAdd(rest)
               [] kind = "ENV" -> parseEnv(rest)
               [] kind = "LABEL" -> parseLabel(rest)
               [] kind = "EXPOSE" -> parseExpose(rest)
               [] kind = "VOLUME" -> parseVolume(rest)
               [] kind = "SHELL" -> parseShell(rest)
               [] kind = "RUN" -> parseRun(rest)
               [] kind = "KERNEL" -> parseKernel(rest)
               [] kind \in {"CMD", "ENTRYPOINT"} -> parseCmd(kind, rest)
               [] kind \in {"WORKDIR", "USER", "ARG"} -> parseWorkdir(kind, rest)
               [] OTHER -> Wrong
  BY DEF parseLine, kind, rest
<1>8. parseLine(words).kind \in {kind, "wrong", "panic"}
  BY <1>1, <1>2, <1>3, <1>5, <1>6, <1>7
<1>9. QED
  BY <1>8 DEF kind

(* What is read without an error.                                          *)
LEMMA ParsedLines ==
  ASSUME NEW lines \in Dockerfiles, Tidy(lines), Parse(lines).result = "ok"
  PROVE  LET instrs == Parse(lines).instrs
             starts == InstructionLines(lines)
         IN  /\ Len(instrs) = Cardinality(starts)
             /\ \A i \in starts :
                  instrs[Cardinality({j \in starts : j <= i})].kind = lines[i].words[1][1]
<1> DEFINE m == mergeContinuations(lines)
           instrs == [i \in DOMAIN m |-> parseLine(m[i])]
           bad == {i \in DOMAIN instrs : instrs[i].kind \in {"wrong", "panic"}}
<1>1. /\ Parse(lines).instrs = instrs
      /\ Parse(lines).result = IF bad = {} THEN "ok" ELSE instrs[Min(bad)].kind
  BY DEF Parse
<1>2. IsSeq(instrs)
  BY <1>1, DockerfileAssumption
<1>3. IsSeq(m) /\ Len(m) \in Nat /\ DOMAIN m = 1 .. Len(m)
  BY MergedLines, SeqFacts
<1>4. Len(instrs) = Len(m)
  <2>1. DOMAIN instrs = DOMAIN m
    OBVIOUS
  <2> HIDE DEF instrs, m
  <2>2. Len(instrs) \in Nat /\ DOMAIN instrs = 1 .. Len(instrs)
    BY <1>2, SeqFacts
  <2>3. PICK x \in Nat, y \in Nat : x = Len(instrs) /\ y = Len(m)
    BY <1>3, <2>2
  <2>4. 1 .. x = 1 .. y
    BY <1>3, <2>1, <2>2, <2>3
  <2>5. x = y
    BY <2>4
  <2>6. QED
    BY <2>3, <2>5
<1>5. bad = {}
  <2>1. bad \in SUBSET Nat
    BY <1>3
  <2>2. bad # {} => instrs[Min(bad)].kind \in {"wrong", "panic"}
    <3>1. bad # {} => Min(bad) \in bad
      <4> HIDE DEF bad
      <4>1. QED
        BY <2>1, MinIs
    <3>2. QED
      BY <3>1
  <2> HIDE DEF bad, instrs
  <2>3. QED
    BY <1>1, <2>2
<1>6. \A i \in DOMAIN m : instrs[i].kind = m[i][1][1]
  <2>1. ASSUME NEW i \in DOMAIN m
        PROVE  instrs[i].kind = m[i][1][1]
    <3>1. instrs[i] = parseLine(m[i]) /\ i \in DOMAIN instrs
      OBVIOUS
    <3>2. instrs[i].kind \notin {"wrong", "panic"}
      BY <1>5, <3>1
    <3> HIDE DEF instrs, m
    <3>3. QED
      BY <3>1, <3>2, KindOfLine
  <2>2. QED
    BY <2>1
<1>7. /\ Len(m) = Cardinality(InstructionLines(lines))
      /\ \A i \in InstructionLines(lines) :
           LET j == Cardinality({x \in InstructionLines(lines) : x <= i})
           IN  j \in 1 .. Len(m) /\ m[j][1][1] = lines[i].words[1][1]
  BY MergedLines
<1> HIDE DEF instrs, m
<1>8. QED
  BY <1>1, <1>3, <1>4, <1>6, <1>7

-----------------------------------------------------------------------------
(* What a build has in hand when it begins is what was read.               *)
HasRead(p) ==
  loc[p].at = "begin" =>
    /\ Cmd(p).lines \in Dockerfiles /\ Parse(Cmd(p).lines).result = "ok"
    /\ bld[p].instrs = Parse(Cmd(p).lines).instrs

ReadInv == \A p \in Proc : HasRead(p)

LEMMA WhoReads ==
  ASSUME NEW p \in Proc, Shapes, Control, OfKind(p), Act(p), loc'[p].at = "begin"
  PROVE  \/ ParseDockerfile(p)
         \/ loc[p].at = "begin" /\ SameBuild(p) /\ todo' = todo
<1>0. ShapesOK /\ CommandsOK /\ Routed(p)
  BY DEF Shapes, Control
<1>1. loc' = loc \/ KeepsPlace(p) \/ BuildStep(p)
  <2>1. ~Stops(p) /\ ~PullsOn(p) /\ ~ToImage(p) /\ ~InLayers(p) /\ ~ToIndex(p) /\ ~ToBase(p)
    BY DEF Stops, Halts, PullsOn, ToImage, InLayers, LayerPlaces, ToIndex, ToBase
  <2>2. /\ ~ToWork(p) /\ ~ToKernel(p) /\ ~Downloads(p) /\ ~ToModules(p) /\ ~ToSaving(p)
        /\ ~ToRemoving(p) /\ ~Loads(p) /\ ~Truncates(p)
    BY DEF ToWork, ToKernel, Downloads, ToModules, ToSaving, ToRemoving, Loads, Truncates
  <2>3. ~Begins(p)
    BY FirstPlaces DEF Begins
  <2>4. ~Writes(p)
    BY <1>0 DEF Writes, Routed, Routes, Indexing
  <2>5. QED
    BY <2>1, <2>2, <2>3, <2>4, Flow DEF Moves
<1>2. todo' = todo
  <2>1. ~NextCommand(p)
    BY NextBegins, FirstPlaces DEF Begins
  <2>2. QED
    BY <2>1, <1>0, CommandsKept
<1>3. CASE loc' = loc \/ KeepsPlace(p)
  <2>1. loc[p].at = "begin"
    BY <1>3 DEF KeepsPlace
  <2>2. SameBuild(p)
    BY <2>1, BuildFlow DEF BuildsOn, NextInstr, NewBuild
  <2>3. QED
    BY <1>2, <2>1, <2>2
<1>4. CASE BuildStep(p)
  <2>1. BuildMoves(p)
    BY <1>4, BuildSteps
  <2>2. loc[p].at = "parse"
    BY <2>1 DEF BuildMoves, Parses, Opens, Builds, Boots, Judges, Commits, Cleans,
       Committing, Indexing
  <2>3. QED
    BY <1>4, <2>2 DEF BuildStep, BeginProcess, HandleFrom, FromPulled, CopyBaseLayer, FromEnds,
       HandleKernel, KernelEnds, HandleRun, Machine, RunEnds, HandleCopy, Configure, ProcessEnds,
       CommitKernel, CommitRootfs, CommitSave, CleanUp, Handles, At
<1>5. QED
  BY <1>1, <1>3, <1>4

LEMMA HasReadKept ==
  ASSUME NEW p \in Proc, Shapes, Control, OfKind(p), HasRead(p), Act(p)
  PROVE  HasRead(p)'
<1>0. ShapesOK /\ CommandsOK /\ Routed(p)
  BY DEF Shapes, Control
<1> SUFFICES ASSUME loc'[p].at = "begin"
             PROVE  HasRead(p)'
  BY DEF HasRead
<1>1. CASE loc[p].at = "begin" /\ SameBuild(p) /\ todo' = todo
  BY <1>1 DEF HasRead, SameBuild, Cmd
<1>2. CASE ParseDockerfile(p)
  <2> DEFINE lines == Cmd(p).lines
  <2>1. loc[p].at = "parse" /\ todo' = todo
    BY <1>2 DEF ParseDockerfile, At
  <2>2. lines \in Dockerfiles
    <3>1. Cmd(p).kind = "build"
      BY <1>0, <2>1 DEF Routed
    <3>2. Cmd(p) = todo[p][1] /\ 1 \in DOMAIN todo[p]
      BY <1>0, HeadInDomain DEF Cmd, CommandsOK
    <3>3. QED
      BY <1>0, <3>1, <3>2 DEF CommandsOK
  <2>3. Parsed[lines] = Parse(lines)
    BY <2>2 DEF Parsed
  <2>4. Parse(lines).result = "ok"
    <3>1. SUFFICES ASSUME Parse(lines).result # "ok"
                   PROVE  FALSE
      OBVIOUS
    <3>2. Goto(p, "failed") \/ Goto(p, "panicked")
      BY <1>2, <2>3, <3>1 DEF ParseDockerfile
    <3>3. loc'[p].at \in {"failed", "panicked"}
      BY <1>0, <3>2 DEF Goto, ShapesOK, LocFields
    <3>4. QED
      BY <3>3
  <2>5. bld'[p].instrs = Parse(lines).instrs
    <3>1. \E s : bld' = [bld EXCEPT ![p] = [NoBuild EXCEPT !.instrs = Parse(lines).instrs,
                                                          !.settings = s]]
      BY <1>2, <2>3, <2>4 DEF ParseDockerfile
    <3>2. ASSUME NEW i, NEW s,
                 bld' = [bld EXCEPT ![p] = [NoBuild EXCEPT !.instrs = i, !.settings = s]]
          PROVE  bld'[p].instrs = i
      BY <3>2, <1>0 DEF NoBuild, ShapesOK, BldFields
    <3>3. QED
      BY <3>1, <3>2
  <2>6. QED
    BY <2>1, <2>2, <2>4, <2>5 DEF HasRead, Cmd
<1>3. QED
  BY <1>1, <1>2, WhoReads
LEMMA ReadInvInit == Init => ReadInv
<1> SUFFICES ASSUME Init, NEW p \in Proc
             PROVE  HasRead(p)
  BY DEF ReadInv
<1>1. todo \in Plan /\ loc = [q \in Proc |-> Local(Head(todo[q]))]
  BY DEF Init, ImageInit
<1>2. Head(todo[p]) = todo[p][1] /\ 1 \in DOMAIN todo[p] /\ todo[p][1].kind \in DOMAIN First
  BY <1>1, PlanAssumption, HeadInDomain
<1>3. loc[p].at = First[todo[p][1].kind]
  BY <1>1, <1>2 DEF Local
<1>4. QED
  BY <1>2, <1>3, FirstPlaces DEF HasRead

LEMMA ReadInvKept == TypeInv /\ BuildInv /\ ReadInv /\ [Next]_vars => ReadInv'
<1> SUFFICES ASSUME TypeInv, BuildInv, ReadInv, [Next]_vars
             PROVE  ReadInv'
  OBVIOUS
<1>0. Shapes /\ Control /\ Kinds
  BY DEF TypeInv, BaseInv, BuildInv
<1>1. ASSUME NEW p \in Proc, Act(p), NEW q \in Proc
      PROVE  HasRead(q)'
  <2>1. CASE q = p
    BY <1>0, <1>1, <2>1, HasReadKept DEF Kinds, ReadInv
  <2>2. CASE q # p
    <3>1. Alone(p)
      BY <1>0, <1>1, ShapesKept
    <3>2. loc'[q] = loc[q] /\ bld'[q] = bld[q] /\ todo'[q] = todo[q]
      BY <2>2, <3>1 DEF Alone
    <3>3. QED
      BY <3>2 DEF ReadInv, HasRead, Cmd
  <2>3. QED
    BY <2>1, <2>2
<1>2. CASE UNCHANGED <<todo, loc, bld>>
  BY <1>2 DEF ReadInv, HasRead, Cmd
<1>3. CASE Next
  <2>1. CASE ContainerStops /\ UNCHANGED <<kernelVars, work, bld>>
    BY <1>2, <2>1 DEF ContainerStops, stores
  <2>2. QED
    BY <1>1, <1>3, <2>1, WhoActs DEF ReadInv
<1>4. CASE UNCHANGED vars
  BY <1>2, <1>4 DEF vars, imageVars, buildVars, stores, files
<1>5. QED
  BY <1>3, <1>4

(* A Dockerfile whose comments and blank lines stand for themselves is     *)
(* carried out line by line, whatever its length: a build begins with one  *)
(* instruction for every line that does not continue another one, in that  *)
(* order and each under the keyword it begins with (parser.go:36-99).      *)
THEOREM LinesAreInstructions == Spec => []OneInstructionPerLine
<1>1. Init => ReadInv
  BY ReadInvInit
<1>2. TypeInv /\ BuildInv /\ ReadInv /\ [Next]_vars => ReadInv'
  BY ReadInvKept
<1>3. ReadInv => OneInstructionPerLine
  <2> SUFFICES ASSUME ReadInv, NEW p \in Proc, Cmd(p).kind = "build", At(p, "begin"),
                      Tidy(Cmd(p).lines)
               PROVE  LET lines == Cmd(p).lines
                          starts == InstructionLines(lines)
                      IN  /\ Len(bld[p].instrs) = Cardinality(starts)
                          /\ \A i \in starts :
                               bld[p].instrs[Cardinality({j \in starts : j <= i})].kind
                                 = lines[i].words[1][1]
    BY DEF OneInstructionPerLine
  <2>1. /\ Cmd(p).lines \in Dockerfiles /\ Parse(Cmd(p).lines).result = "ok"
        /\ bld[p].instrs = Parse(Cmd(p).lines).instrs
    BY DEF ReadInv, HasRead, At
  <2>2. QED
    BY <2>1, ParsedLines
<1>4. QED
  BY <1>1, <1>2, <1>3, BuildInvariant, PTL DEF Spec
=============================================================================
