-------------------------- MODULE MappingTextProofs --------------------------
(* Lemmas about MappingText: the documents the commands write are texts, and   *)
(* the rules they are written for are finite.                                  *)
EXTENDS MappingText, DataProofs

-----------------------------------------------------------------------------
(* Texts of lines.                                                           *)

(* A sequence of lines is a text.                                              *)
LEMMA TextOfLines ==
    ASSUME NEW S, NEW text \in Seq(S), \A line \in S : IsLine(line)
    PROVE IsText(text)
    BY SequenceOfItself DEF IsText

(* The empty text, and a text of one line.                                     *)
LEMMA ShortTexts ==
    /\ IsText(<<>>)
    /\ \A line : IsLine(line) => IsText(<<line>>)
<1>1. IsText(<<>>)
    <2>1. ToSet(<<>>) = {} /\ <<>> \in Seq({})
        BY DEF ToSet
    <2>. QED
        BY <2>1 DEF IsText
<1>2. ASSUME NEW line, IsLine(line) PROVE IsText(<<line>>)
    <2>1. ToSet(<<line>>) = {line} /\ <<line>> \in Seq({line})
        BY DEF ToSet
    <2>. QED
        BY <2>1, <1>2 DEF IsText
<1>. QED
    BY <1>1, <1>2

(* Two texts, one after the other.                                             *)
LEMMA ConcatText ==
    ASSUME NEW one, IsText(one), NEW other, IsText(other)
    PROVE IsText(one \o other)
<1> DEFINE S == ToSet(one) \cup ToSet(other)
<1>1. one \in Seq(S) /\ other \in Seq(S) /\ \A line \in S : IsLine(line)
    BY DEF IsText
<1> HIDE DEF S
<1>2. one \o other \in Seq(S)
    BY <1>1
<1>. QED
    BY <1>1, <1>2, TextOfLines

(* A text with one more line.                                                  *)
LEMMA AppendText ==
    ASSUME NEW text, IsText(text), NEW line, IsLine(line)
    PROVE IsText(Append(text, line))
<1> DEFINE S == ToSet(text) \cup {line}
<1>1. text \in Seq(S) /\ line \in S /\ \A l \in S : IsLine(l)
    BY DEF IsText
<1> HIDE DEF S
<1>2. Append(text, line) \in Seq(S)
    BY <1>1
<1>. QED
    BY <1>1, <1>2, TextOfLines

(* A text with another line in the place of one.                               *)
LEMMA ExceptText ==
    ASSUME NEW text, IsText(text), NEW i \in DOMAIN text, NEW line, IsLine(line)
    PROVE IsText([text EXCEPT ![i] = line]) /\ DOMAIN [text EXCEPT ![i] = line] = DOMAIN text
<1> DEFINE S == ToSet(text) \cup {line}
<1>1. text \in Seq(S) /\ line \in S /\ \A l \in S : IsLine(l)
    BY DEF IsText
<1> HIDE DEF S
<1>2. [text EXCEPT ![i] = line] \in Seq(S)
    BY <1>1
<1>. QED
    BY <1>1, <1>2, TextOfLines

(* A part of a text.                                                           *)
LEMMA PartOfText ==
    ASSUME NEW text, IsText(text), NEW i \in 1..Len(text), NEW j \in (i - 1)..Len(text)
    PROVE LET part == SubSeq(text, i, j)
          IN  IsText(part) /\ ToSet(part) \subseteq ToSet(text)
<1> DEFINE part == SubSeq(text, i, j)
<1>1. text \in Seq(ToSet(text)) /\ \A line \in ToSet(text) : IsLine(line)
    BY DEF IsText
<1>2. part \in Seq(ToSet(text))
    BY <1>1
<1> HIDE DEF part
<1>3. ToSet(part) \subseteq ToSet(text) /\ IsText(part)
    BY <1>1, <1>2, SequenceOfItself, TextOfLines
<1>. QED
    BY <1>3 DEF part

(* Texts one after the other.                                                  *)
LEMMA FlattenText ==
    ASSUME NEW n \in Nat, NEW texts, DOMAIN texts = 1..n, texts = [i \in 1..n |-> texts[i]], \A i \in 1..n : IsText(texts[i])
    PROVE IsText(FlattenSeq(texts))
<1> DEFINE S == UNION {ToSet(texts[i]) : i \in 1..n}
<1>1. \A line \in S : IsLine(line)
    BY DEF IsText
<1>2. \A i \in 1..n : texts[i] \in Seq(S)
    BY DEF IsText
<1> HIDE DEF S
<1>3. texts \in Seq(Seq(S))
    BY <1>2
<1>4. FlattenSeq(texts) \in Seq(S)
    BY <1>3, FlattenElements
<1>. QED
    BY <1>1, <1>4, TextOfLines

-----------------------------------------------------------------------------
(* What is read of a text.                                                   *)

(* First finds a line of its kind, if there is one.                            *)
LEMMA FirstIs ==
    ASSUME NEW section, IsText(section), NEW kind, Some(section, kind)
    PROVE First(section, kind) \in ToSet(section) /\ Is(First(section, kind), kind)
<1> DEFINE T == {i \in DOMAIN section : Is(section[i], kind)}
<1>1. T \subseteq Nat
    BY DEF IsText
<1>2. T # {}
    BY DEF Some, ToSet
<1>3. Min(T) \in T
    <2> HIDE DEF T
    <2>1. \E x \in T : \A y \in T : x <= y
        BY <1>1, <1>2, LeastNumber
    <2>. QED
        BY <2>1, Zenon DEF Min
<1>. QED
    BY <1>3 DEF First, ToSet

(* The sections of a text are texts of its lines, and finitely many.           *)
LEMMA SectionsOfText ==
    ASSUME NEW text, IsText(text)
    PROVE /\ IsFiniteSet(Sections(text))
          /\ \A section \in Sections(text) : IsText(section) /\ ToSet(section) \subseteq ToSet(text)
<1> DEFINE T == SectionStarts(text)
<1>1. DOMAIN text = 1..Len(text) /\ Len(text) \in Nat /\ T \subseteq 1..Len(text) /\ IsFiniteSet(DOMAIN text)
    BY FiniteElements DEF IsText, SectionStarts
<1>2. IsFiniteSet(T)
    BY <1>1, FS_Subset
<1> HIDE DEF T
<1>3. CASE T = {}
    <2>1. Sections(text) = {text}
        BY <1>3 DEF Sections, T
    <2>2. IsFiniteSet({text})
        BY FS_Singleton
    <2>. QED
        BY <2>1, <2>2
<1>4. CASE T # {}
    <2>1. Sections(text) = {SectionFrom(text, start) : start \in T}
        BY <1>4 DEF Sections, T
    <2>2. IsFiniteSet(Sections(text))
        <3> DEFINE f == [start \in T |-> SectionFrom(text, start)]
        <3>1. Sections(text) = {f[start] : start \in T}
            BY <2>1
        <3> HIDE DEF f
        <3>. QED
            BY <3>1, <1>2, FiniteImage
    <2>3. ASSUME NEW start \in T
          PROVE IsText(SectionFrom(text, start)) /\ ToSet(SectionFrom(text, start)) \subseteq ToSet(text)
        <3> DEFINE later == {i \in T : i > start}
                   end == IF later = {} THEN Len(text) ELSE Min(later) - 1
        <3>1. end \in (start - 1)..Len(text)
            <4> \A i \in T : i \in 1..Len(text) /\ i \in Nat
                BY <1>1
            <4> Len(text) \in Nat
                BY <1>1
            <4>1. CASE later = {}
                BY <4>1
            <4>2. CASE later # {}
                <5>1. later \subseteq Nat
                    OBVIOUS
                <5>2. Min(later) \in later
                    <6> HIDE DEF later
                    <6>1. \E x \in later : \A y \in later : x <= y
                        BY <5>1, <4>2, LeastNumber
                    <6>. QED
                        BY <6>1, Zenon DEF Min
                <5>. QED
                    BY <5>2, <4>2
            <4>. QED
                BY <4>1, <4>2
        <3>2. SectionFrom(text, start) = SubSeq(text, start, end)
            BY DEF SectionFrom, T
        <3> HIDE DEF end
        <3>3. start \in 1..Len(text)
            BY <1>1
        <3>. QED
            BY <3>1, <3>2, <3>3, PartOfText
    <2>. QED
        BY <2>1, <2>2, <2>3
<1>. QED
    BY <1>3, <1>4
-----------------------------------------------------------------------------
(* Mappings of sections that have a mappingId, a target and a source each.     *)

\* The lines of a section for a rule or a relation.
IsSection(lines) == Len(lines) = 3 /\ Is(lines[1], "mappingId") /\ Is(lines[2], "target") /\ Is(lines[3], "source")
\* They begin here.
BeginsAt(lines, text, start) ==
    /\ start \in 1..Len(text) - 2
    /\ text[start] = lines[1] /\ text[start + 1] = lines[2] /\ text[start + 2] = lines[3]

(* The section that begins at such lines has their target and their source.    *)
LEMMA SectionBeginning ==
    ASSUME NEW S, NEW text \in Seq(S), NEW lines, IsSection(lines), NEW start, BeginsAt(lines, text, start)
    PROVE LET section == SectionFrom(text, start)
          IN  /\ start \in SectionStarts(text)
              /\ Some(section, "target") /\ First(section, "target") = lines[2]
              /\ Some(section, "source") /\ First(section, "source") = lines[3]
<1> DEFINE starts == SectionStarts(text)
           later == {i \in starts : i > start}
           end == IF later = {} THEN Len(text) ELSE Min(later) - 1
           section == SectionFrom(text, start)
<1>1. Len(text) \in Nat /\ DOMAIN text = 1..Len(text)
    BY LenProperties
<1>2. start \in 1..Len(text) /\ start + 1 \in 1..Len(text) /\ start + 2 \in 1..Len(text)
    BY <1>1 DEF BeginsAt
<1>3. start \in starts /\ start + 1 \notin starts /\ start + 2 \notin starts /\ starts \subseteq 1..Len(text)
    BY <1>1, <1>2 DEF SectionStarts, BeginsAt, IsSection, Is
<1>4. end \in start + 2..Len(text)
    <2>1. CASE later = {}
        BY <1>1, <1>2, <2>1
    <2>2. CASE later # {}
        <3>1. later \subseteq Nat
            BY <1>3
        <3>2. Min(later) \in later
            <4> HIDE DEF later
            <4>1. \E x \in later : \A y \in later : x <= y
                BY <2>2, <3>1, LeastNumber
            <4>. QED
                BY <4>1, Zenon DEF Min
        <3>3. PICK least \in later : least = Min(later)
            BY <3>2
        <3>4. least \in 1..Len(text) /\ least > start /\ least # start + 1 /\ least # start + 2
            BY <1>3
        <3>5. least - 1 \in start + 2..Len(text)
            BY <1>1, <1>2, <3>4
        <3>. QED
            BY <2>2, <3>3, <3>5
    <2>. QED
        BY <2>1, <2>2
<1>5. section = SubSeq(text, start, end)
    BY DEF SectionFrom
<1> HIDE DEF end, section
<1>6. start \in Int /\ end \in Int /\ start <= end /\ end - start + 1 \in Nat /\ 3 <= end - start + 1
    BY <1>1, <1>2, <1>4
<1>7. \A i \in start..end : text[i] \in S
    <2>1. ASSUME NEW i \in start..end PROVE text[i] \in S
        <3>1. i \in 1..Len(text)
            BY <1>1, <1>2, <1>4
        <3>. QED
            BY <3>1, ElementOfSeq
    <2>. QED
        BY <2>1
<1>8. section \in Seq(S) /\ Len(section) = end - start + 1 /\ \A i \in 1..end - start + 1 : section[i] = text[start + i - 1]
    BY <1>5, <1>6, <1>7, SubSeqProperties
<1>9. DOMAIN section = 1..Len(section) /\ 1 \in DOMAIN section /\ 2 \in DOMAIN section /\ 3 \in DOMAIN section
    BY <1>6, <1>8, LenProperties
<1>10. section[1] = lines[1] /\ section[2] = lines[2] /\ section[3] = lines[3]
    <2>1. section[1] = text[start + 1 - 1] /\ section[2] = text[start + 2 - 1] /\ section[3] = text[start + 3 - 1]
        BY <1>6, <1>8
    <2>2. start + 1 - 1 = start /\ start + 2 - 1 = start + 1 /\ start + 3 - 1 = start + 2
        BY <1>6
    <2>. QED
        BY <2>1, <2>2 DEF BeginsAt
<1>11. Some(section, "target") /\ Some(section, "source")
    BY <1>9, <1>10 DEF Some, ToSet, IsSection
<1>12. ASSUME NEW kind, NEW n \in 1..3, Is(section[n], kind), \A i \in 1..n - 1 : ~Is(section[i], kind)
       PROVE First(section, kind) = section[n]
    <2> DEFINE T == {i \in DOMAIN section : Is(section[i], kind)}
    <2>1. n \in T /\ \A i \in T : n <= i
        BY <1>6, <1>8, <1>9, <1>12
    <2>2. T \subseteq Nat
        BY <1>9
    <2>3. (CHOOSE x \in T : \A y \in T : x <= y) = n
        <3> HIDE DEF T
        <3>1. PICK least : least = CHOOSE x \in T : \A y \in T : x <= y
            OBVIOUS
        <3>2. least \in T /\ \A y \in T : least <= y
            BY <2>1, <3>1
        <3>. QED
            BY <2>1, <2>2, <3>1, <3>2
    <2>. QED
        BY <2>3 DEF First, Min
<1>13. First(section, "target") = section[2]
    <2>1. ~Is(section[1], "target") /\ Is(section[2], "target") /\ \A i \in 1..2 - 1 : i = 1
        BY <1>10 DEF IsSection, Is
    <2>. QED
        BY <1>12, <2>1
<1>14. First(section, "source") = section[3]
    <2>1. ~Is(section[1], "source") /\ ~Is(section[2], "source") /\ Is(section[3], "source") /\ \A i \in 1..3 - 1 : i = 1 \/ i = 2
        BY <1>10 DEF IsSection, Is
    <2>. QED
        BY <1>12, <2>1
<1>. QED
    BY <1>3, <1>10, <1>11, <1>13, <1>14 DEF section

\* A mapping of such sections; a section may be missing.
MappingOf(sections) == <<MappingDeclaration>> \o FlattenSeq(sections) \o <<Closing>>
AreSections(sections) == \A i \in DOMAIN sections : sections[i] = <<>> \/ IsSection(sections[i])

(* The lines of a mapping: its declaration, those of its sections, its end.    *)
LEMMA LinesOfMapping ==
    ASSUME NEW S, NEW sections \in Seq(Seq(S))
    PROVE LET text == MappingOf(sections)
              lines == FlattenSeq(sections)
          IN  /\ text \in Seq(S \cup {MappingDeclaration, Closing}) /\ lines \in Seq(S) /\ Len(text) = Len(lines) + 2
              /\ text[1] = MappingDeclaration /\ text[Len(lines) + 2] = Closing
              /\ \A m \in 1..Len(lines) : text[m + 1] = lines[m]
<1> DEFINE lines == FlattenSeq(sections)
           text == MappingOf(sections)
<1>1. lines \in Seq(S)
    BY FlattenElements
<1>2. text = <<MappingDeclaration>> \o lines \o <<Closing>>
    BY DEF MappingOf
<1> HIDE DEF lines, text
<1>3. PICK R : R = S \cup {MappingDeclaration, Closing}
    OBVIOUS
<1>4. PICK one \in Seq(R) : one = <<MappingDeclaration>>
    <2>1. MappingDeclaration \in R
        BY <1>3
    <2>2. <<MappingDeclaration>> \in Seq(R)
        BY <2>1
    <2>. QED
        BY <2>2
<1>5. PICK other \in Seq(R) : other = <<Closing>>
    <2>1. Closing \in R
        BY <1>3
    <2>2. <<Closing>> \in Seq(R)
        BY <2>1
    <2>. QED
        BY <2>2
<1>6. /\ lines \in Seq(R) /\ Len(lines) \in Nat
      /\ Len(one) = 1 /\ one[1] = MappingDeclaration /\ Len(other) = 1 /\ other[1] = Closing
    BY <1>1, <1>3, <1>4, <1>5, SeqMonotonic, LenProperties
<1>7. PICK begun : begun = one \o lines
    OBVIOUS
<1>8. begun \in Seq(R) /\ Len(begun) = 1 + Len(lines)
      /\ \A m \in 1..1 + Len(lines) : begun[m] = IF m <= 1 THEN one[m] ELSE lines[m - 1]
    <2>1. begun \in Seq(R) /\ Len(begun) = Len(one) + Len(lines)
          /\ \A m \in 1..Len(one) + Len(lines) : begun[m] = IF m <= Len(one) THEN one[m] ELSE lines[m - Len(one)]
        BY <1>6, <1>7, ConcatProperties
    <2>. QED
        BY <1>6, <2>1
<1>9. text \in Seq(R) /\ Len(text) = Len(begun) + 1
      /\ \A m \in 1..Len(begun) + 1 : text[m] = IF m <= Len(begun) THEN begun[m] ELSE other[m - Len(begun)]
    <2>1. text = begun \o other
        BY <1>2, <1>4, <1>5, <1>7
    <2>2. text \in Seq(R) /\ Len(text) = Len(begun) + Len(other)
          /\ \A m \in 1..Len(begun) + Len(other) : text[m] = IF m <= Len(begun) THEN begun[m] ELSE other[m - Len(begun)]
        BY <1>8, <2>1, ConcatProperties
    <2>. QED
        BY <1>6, <2>2
<1>10. text[1] = MappingDeclaration /\ text[Len(lines) + 2] = Closing
    <2>1. begun[1] = one[1]
        BY <1>6, <1>8
    <2>2. text[1] = begun[1]
        BY <1>6, <1>8, <1>9
    <2>3. Len(lines) + 2 \in 1..Len(begun) + 1 /\ ~(Len(lines) + 2 <= Len(begun)) /\ Len(lines) + 2 - Len(begun) = 1
        BY <1>6, <1>8
    <2>4. text[Len(lines) + 2] = other[Len(lines) + 2 - Len(begun)]
        BY <1>9, <2>3
    <2>. QED
        BY <1>6, <2>1, <2>2, <2>3, <2>4
<1>11. ASSUME NEW m \in 1..Len(lines) PROVE text[m + 1] = lines[m]
    <2>1. text[m + 1] = begun[m + 1]
        BY <1>6, <1>8, <1>9
    <2>2. begun[m + 1] = lines[(m + 1) - 1] /\ (m + 1) - 1 = m
        BY <1>6, <1>8
    <2>. QED
        BY <2>1, <2>2
<1>. QED
    <2>1. Len(text) = Len(lines) + 2
        BY <1>6, <1>8, <1>9
    <2>. QED
        BY <1>1, <1>3, <1>9, <1>10, <1>11, <2>1 DEF lines, text

(* Where its sections begin.                                                   *)
LEMMA SectionsOfMapping ==
    ASSUME NEW S, NEW sections \in Seq(Seq(S)), AreSections(sections)
    PROVE LET text == MappingOf(sections)
          IN  /\ ~Some(text, "[SourceDeclaration]") /\ Some(text, "[MappingDeclaration]")
              /\ \A i \in DOMAIN sections : sections[i] # <<>> => \E start : BeginsAt(sections[i], text, start)
              /\ \A start \in SectionStarts(text) : \E i \in DOMAIN sections : sections[i] # <<>> /\ BeginsAt(sections[i], text, start)
<1> DEFINE lines == FlattenSeq(sections)
           text == MappingOf(sections)
<1>1. /\ text \in Seq(S \cup {MappingDeclaration, Closing}) /\ lines \in Seq(S) /\ Len(text) = Len(lines) + 2
      /\ text[1] = MappingDeclaration /\ text[Len(lines) + 2] = Closing
      /\ \A m \in 1..Len(lines) : text[m + 1] = lines[m]
    BY LinesOfMapping
<1>2. /\ \A i \in DOMAIN sections : \E k : LiesAt(sections[i], lines, k)
      /\ \A m \in DOMAIN lines :
            \E i \in DOMAIN sections : \E k : LiesAt(sections[i], lines, k) /\ m \in k + 1..k + Len(sections[i])
    BY FlattenPlaces
<1> HIDE DEF lines, text
<1>3. Len(lines) \in Nat /\ DOMAIN text = 1..Len(text) /\ DOMAIN lines = 1..Len(lines)
    BY <1>1, LenProperties
<1>4. ASSUME NEW i \in DOMAIN sections, IsSection(sections[i]), NEW k, LiesAt(sections[i], lines, k)
      PROVE BeginsAt(sections[i], text, k + 2) /\ k \in 0..Len(lines) - 3
    <2>1. k \in 0..Len(lines) - 3 /\ lines[k + 1] = sections[i][1] /\ lines[k + 2] = sections[i][2] /\ lines[k + 3] = sections[i][3]
        BY <1>4 DEF LiesAt, IsSection
    <2>2. text[(k + 1) + 1] = lines[k + 1] /\ text[(k + 2) + 1] = lines[k + 2] /\ text[(k + 3) + 1] = lines[k + 3]
        <3>1. k + 1 \in 1..Len(lines) /\ k + 2 \in 1..Len(lines) /\ k + 3 \in 1..Len(lines)
            BY <1>3, <2>1
        <3>. QED
            BY <1>1, <3>1
    <2>3. (k + 1) + 1 = k + 2 /\ (k + 2) + 1 = (k + 2) + 1 /\ (k + 3) + 1 = (k + 2) + 2 /\ k + 2 \in 1..Len(text) - 2
        BY <1>1, <1>3, <2>1
    <2>. QED
        BY <2>1, <2>2, <2>3 DEF BeginsAt
<1>5. ASSUME NEW m \in 1..Len(lines)
      PROVE \E i \in DOMAIN sections : \E k :
                IsSection(sections[i]) /\ LiesAt(sections[i], lines, k) /\ m \in k + 1..k + 3
    <2>1. PICK i \in DOMAIN sections : \E k : LiesAt(sections[i], lines, k) /\ m \in k + 1..k + Len(sections[i])
        BY <1>2, <1>3
    <2>2. PICK k : LiesAt(sections[i], lines, k) /\ m \in k + 1..k + Len(sections[i])
        BY <2>1
    <2>3. sections[i] # <<>>
        <3> SUFFICES ASSUME sections[i] = <<>> PROVE FALSE
            OBVIOUS
        <3>1. Len(sections[i]) = 0
            OBVIOUS
        <3>. QED
            BY <2>2, <3>1 DEF LiesAt
    <2>4. IsSection(sections[i])
        BY <2>3 DEF AreSections
    <2>. QED
        BY <2>2, <2>4 DEF IsSection
<1>6. ASSUME NEW m \in 1..Len(text)
      PROVE /\ ~Is(text[m], "[SourceDeclaration]")
            /\ Is(text[m], "mappingId") => \E i \in DOMAIN sections : sections[i] # <<>> /\ BeginsAt(sections[i], text, m)
    <2>1. CASE m = 1 \/ m = Len(lines) + 2
        BY <1>1, <2>1 DEF MappingDeclaration, Closing, Is
    <2>2. CASE m # 1 /\ m # Len(lines) + 2
        <3>1. m - 1 \in 1..Len(lines)
            BY <1>1, <1>3, <2>2
        <3>2. PICK i \in DOMAIN sections : \E k :
                IsSection(sections[i]) /\ LiesAt(sections[i], lines, k) /\ m - 1 \in k + 1..k + 3
            BY <1>5, <3>1
        <3>3. PICK k : IsSection(sections[i]) /\ LiesAt(sections[i], lines, k) /\ m - 1 \in k + 1..k + 3
            BY <3>2
        <3>4. BeginsAt(sections[i], text, k + 2) /\ k \in 0..Len(lines) - 3
            BY <1>4, <3>3
        <3>5. m = k + 2 \/ m = (k + 2) + 1 \/ m = (k + 2) + 2
            BY <1>1, <1>3, <3>3, <3>4
        <3>6. ~Is(text[m], "[SourceDeclaration]") /\ (Is(text[m], "mappingId") => m = k + 2)
            BY <3>3, <3>4, <3>5 DEF BeginsAt, IsSection, Is
        <3>7. sections[i] # <<>>
            <4> SUFFICES ASSUME sections[i] = <<>> PROVE FALSE
                OBVIOUS
            <4>1. Len(sections[i]) = 0
                OBVIOUS
            <4>. QED
                BY <3>3, <4>1 DEF IsSection
        <3>. QED
            BY <3>4, <3>6, <3>7
    <2>. QED
        BY <2>1, <2>2
<1>7. ~Some(text, "[SourceDeclaration]")
    BY <1>3, <1>6 DEF Some, ToSet
<1>8. Some(text, "[MappingDeclaration]")
    <2>1. 1 \in DOMAIN text
        BY <1>1, <1>3
    <2>. QED
        BY <1>1, <2>1 DEF Some, ToSet, Is, MappingDeclaration
<1>9. \A i \in DOMAIN sections : sections[i] # <<>> => \E start : BeginsAt(sections[i], text, start)
    BY <1>2, <1>4 DEF AreSections
<1>10. \A start \in SectionStarts(text) : \E i \in DOMAIN sections : sections[i] # <<>> /\ BeginsAt(sections[i], text, start)
    BY <1>3, <1>6 DEF SectionStarts
<1>. QED
    BY <1>7, <1>8, <1>9, <1>10 DEF text

(* What is read of a mapping: the rules of its targets, if no target and no    *)
(* source fails.                                                               *)
LEMMA MappingIsRead ==
    ASSUME NEW S, NEW sections \in Seq(Seq(S)), AreSections(sections),
           NEW some \in DOMAIN sections, sections[some] # <<>>
    PROVE LET text == MappingOf(sections)
              present == {i \in DOMAIN sections : sections[i] # <<>>}
          IN  /\ NativeFails(text) => \E i \in present : SourceFails(sections[i][3]) \/ TargetFails(sections[i][2])
              /\ NativeRules(text) = UNION {RulesOfTarget(sections[i][2], sections[i][3]) : i \in present}
<1> DEFINE text == MappingOf(sections)
           present == {i \in DOMAIN sections : sections[i] # <<>>}
           starts == SectionStarts(text)
<1>1. text \in Seq(S \cup {MappingDeclaration, Closing})
    BY LinesOfMapping
<1>2. /\ ~Some(text, "[SourceDeclaration]") /\ Some(text, "[MappingDeclaration]")
      /\ \A i \in present : \E start : BeginsAt(sections[i], text, start)
      /\ \A start \in starts : \E i \in present : BeginsAt(sections[i], text, start)
    BY SectionsOfMapping
<1> HIDE DEF text
<1>3. ASSUME NEW i \in present, NEW start, BeginsAt(sections[i], text, start)
      PROVE LET section == SectionFrom(text, start)
            IN  /\ start \in starts
                /\ Some(section, "target") /\ First(section, "target") = sections[i][2]
                /\ Some(section, "source") /\ First(section, "source") = sections[i][3]
    <2>1. IsSection(sections[i])
        BY DEF AreSections
    <2>. QED
        BY <1>1, <1>3, <2>1, SectionBeginning
<1>4. starts # {}
    <2>1. some \in present
        OBVIOUS
    <2>. QED
        BY <1>2, <1>3, <2>1
<1>5. Sections(text) = {SectionFrom(text, start) : start \in starts}
    BY <1>4 DEF Sections
<1> HIDE DEF present, starts
<1>6. ASSUME NEW section \in Sections(text)
      PROVE \E i \in present :
                /\ Some(section, "target") /\ First(section, "target") = sections[i][2]
                /\ Some(section, "source") /\ First(section, "source") = sections[i][3]
    BY <1>2, <1>3, <1>5
<1>7. ASSUME NEW i \in present
      PROVE \E section \in Sections(text) :
                First(section, "target") = sections[i][2] /\ First(section, "source") = sections[i][3]
    BY <1>2, <1>3, <1>5
<1>8. NativeFails(text) => \E i \in present : SourceFails(sections[i][3]) \/ TargetFails(sections[i][2])
    BY <1>2, <1>6 DEF NativeFails, SectionFails
<1>9. NativeRules(text) = UNION {RulesOfTarget(sections[i][2], sections[i][3]) : i \in present}
    <2>1. ASSUME NEW rule \in NativeRules(text)
          PROVE \E i \in present : rule \in RulesOfTarget(sections[i][2], sections[i][3])
        <3>1. PICK section \in Sections(text) : rule \in RulesOfTarget(First(section, "target"), First(section, "source"))
            BY DEF NativeRules
        <3>. QED
            BY <1>6, <3>1
    <2>2. ASSUME NEW i \in present, NEW rule \in RulesOfTarget(sections[i][2], sections[i][3])
          PROVE rule \in NativeRules(text)
        <3>1. PICK section \in Sections(text) :
                First(section, "target") = sections[i][2] /\ First(section, "source") = sections[i][3]
            BY <1>7
        <3>. QED
            BY <3>1 DEF NativeRules
    <2>. QED
        BY <2>1, <2>2
<1>. QED
    BY <1>8, <1>9 DEF text, present

-----------------------------------------------------------------------------
(* The rules of a text, and the texts of rules.                              *)

\* Rules that can be listed, of sources that are lines of a text.
CanBeListed(rules) == IsFiniteSet(rules) /\ \A rule \in rules : IsSource(rule.source)

(* Rules of finitely many sets of them.                                        *)
LEMMA ListedTogether ==
    ASSUME NEW S, IsFiniteSet(S), NEW f, \A x \in S : CanBeListed(f[x])
    PROVE CanBeListed(UNION {f[x] : x \in S})
<1>1. IsFiniteSet(UNION {f[x] : x \in S})
    BY FiniteUnion DEF CanBeListed
<1>. QED
    BY <1>1 DEF CanBeListed

(* The source of a rule is the one it is made for.                             *)
LEMMA RuleSource ==
    ASSUME NEW subject, NEW predicate, NEW object, NEW graph, NEW source
    PROVE LET rule == Rule(subject, predicate, object, graph, source)
          IN  /\ DOMAIN rule = {"subject", "columnSubject", "predicate", "object", "templateObject", "graph", "source", "base"}
              /\ rule.source = source
    BY DEF Rule

(* A target has as many rules as pairs.                                        *)
LEMMA RulesOfOneTarget ==
    ASSUME NEW target, IsLine(target), Is(target, "target"), NEW source, IsSource(source)
    PROVE CanBeListed(RulesOfTarget(target, source))
<1> DEFINE f == [pair \in ToSet(target.pairs) |->
                    Rule(SubjectRead(target.subject), pair.predicate, ObjectRead(pair.object), target.graph, source)]
<1>1. RulesOfTarget(target, source) = {f[pair] : pair \in ToSet(target.pairs)}
    BY DEF RulesOfTarget
<1>2. \A pair \in ToSet(target.pairs) : f[pair].source = source
    BY RuleSource
<1> HIDE DEF f
<1>3. IsFiniteSet(ToSet(target.pairs))
    BY FiniteElements DEF IsLine
<1>4. IsFiniteSet({f[pair] : pair \in ToSet(target.pairs)})
    BY <1>3, FiniteImage
<1>. QED
    BY <1>1, <1>2, <1>4 DEF CanBeListed

(* The rules of a native document can be listed.                               *)
LEMMA NativeRulesListed ==
    ASSUME NEW text, IsText(text), ~NativeFails(text)
    PROVE CanBeListed(NativeRules(text))
<1> DEFINE f == [section \in Sections(text) |-> RulesOfTarget(First(section, "target"), First(section, "source"))]
<1>1. ASSUME NEW section \in Sections(text) PROVE CanBeListed(f[section])
    <2> DEFINE target == First(section, "target")
               source == First(section, "source")
    <2>1. IsText(section)
        BY SectionsOfText
    <2>2. Some(section, "target") /\ Some(section, "source")
        BY DEF NativeFails, SectionFails
    <2>3. IsLine(target) /\ Is(target, "target") /\ IsLine(source) /\ Is(source, "source")
        BY <2>1, <2>2, FirstIs DEF IsText
    <2>4. IsSource(source)
        BY <2>3 DEF IsLine
    <2> HIDE DEF target, source
    <2>5. CanBeListed(RulesOfTarget(target, source))
        BY <2>3, <2>4, RulesOfOneTarget
    <2>. QED
        BY <2>5 DEF target, source
<1>2. NativeRules(text) = UNION {f[section] : section \in Sections(text)}
    BY DEF NativeRules
<1> HIDE DEF f
<1>3. IsFiniteSet(Sections(text))
    BY SectionsOfText
<1>. QED
    BY <1>1, <1>2, <1>3, ListedTogether

(* The graphs of a rule are finitely many.                                     *)
LEMMA GraphsFinite ==
    ASSUME NEW triplesMap
    PROVE /\ IsFiniteSet(OrDefault(FirstGraph(triplesMap)))
          /\ \A object : object.graphs \in Seq(ToSet(object.graphs)) => IsFiniteSet(RuleGraphs(triplesMap, object))
<1>1. IsFiniteSet({ <<>> }) /\ IsFiniteSet({1})
    BY FS_Singleton
<1>2. IsFiniteSet(FirstGraph(triplesMap))
    <2> DEFINE S == DOMAIN triplesMap.graphs \cap {1}
               f == [i \in S |-> triplesMap.graphs[i]]
    <2>1. IsFiniteSet(S)
        BY <1>1, FS_Subset
    <2>2. FirstGraph(triplesMap) = {f[i] : i \in S}
        BY DEF FirstGraph
    <2> HIDE DEF S, f
    <2>. QED
        BY <2>1, <2>2, FiniteImage
<1>3. ASSUME NEW graphs, IsFiniteSet(graphs) PROVE IsFiniteSet(OrDefault(graphs))
    BY <1>1, <1>3 DEF OrDefault
<1>4. ASSUME NEW object, object.graphs \in Seq(ToSet(object.graphs)) PROVE IsFiniteSet(RuleGraphs(triplesMap, object))
    <2>1. IsFiniteSet(ToSet(object.graphs))
        BY <1>4, FiniteElements
    <2>2. IsFiniteSet(FirstGraph(triplesMap) \cup ToSet(object.graphs))
        BY <1>2, <2>1, FS_Union
    <2>. QED
        BY <2>2, <1>3 DEF RuleGraphs
<1>. QED
    BY <1>2, <1>3, <1>4

(* The rules of a triples map can be listed.                                   *)
LEMMA RulesOfOneTriplesMap ==
    ASSUME NEW triplesMap, IsLine(triplesMap), Is(triplesMap, "triples map")
    PROVE CanBeListed(RulesOfTriplesMap(triplesMap))
<1>1. /\ IsSource(triplesMap.source) /\ IsFiniteSet(triplesMap.classes)
      /\ triplesMap.objects \in Seq(ToSet(triplesMap.objects))
      /\ \A object \in ToSet(triplesMap.objects) : object.graphs \in Seq(ToSet(object.graphs))
    BY DEF IsLine
<1> DEFINE fields == {"subject", "columnSubject", "predicate", "object", "templateObject", "graph", "source", "base"}
<1>2. ASSUME NEW predicate, NEW object, NEW graph
      PROVE LET rule == RuleOfMap(triplesMap, predicate, object, graph)
            IN  DOMAIN rule = fields /\ rule.source = triplesMap.source
    <2> DEFINE r == Rule(SubjectOfMap(triplesMap.subject), predicate, object, graph, triplesMap.source)
    <2>1. DOMAIN r = fields /\ r.source = triplesMap.source
        BY DEF Rule
    <2>2. RuleOfMap(triplesMap, predicate, object, graph)
            = [r EXCEPT !.columnSubject = triplesMap.subject.kind = "column", !.base = triplesMap.base]
        BY DEF RuleOfMap
    <2> HIDE DEF r
    <2>. QED
        BY <2>1, <2>2
<1>3. ASSUME NEW map PROVE IsSource(SourceOfMap(map, triplesMap.source))
    BY <1>1 DEF SourceOfMap, IsSource, Is
<1>4. ASSUME NEW object, NEW graph PROVE IsSource(RuleOfObject(triplesMap, object, graph).source)
    <2> DEFINE r == RuleOfMap(triplesMap, object.predicate, ObjectOfMap(object.map), graph)
    <2>1. DOMAIN r = fields /\ r.source = triplesMap.source
        BY <1>2
    <2>2. RuleOfObject(triplesMap, object, graph)
            = [r EXCEPT !.templateObject = object.map.kind = "template" /\ TypeOfMap(object.map, "iri") = "iri",
                        !.source = SourceOfMap(object.map, @)]
        BY DEF RuleOfObject
    <2> HIDE DEF r
    <2>3. RuleOfObject(triplesMap, object, graph).source = SourceOfMap(object.map, triplesMap.source)
        BY <2>1, <2>2
    <2>. QED
        BY <2>3, <1>3
<1> DEFINE some(object) == {RuleOfObject(triplesMap, object, graph) : graph \in RuleGraphs(triplesMap, object)}
           f == [object \in ToSet(triplesMap.objects) |-> some(object)]
<1>5. ASSUME NEW object \in ToSet(triplesMap.objects) PROVE CanBeListed(f[object])
    <2> DEFINE g == [graph \in RuleGraphs(triplesMap, object) |-> RuleOfObject(triplesMap, object, graph)]
    <2>1. IsFiniteSet(RuleGraphs(triplesMap, object))
        BY <1>1, GraphsFinite
    <2>2. some(object) = {g[graph] : graph \in RuleGraphs(triplesMap, object)}
        OBVIOUS
    <2> HIDE DEF g
    <2>3. IsFiniteSet(some(object))
        BY <2>1, <2>2, FiniteImage
    <2>. QED
        BY <2>3, <1>4 DEF CanBeListed
<1>6. CanBeListed(UNION {f[object] : object \in ToSet(triplesMap.objects)})
    <2> HIDE DEF f
    <2>1. IsFiniteSet(ToSet(triplesMap.objects))
        BY <1>1, FiniteElements
    <2>. QED
        BY <2>1, <1>5, ListedTogether
<1> DEFINE graphs == OrDefault(FirstGraph(triplesMap))
           ofClass(class) == {RuleOfClass(triplesMap, class, graph) : graph \in graphs}
           h == [class \in triplesMap.classes |-> ofClass(class)]
<1>7. CanBeListed(UNION {h[class] : class \in triplesMap.classes})
    <2>1. IsFiniteSet(graphs)
        BY GraphsFinite
    <2>2. ASSUME NEW class \in triplesMap.classes PROVE CanBeListed(h[class])
        <3> DEFINE g == [graph \in graphs |-> RuleOfClass(triplesMap, class, graph)]
        <3>1. ofClass(class) = {g[graph] : graph \in graphs}
            OBVIOUS
        <3>2. \A graph \in graphs : IsSource(RuleOfClass(triplesMap, class, graph).source)
            BY <1>1, <1>2 DEF RuleOfClass
        <3> HIDE DEF g, graphs
        <3>3. IsFiniteSet(ofClass(class))
            BY <2>1, <3>1, FiniteImage
        <3>. QED
            BY <3>2, <3>3 DEF CanBeListed
    <2> HIDE DEF h
    <2>. QED
        BY <1>1, <2>2, ListedTogether
<1>8. RulesOfTriplesMap(triplesMap)
        = (UNION {f[object] : object \in ToSet(triplesMap.objects)}) \cup (UNION {h[class] : class \in triplesMap.classes})
    <2>1. {f[object] : object \in ToSet(triplesMap.objects)} = {some(object) : object \in ToSet(triplesMap.objects)}
        <3> HIDE DEF some
        <3>. QED
            OBVIOUS
    <2>2. {h[class] : class \in triplesMap.classes} = {ofClass(class) : class \in triplesMap.classes}
        <3> HIDE DEF ofClass
        <3>. QED
            OBVIOUS
    <2> HIDE DEF f, h
    <2>3. RulesOfTriplesMap(triplesMap)
            = (UNION {some(object) : object \in ToSet(triplesMap.objects)})
              \cup (UNION {ofClass(class) : class \in triplesMap.classes})
        BY Zenon DEF RulesOfTriplesMap
    <2>. QED
        BY <2>1, <2>2, <2>3, Zenon
<1> HIDE DEF f, h
<1> DEFINE one == UNION {f[object] : object \in ToSet(triplesMap.objects)}
           other == UNION {h[class] : class \in triplesMap.classes}
<1>9. CanBeListed(one) /\ CanBeListed(other) /\ RulesOfTriplesMap(triplesMap) = one \cup other
    BY <1>6, <1>7, <1>8
<1> HIDE DEF one, other
<1>10. IsFiniteSet(one \cup other)
    BY <1>9, FS_Union DEF CanBeListed
<1>. QED
    BY <1>9, <1>10 DEF CanBeListed

(* The rules of an R2RML document can be listed.                               *)
LEMMA R2rmlRulesListed ==
    ASSUME NEW text, IsText(text)
    PROVE CanBeListed(R2rmlRules(text))
<1> DEFINE maps == {line \in ToSet(text) : Is(line, "triples map")}
           f == [line \in maps |-> RulesOfTriplesMap(line)]
<1>1. IsFiniteSet(maps)
    BY FiniteElements, FS_Subset DEF IsText
<1>2. \A line \in maps : CanBeListed(f[line])
    BY RulesOfOneTriplesMap DEF IsText
<1>3. R2rmlRules(text) = UNION {f[line] : line \in maps}
    BY DEF R2rmlRules
<1> HIDE DEF maps, f
<1>. QED
    BY <1>1, <1>2, <1>3, ListedTogether
(* Lines of some kinds are lines of a text whatever they say.                  *)
LEMMA PlainLines ==
    ASSUME NEW line, "t" \in DOMAIN line, line.t \notin {"source", "target", "triples map"}
    PROVE IsLine(line)
    BY DEF IsLine, Is

(* So are sources.                                                             *)
LEMMA SourceLines ==
    ASSUME NEW line, IsSource(line)
    PROVE IsLine(line)
    BY DEF IsLine, IsSource, Is

(* A target is a line if its objects are literals with one suffix.             *)
LEMMA TargetLines ==
    ASSUME NEW S, NEW pairs \in Seq(S), \A pair \in S : "object" \in DOMAIN pair /\ HasOneSuffix(pair.object), NEW graph, NEW subject
    PROVE IsLine(Target(graph, subject, pairs))
<1> DEFINE target == Target(graph, subject, pairs)
<1>1. pairs \in Seq(ToSet(pairs)) /\ \A pair \in ToSet(pairs) : "object" \in DOMAIN pair /\ HasOneSuffix(pair.object)
    BY SequenceOfItself
<1>2. "t" \in DOMAIN target /\ "pairs" \in DOMAIN target /\ target.t = "target" /\ target.pairs = pairs
    BY DEF Target
<1> HIDE DEF target
<1>3. IsLine(target)
    BY <1>1, <1>2 DEF IsLine, Is
<1>. QED
    BY <1>3 DEF target

(* Whatever is written of a term has one suffix.                               *)
LEMMA TokenSuffix ==
    ASSUME NEW term, term.type \in {"iri", "blank", "literal"}, NEW isTemplate, NEW base
    PROVE HasOneSuffix(TokenOf(term, isTemplate, base))
<1>1. PICK token : token = TokenOf(term, isTemplate, base)
    OBVIOUS
<1>2. {"datatype", "language"} \subseteq DOMAIN token /\ (token.datatype = None \/ token.language = None)
    <2>1. CASE term.type = "iri"
        BY <1>1, <2>1 DEF TokenOf, Token
    <2>2. CASE term.type = "blank"
        BY <1>1, <2>2 DEF TokenOf, Token
    <2>3. CASE term.type = "literal"
        <3>1. token.datatype = IF term.language = None THEN term.datatype ELSE None
            BY <1>1, <2>3 DEF TokenOf, Token
        <3>2. token.language = term.language /\ {"datatype", "language"} \subseteq DOMAIN token
            BY <1>1, <2>3 DEF TokenOf, Token
        <3>. QED
            BY <3>1, <3>2
    <2>. QED
        BY <2>1, <2>2, <2>3
<1>. QED
    BY <1>1, <1>2 DEF HasOneSuffix

\* The terms of a rule that was read: a subject is no literal.
HasTypes(rule) == rule.subject.type \in {"iri", "blank"} /\ rule.object.type \in {"iri", "blank", "literal"}

(* Whatever a target says, its rules have such terms (native_subject,          *)
(* native_object).                                                             *)
LEMMA NativeRulesTyped ==
    ASSUME NEW text
    PROVE \A rule \in NativeRules(text) : HasTypes(rule)
<1>1. ASSUME NEW token PROVE SubjectRead(token).type \in {"iri", "blank"}
    BY DEF SubjectRead, Term
<1>2. ASSUME NEW token PROVE ObjectRead(token).type \in {"iri", "blank", "literal"}
    BY DEF ObjectRead, Term, LiteralTerm
<1>3. ASSUME NEW target, NEW source PROVE \A rule \in RulesOfTarget(target, source) : HasTypes(rule)
    <2> SUFFICES ASSUME NEW pair \in ToSet(target.pairs)
                 PROVE HasTypes(Rule(SubjectRead(target.subject), pair.predicate, ObjectRead(pair.object), target.graph, source))
        BY DEF RulesOfTarget
    <2>. QED
        BY <1>1, <1>2 DEF HasTypes, Rule
<1>. QED
    BY <1>3 DEF NativeRules

(* The fields of a rule that is made for a triples map.                        *)
LEMMA RuleFields ==
    ASSUME NEW triplesMap, NEW predicate, NEW object, NEW graph
    PROVE LET rule == RuleOfMap(triplesMap, predicate, object, graph)
          IN  /\ DOMAIN rule = {"subject", "columnSubject", "predicate", "object", "templateObject", "graph", "source", "base"}
              /\ rule.subject = SubjectOfMap(triplesMap.subject) /\ rule.columnSubject = (triplesMap.subject.kind = "column")
              /\ rule.predicate = predicate /\ rule.object = object /\ rule.graph = graph
              /\ rule.source = triplesMap.source /\ rule.base = triplesMap.base
<1> DEFINE r == Rule(SubjectOfMap(triplesMap.subject), predicate, object, graph, triplesMap.source)
<1>1. /\ DOMAIN r = {"subject", "columnSubject", "predicate", "object", "templateObject", "graph", "source", "base"}
      /\ r.subject = SubjectOfMap(triplesMap.subject) /\ r.predicate = predicate /\ r.object = object /\ r.graph = graph
      /\ r.source = triplesMap.source
    BY DEF Rule
<1>2. RuleOfMap(triplesMap, predicate, object, graph)
        = [r EXCEPT !.columnSubject = triplesMap.subject.kind = "column", !.base = triplesMap.base]
    BY DEF RuleOfMap
<1> HIDE DEF r
<1>. QED
    BY <1>1, <1>2


\* What is read from R2RML: a subject in < >, an object in one of four forms, a
\* literal with at most one suffix, whose value is a column if it has one.
ObjectFormed(term) ==
    \/ term.type \in {"iri", "blank"} /\ term.form \in {"angled", "plain"} /\ term = Term(term.type, term.parts, term.form)
    \/ term = LiteralTerm(term.parts, "quoted", term.datatype, term.language, FALSE)
    \/ /\ term = LiteralTerm(term.parts, "plain", term.datatype, term.language, TRUE)
       /\ term.datatype # None => IsSlot(Head(term.parts))
Formed(rule) ==
    /\ rule.subject.type \in {"iri", "blank"} /\ rule.subject = Term(rule.subject.type, rule.subject.parts, "angled")
    /\ ObjectFormed(rule.object) /\ HasOneSuffix(rule.object)
    /\ ~SourceFails(rule.source)

(* An object that is read has one of those forms.                              *)
LEMMA ObjectsFormed ==
    ASSUME NEW map, NEW base, IsObjectMap(map, base), ~MapFails(map)
    PROVE ObjectFormed(ObjectOfMap(map)) /\ HasOneSuffix(ObjectOfMap(map))
<1>0. None = "none"
    BY DEF None
<1>1. ASSUME NEW type \in {"iri", "blank"}, NEW parts, NEW form \in {"angled", "plain"}
      PROVE ObjectFormed(Term(type, parts, form)) /\ HasOneSuffix(Term(type, parts, form))
    BY DEF ObjectFormed, HasOneSuffix, Term
<1>2. ASSUME NEW parts, NEW form \in {"quoted", "plain"}, NEW datatype, NEW language, datatype = None \/ language = None,
             form = "plain" => (datatype # None => IsSlot(Head(parts))), NEW infers \in BOOLEAN, infers = (form = "plain")
      PROVE LET term == LiteralTerm(parts, form, datatype, language, infers)
            IN  ObjectFormed(term) /\ HasOneSuffix(term)
    <2>1. PICK term : term = LiteralTerm(parts, form, datatype, language, infers)
        OBVIOUS
    <2>2. /\ term.parts = parts /\ term.datatype = datatype /\ term.language = language
          /\ {"datatype", "language"} \subseteq DOMAIN term
        BY <2>1 DEF LiteralTerm, Term
    <2>3. HasOneSuffix(term)
        BY <1>2, <2>2 DEF HasOneSuffix
    <2>4. CASE form = "quoted"
        <3>1. infers = FALSE
            BY <1>2, <2>4
        <3>. QED
            BY <2>1, <2>2, <2>3, <2>4, <3>1 DEF ObjectFormed
    <2>5. CASE form = "plain"
        <3>1. infers = TRUE
            BY <1>2, <2>5
        <3>. QED
            BY <1>2, <2>1, <2>2, <2>3, <2>5, <3>1 DEF ObjectFormed
    <2>. QED
        BY <2>4, <2>5
<1>3. CASE map.kind = "constant IRI"
    BY <1>1, <1>3 DEF ObjectOfMap
<1>4. CASE map.kind = "constant literal"
    <2>1. map.datatype = None \/ map.language = None
        BY <1>4 DEF MapFails
    <2>2. ObjectOfMap(map) = LiteralTerm(map.parts, "quoted", map.datatype, map.language, FALSE)
        BY <1>4 DEF ObjectOfMap
    <2>. QED
        BY <1>2, <2>1, <2>2
<1>5. CASE map.kind = "template"
    <2>1. TypeOfMap(map, "iri") \in {"iri", "blank", "literal"}
        BY <1>0, <1>5 DEF IsObjectMap, TypeOfMap
    <2>2. \/ ObjectOfMap(map) = Term("iri", map.parts, "angled")
          \/ ObjectOfMap(map) = Term("blank", map.parts, "plain")
          \/ ObjectOfMap(map) = LiteralTerm(map.parts, "plain", None, None, TRUE)
        BY <1>5 DEF ObjectOfMap
    <2>. QED
        BY <1>1, <1>2, <2>2
<1>6. CASE map.kind = "column"
    <2>1. (map.datatype = None \/ map.language = None) /\ IsSlot(Head(map.parts))
        BY <1>6 DEF MapFails, IsObjectMap
    <2>2. CASE TypeOfMap(map, "literal") = "literal"
        <3>1. ObjectOfMap(map) = LiteralTerm(map.parts, "plain", map.datatype, map.language, TRUE)
            BY <1>6, <2>2 DEF ObjectOfMap
        <3>. QED
            BY <1>2, <2>1, <3>1
    <2>3. CASE TypeOfMap(map, "literal") # "literal"
        <3>1. map.termType \in {"iri", "blank"}
            BY <1>6, <2>3 DEF IsObjectMap, TypeOfMap
        <3>2. ObjectOfMap(map) = Term(map.termType, map.parts, "plain")
            BY <1>6, <2>3 DEF ObjectOfMap
        <3>. QED
            BY <1>1, <3>1, <3>2
    <2>. QED
        BY <2>2, <2>3
<1>7. CASE map.kind = "parent"
    <2>1. TypeOfMap(map.parent.subject, "iri") \in {"iri", "blank"}
        BY <1>0, <1>7 DEF IsObjectMap, IsSubjectMap, TypeOfMap
    <2>2. ObjectOfMap(map) = Term(TypeOfMap(map.parent.subject, "iri"), OfParent(map.parent.subject.parts), "angled")
        BY <1>7 DEF ObjectOfMap
    <2>. QED
        BY <1>1, <2>1, <2>2
<1>. QED
    BY <1>3, <1>4, <1>5, <1>6, <1>7 DEF IsObjectMap

(* The fields of a rule of an object map, and of a class.                      *)
LEMMA RuleOfObjectFields ==
    ASSUME NEW triplesMap, NEW object, NEW graph
    PROVE LET rule == RuleOfObject(triplesMap, object, graph)
          IN  /\ rule.subject = SubjectOfMap(triplesMap.subject) /\ rule.columnSubject = (triplesMap.subject.kind = "column")
              /\ rule.predicate = object.predicate /\ rule.object = ObjectOfMap(object.map) /\ rule.graph = graph
              /\ rule.source = SourceOfMap(object.map, triplesMap.source) /\ rule.base = triplesMap.base
<1>1. PICK r : r = RuleOfMap(triplesMap, object.predicate, ObjectOfMap(object.map), graph)
    OBVIOUS
<1>2. /\ DOMAIN r = {"subject", "columnSubject", "predicate", "object", "templateObject", "graph", "source", "base"}
      /\ r.subject = SubjectOfMap(triplesMap.subject) /\ r.columnSubject = (triplesMap.subject.kind = "column")
      /\ r.predicate = object.predicate /\ r.object = ObjectOfMap(object.map) /\ r.graph = graph
      /\ r.source = triplesMap.source /\ r.base = triplesMap.base
    BY <1>1, RuleFields
<1>3. PICK rule : rule = RuleOfObject(triplesMap, object, graph)
    OBVIOUS
<1>4. rule = [r EXCEPT !.templateObject = object.map.kind = "template" /\ TypeOfMap(object.map, "iri") = "iri",
                       !.source = SourceOfMap(object.map, @)]
    BY <1>1, <1>3 DEF RuleOfObject
<1>. QED
    BY <1>2, <1>3, <1>4

(* The rules of an R2RML document have those forms.                            *)
LEMMA R2rmlRulesFormed ==
    ASSUME NEW text, IsText(text), ~R2rmlFails(text)
    PROVE \A rule \in R2rmlRules(text) : Formed(rule) /\ HasTypes(rule)
<1>0. None = "none"
    BY DEF None
<1>1. ASSUME NEW triplesMap, IsTriplesMap(triplesMap), NEW r, r.subject = SubjectOfMap(triplesMap.subject),
             ObjectFormed(r.object), HasOneSuffix(r.object), ~SourceFails(r.source)
      PROVE Formed(r) /\ HasTypes(r)
    <2>1. PICK subject : subject = SubjectOfMap(triplesMap.subject)
        OBVIOUS
    <2>2. TypeOfMap(triplesMap.subject, "iri") \in {"iri", "blank"}
        BY <1>0, <1>1 DEF IsTriplesMap, IsSubjectMap, TypeOfMap
    <2>3. subject.type \in {"iri", "blank"} /\ subject = Term(subject.type, subject.parts, "angled")
        BY <2>1, <2>2 DEF SubjectOfMap, Term
    <2>4. r.object.type \in {"iri", "blank", "literal"}
        BY <1>1 DEF ObjectFormed, LiteralTerm, Term
    <2>. QED
        BY <1>1, <2>1, <2>3, <2>4 DEF Formed, HasTypes
<1>2. ASSUME NEW triplesMap, IsTriplesMap(triplesMap), IsSource(triplesMap.source), ~SourceFails(triplesMap.source),
             NEW object, ~MapFails(object.map), IsObjectMap(object.map, triplesMap.base), NEW graph
      PROVE Formed(RuleOfObject(triplesMap, object, graph)) /\ HasTypes(RuleOfObject(triplesMap, object, graph))
    <2>1. PICK r : r = RuleOfObject(triplesMap, object, graph)
        OBVIOUS
    <2>2. /\ r.subject = SubjectOfMap(triplesMap.subject) /\ r.object = ObjectOfMap(object.map)
          /\ r.source = SourceOfMap(object.map, triplesMap.source)
        BY <2>1, RuleOfObjectFields
    <2>3. SourceOfMap(object.map, triplesMap.source).items = triplesMap.source.items
        BY <1>2 DEF SourceOfMap, IsSource
    <2>4. ~SourceFails(r.source)
        BY <1>2, <2>2, <2>3 DEF SourceFails
    <2>5. ObjectFormed(r.object) /\ HasOneSuffix(r.object)
        BY <1>2, <2>2, ObjectsFormed
    <2>. QED
        BY <1>1, <1>2, <2>1, <2>2, <2>4, <2>5
<1>3. ASSUME NEW triplesMap, IsTriplesMap(triplesMap), ~SourceFails(triplesMap.source), NEW class, NEW graph
      PROVE Formed(RuleOfClass(triplesMap, class, graph)) /\ HasTypes(RuleOfClass(triplesMap, class, graph))
    <2>1. PICK r : r = RuleOfClass(triplesMap, class, graph)
        OBVIOUS
    <2>2. PICK object : object = Term("iri", class, "angled")
        OBVIOUS
    <2>3. r.subject = SubjectOfMap(triplesMap.subject) /\ r.object = object /\ r.source = triplesMap.source
        BY <2>1, <2>2, RuleFields DEF RuleOfClass
    <2>4. ObjectFormed(object) /\ HasOneSuffix(object)
        BY <2>2 DEF ObjectFormed, HasOneSuffix, Term
    <2>. QED
        BY <1>1, <1>3, <2>1, <2>3, <2>4
<1>4. ASSUME NEW triplesMap \in ToSet(text), Is(triplesMap, "triples map")
      PROVE /\ IsTriplesMap(triplesMap) /\ IsSource(triplesMap.source) /\ ~SourceFails(triplesMap.source)
            /\ \A object \in ToSet(triplesMap.objects) : ~MapFails(object.map) /\ IsObjectMap(object.map, triplesMap.base)
    BY <1>4 DEF IsText, IsLine, IsTriplesMap, R2rmlFails, TriplesMapFails
<1>5. ASSUME NEW triplesMap \in ToSet(text), Is(triplesMap, "triples map"), NEW rule \in RulesOfTriplesMap(triplesMap)
      PROVE Formed(rule) /\ HasTypes(rule)
    <2>1. CASE \E object \in ToSet(triplesMap.objects) : \E graph : rule = RuleOfObject(triplesMap, object, graph)
        BY <1>2, <1>4, <1>5, <2>1
    <2>2. CASE \E class, graph : rule = RuleOfClass(triplesMap, class, graph)
        BY <1>3, <1>4, <1>5, <2>2
    <2>. QED
        BY <2>1, <2>2 DEF RulesOfTriplesMap
<1>. QED
    BY <1>5 DEF R2rmlRules

(* What is written of such terms are term maps (r2rml_term_map).               *)
LEMMA TermMapsOfTerms ==
    ASSUME NEW term
    PROVE /\ term.type \in {"iri", "blank"} => IsSubjectMap(TermMapOf(term, TRUE))
          /\ term.type \in {"iri", "blank", "literal"} => \A base : IsObjectMap(TermMapOf(term, FALSE), base)
<1>1. None = "none"
    BY DEF None
<1>2. ASSUME NEW map, DOMAIN map = {"kind", "parts", "termType", "datatype", "language"},
             map.datatype = None, map.language = None,
             \/ map.kind = "template" /\ map.termType \in {None, "blank"}
             \/ map.kind = "constant IRI" /\ ~HasSlot(map.parts) /\ map.termType = None
      PROVE IsSubjectMap(map) /\ \A base : IsObjectMap(map, base)
    <2>1. IsSubjectMap(map)
        BY <1>2 DEF IsSubjectMap
    <2>. QED
        BY <1>2, <2>1 DEF IsObjectMap
<1>3. CASE term.type = "iri"
    <2> DEFINE map == IF HasSlot(term.parts) THEN TermMap("template", term.parts, None) ELSE TermMap("constant IRI", term.parts, None)
    <2>1. TermMapOf(term, TRUE) = map /\ TermMapOf(term, FALSE) = map
        BY <1>3 DEF TermMapOf
    <2>2. /\ DOMAIN map = {"kind", "parts", "termType", "datatype", "language"}
          /\ map.datatype = None /\ map.language = None /\ map.termType = None
          /\ map.kind = "template" \/ (map.kind = "constant IRI" /\ ~HasSlot(map.parts))
        BY DEF TermMap
    <2> HIDE DEF map
    <2>3. IsSubjectMap(map) /\ \A base : IsObjectMap(map, base)
        BY <1>2, <2>2
    <2>. QED
        BY <1>3, <2>1, <2>3
<1>4. CASE term.type = "blank"
    <2> DEFINE map == TermMap("template", term.parts, "blank")
    <2>1. TermMapOf(term, TRUE) = map /\ TermMapOf(term, FALSE) = map
        BY <1>4 DEF TermMapOf
    <2>2. /\ DOMAIN map = {"kind", "parts", "termType", "datatype", "language"}
          /\ map.datatype = None /\ map.language = None /\ map.termType = "blank" /\ map.kind = "template"
        BY DEF TermMap
    <2> HIDE DEF map
    <2>3. IsSubjectMap(map) /\ \A base : IsObjectMap(map, base)
        BY <1>2, <2>2
    <2>. QED
        BY <1>4, <2>1, <2>3
<1>5. CASE term.type = "literal"
    <2> DEFINE wholly == IsSlot(Head(term.parts)) /\ IsSlot(Last(term.parts)) /\ term.form = "plain"
               map == IF ~term.infers THEN TermMap("constant literal", term.parts, None)
                      ELSE IF wholly THEN TermMap("column", term.parts, None)
                      ELSE TermMap("template", term.parts, "literal")
    <2>1. TermMapOf(term, FALSE)
            = [map EXCEPT !.datatype = IF term.language = None THEN term.datatype ELSE None, !.language = term.language]
        BY <1>5 DEF TermMapOf
    <2>2. /\ DOMAIN map = {"kind", "parts", "termType", "datatype", "language"} /\ map.parts = term.parts
          /\ \/ map.kind = "constant literal"
             \/ map.kind = "column" /\ map.termType = None /\ IsSlot(Head(term.parts))
             \/ map.kind = "template" /\ map.termType = "literal"
        <3>1. CASE ~term.infers
            BY <3>1 DEF TermMap
        <3>2. CASE term.infers /\ wholly
            BY <3>2 DEF TermMap
        <3>3. CASE term.infers /\ ~wholly
            BY <3>3 DEF TermMap
        <3>. QED
            BY <3>1, <3>2, <3>3
    <2> HIDE DEF map
    <2>3. PICK m : m = TermMapOf(term, FALSE)
        OBVIOUS
    <2>4. /\ m.parts = term.parts
          /\ \/ m.kind = "constant literal"
             \/ m.kind = "column" /\ m.termType = None /\ IsSlot(Head(term.parts))
             \/ m.kind = "template" /\ m.termType = "literal"
        BY <2>1, <2>2, <2>3
    <2>5. \A base : IsObjectMap(m, base)
        BY <1>1, <2>4 DEF IsObjectMap
    <2>. QED
        BY <1>5, <2>3, <2>5
<1>. QED
    BY <1>2, <1>3, <1>4, <1>5

(* A source that SetToSeq lists is that of a rule in the set.                  *)
LEMMA RulesListed ==
    ASSUME NEW rules, CanBeListed(rules)
    PROVE LET some == SetToSeq(rules)
          IN  DOMAIN some = 1..Len(some) /\ Len(some) \in Nat /\ \A i \in DOMAIN some : some[i] \in rules /\ IsSource(some[i].source)
<1> DEFINE some == SetToSeq(rules)
<1>1. some \in Seq(rules)
    BY SetToSeqElements DEF CanBeListed
<1> HIDE DEF some
<1>2. DOMAIN some = 1..Len(some) /\ Len(some) \in Nat /\ \A i \in DOMAIN some : some[i] \in rules /\ IsSource(some[i].source)
    BY <1>1 DEF CanBeListed
<1>. QED
    BY <1>2 DEF some

(* What is written for rules that can be listed is a text, in both languages.  *)
LEMMA NativeTextIsText ==
    ASSUME NEW rules, CanBeListed(rules), \A rule \in rules : HasTypes(rule)
    PROVE IsText(NativeText(rules))
<1> DEFINE some == SetToSeq(rules)
           section(i) ==
              LET triple == NativeTriple(some[i])
              IN  <<MappingId(i), Target(triple.graph, triple.subject, triple.pairs), some[i].source>>
           sections == [i \in DOMAIN some |-> section(i)]
<1>1. DOMAIN some = 1..Len(some) /\ Len(some) \in Nat /\ \A i \in DOMAIN some : IsSource(some[i].source) /\ HasTypes(some[i])
    BY RulesListed
<1>2. NativeText(rules) = <<MappingDeclaration>> \o FlattenSeq(sections) \o <<Closing>>
    BY DEF NativeText
<1> HIDE DEF some
<1>3. ASSUME NEW i \in DOMAIN some PROVE IsText(section(i))
    <2> DEFINE pair == [predicate |-> some[i].predicate, object |-> TokenOf(some[i].object, some[i].templateObject, some[i].base)]
               subject == TokenOf(some[i].subject, ~some[i].columnSubject, some[i].base)
    <2>1. section(i) = <<MappingId(i), Target(some[i].graph, subject, <<pair>>), some[i].source>>
        BY DEF NativeTriple
    <2>2. IsLine(MappingId(i))
        BY PlainLines DEF MappingId
    <2>3. HasOneSuffix(pair.object) /\ "object" \in DOMAIN pair
        BY <1>1, TokenSuffix DEF HasTypes
    <2> HIDE DEF pair, subject
    <2>4. IsLine(Target(some[i].graph, subject, <<pair>>))
        <3>1. PICK S : S = {pair}
            OBVIOUS
        <3>2. <<pair>> \in Seq(S) /\ \A other \in S : "object" \in DOMAIN other /\ HasOneSuffix(other.object)
            BY <2>3, <3>1
        <3>. QED
            BY <3>2, TargetLines
    <2>5. IsLine(some[i].source)
        BY <1>1, SourceLines
    <2> DEFINE S == {MappingId(i), Target(some[i].graph, subject, <<pair>>), some[i].source}
    <2>6. <<MappingId(i), Target(some[i].graph, subject, <<pair>>), some[i].source>> \in Seq(S)
        OBVIOUS
    <2>7. \A line \in S : IsLine(line)
        BY <2>2, <2>4, <2>5
    <2> HIDE DEF S, section
    <2>8. section(i) \in Seq(S)
        BY <2>1, <2>6
    <2>. QED
        BY <2>7, <2>8, TextOfLines
<1>4. IsText(FlattenSeq(sections))
    <2>1. DOMAIN sections = 1..Len(some) /\ sections = [i \in 1..Len(some) |-> sections[i]]
        BY <1>1
    <2>2. \A i \in 1..Len(some) : IsText(sections[i])
        BY <1>1, <1>3
    <2> HIDE DEF sections
    <2>. QED
        BY <1>1, <2>1, <2>2, FlattenText
<1> HIDE DEF sections
<1>5. IsText(<<MappingDeclaration>>) /\ IsText(<<Closing>>)
    BY PlainLines, ShortTexts DEF MappingDeclaration, Closing
<1>. QED
    BY <1>2, <1>4, <1>5, ConcatText

(* So is an R2RML document.                                                    *)
LEMMA R2rmlTextIsText ==
    ASSUME NEW rules, CanBeListed(rules), \A rule \in rules : HasTypes(rule)
    PROVE IsText(R2rmlText(rules))
<1> DEFINE some == SetToSeq(rules)
           maps == [i \in DOMAIN some |-> TriplesMapOf(some[i])]
<1>1. DOMAIN some = 1..Len(some) /\ Len(some) \in Nat /\ \A i \in DOMAIN some : IsSource(some[i].source) /\ HasTypes(some[i])
    BY RulesListed
<1>2. R2rmlText(rules) = <<R2rmlPrefix>> \o maps
    BY DEF R2rmlText
<1> HIDE DEF some
<1>3. ASSUME NEW i \in DOMAIN some PROVE IsLine(maps[i])
    <2> DEFINE object == ObjectMap(some[i].predicate, TermMapOf(some[i].object, FALSE), <<>>)
               graphs == IF some[i].graph = <<>> THEN <<>> ELSE <<some[i].graph>>
               subject == TermMapOf(some[i].subject, TRUE)
    <2>1. maps[i] = TriplesMap(some[i].source, subject, graphs, <<object>>, None)
        BY DEF TriplesMapOf
    <2>2. object.graphs = <<>> /\ IsObjectMap(object.map, None) /\ IsSubjectMap(subject)
        BY <1>1, TermMapsOfTerms DEF ObjectMap, HasTypes
    <2>6. graphs \in Seq(ToSet(graphs))
        <3>1. <<some[i].graph>> \in Seq({some[i].graph}) /\ <<>> \in Seq({some[i].graph})
            OBVIOUS
        <3>. QED
            BY <3>1, SequenceOfItself
    <2> HIDE DEF object, graphs, subject
    <2>3. <<object>> \in Seq(ToSet(<<object>>)) /\ ToSet(<<object>>) = {object} /\ <<>> \in Seq(ToSet(<<>>))
        BY DEF ToSet
    <2>4. IsSource(some[i].source) /\ IsFiniteSet({})
        BY <1>1, FS_EmptySet
    <2>5. LET m == TriplesMap(some[i].source, subject, graphs, <<object>>, None)
          IN  "t" \in DOMAIN m /\ m.t = "triples map" /\ m.source = some[i].source /\ m.classes = {} /\ m.objects = <<object>>
              /\ m.subject = subject /\ m.graphs = graphs /\ m.base = None
        BY DEF TriplesMap
    <2>7. IsTriplesMap(maps[i])
        BY <2>1, <2>2, <2>3, <2>5, <2>6 DEF IsTriplesMap
    <2>. QED
        BY <2>1, <2>2, <2>3, <2>4, <2>5, <2>7 DEF IsLine, Is
<1>4. IsText(maps)
    <2>1. DOMAIN maps = 1..Len(some) /\ maps = [i \in 1..Len(some) |-> maps[i]]
        BY <1>1
    <2>2. \A i \in DOMAIN maps : IsLine(maps[i])
        BY <1>3
    <2> HIDE DEF maps
    <2>3. maps \in Seq(ToSet(maps))
        BY <1>1, <2>1, AsSequence
    <2>. QED
        BY <2>2, <2>3 DEF IsText, ToSet
<1> HIDE DEF maps
<1>5. IsText(<<R2rmlPrefix>>)
    BY PlainLines, ShortTexts DEF R2rmlPrefix
<1>. QED
    BY <1>2, <1>4, <1>5, ConcatText

(* A catalog is a text of relations: with one more, and with another in the    *)
(* place of one.                                                               *)
LEMMA CatalogIsText ==
    ASSUME NEW relations, IsCatalog(relations)
    PROVE /\ IsText(relations)
          /\ \A relation : IsRelation(relation) =>
                /\ IsCatalog(Append(relations, relation))
                /\ \A i \in DOMAIN relations : IsCatalog([relations EXCEPT ![i] = relation])
<1>1. IsText(relations)
    <2>1. \A relation \in ToSet(relations) : "t" \in DOMAIN relation /\ relation.t = "relation"
        BY DEF IsCatalog, IsRelation, Is
    <2>2. \A relation \in ToSet(relations) : IsLine(relation)
        BY <2>1, PlainLines
    <2>. QED
        BY <2>2 DEF IsText, IsCatalog
<1>2. ASSUME NEW relation, IsRelation(relation)
      PROVE /\ IsCatalog(Append(relations, relation))
            /\ \A i \in DOMAIN relations : IsCatalog([relations EXCEPT ![i] = relation])
    <2> DEFINE S == ToSet(relations) \cup {relation}
    <2>1. relations \in Seq(S) /\ relation \in S /\ \A r \in S : IsRelation(r)
        BY <1>2 DEF IsCatalog
    <2> HIDE DEF S
    <2>2. Append(relations, relation) \in Seq(S) /\ \A i \in DOMAIN relations : [relations EXCEPT ![i] = relation] \in Seq(S)
        BY <2>1
    <2>3. ASSUME NEW s \in Seq(S) PROVE IsCatalog(s)
        BY <2>1, SequenceOfItself DEF IsCatalog
    <2>. QED
        BY <2>2, <2>3
<1>. QED
    BY <1>1, <1>2

(* What bootstrap writes for a catalog are texts.                              *)
LEMMA BootstrapMappingIsText ==
    ASSUME NEW relations, IsCatalog(relations)
    PROVE IsText(BootstrapMapping(relations))
<1> DEFINE texts == [i \in DOMAIN relations |-> IF relations[i].columns = <<>> THEN <<>> ELSE BootstrapRule(relations[i])]
<1>1. DOMAIN relations = 1..Len(relations) /\ Len(relations) \in Nat
      /\ \A i \in DOMAIN relations : relations[i].columns \in Seq(ToSet(relations[i].columns))
    BY DEF IsCatalog, IsRelation, ToSet
<1>2. ASSUME NEW relation, relation.columns \in Seq(ToSet(relation.columns)) PROVE IsText(BootstrapRule(relation))
    <2> DEFINE columns == relation.columns
               parts(some) == [i \in DOMAIN some |-> Slot(some[i])]
               first == [predicate |-> RdfType, object |-> Token("iri", <<Fixed(relation.name)>>)]
               others == [i \in DOMAIN columns |-> [predicate |-> columns[i], object |-> Token("bare", parts(<<columns[i]>>))]]
               subject == Token(IF relation.key = <<>> THEN "blank" ELSE "iri",
                                <<Fixed(relation.name)>> \o parts(BootstrapSubject(relation)))
               source == Source(FALSE, [i \in DOMAIN columns |-> Aliased(columns[i], columns[i])], << <<relation.name>> >>)
               target == Target(<<>>, subject, <<first>> \o others)
    <2>1. BootstrapRule(relation) = <<MappingId(relation.name), target, source>>
        BY DEF BootstrapRule
    <2>2. IsLine(MappingId(relation.name))
        BY PlainLines DEF MappingId
    <2>3. IsLine(source)
        <3>1. IsSource(source)
            BY DEF Source, IsSource, Is
        <3>. QED
            BY <3>1, SourceLines
    <2>4. IsLine(target)
        <3>1. Len(columns) \in Nat /\ DOMAIN others = 1..Len(columns) /\ others = [i \in 1..Len(columns) |-> others[i]]
            BY <1>2
        <3>2. /\ "object" \in DOMAIN first /\ HasOneSuffix(first.object)
              /\ \A i \in DOMAIN others : "object" \in DOMAIN others[i] /\ HasOneSuffix(others[i].object)
            BY DEF HasOneSuffix, Token
        <3> HIDE DEF first, others, columns, subject
        <3>3. others \in Seq(ToSet(others)) /\ \A other \in ToSet(others) : "object" \in DOMAIN other /\ HasOneSuffix(other.object)
            BY <3>1, <3>2, AsSequence DEF ToSet
        <3> DEFINE S == {first} \cup ToSet(others)
        <3>4. <<first>> \in Seq(S) /\ others \in Seq(S) /\ \A pair \in S : "object" \in DOMAIN pair /\ HasOneSuffix(pair.object)
            BY <3>2, <3>3
        <3> HIDE DEF S
        <3>5. <<first>> \o others \in Seq(S)
            BY <3>4
        <3>. QED
            BY <3>4, <3>5, TargetLines
    <2> HIDE DEF target, source
    <2> DEFINE S == {MappingId(relation.name), target, source}
    <2>5. <<MappingId(relation.name), target, source>> \in Seq(S) /\ \A line \in S : IsLine(line)
        BY <2>2, <2>3, <2>4
    <2> HIDE DEF S
    <2>. QED
        BY <2>1, <2>5, TextOfLines
<1>3. IsText(FlattenSeq(texts))
    <2>1. DOMAIN texts = 1..Len(relations) /\ texts = [i \in 1..Len(relations) |-> texts[i]]
        BY <1>1
    <2>2. \A i \in 1..Len(relations) : IsText(texts[i])
        BY <1>1, <1>2, ShortTexts
    <2> HIDE DEF texts
    <2>. QED
        BY <1>1, <2>1, <2>2, FlattenText
<1>4. IsText(<<MappingDeclaration>>) /\ IsText(<<Closing>>)
    BY PlainLines, ShortTexts DEF MappingDeclaration, Closing
<1>5. BootstrapMapping(relations) = <<MappingDeclaration>> \o FlattenSeq(texts) \o <<Closing>>
    BY DEF BootstrapMapping
<1> HIDE DEF texts
<1>. QED
    BY <1>3, <1>4, <1>5, ConcatText

(* So is the ontology bootstrap writes.                                        *)
LEMMA BootstrapOntologyIsText ==
    ASSUME NEW relations, IsCatalog(relations)
    PROVE IsText(BootstrapOntology(relations))
<1> DEFINE texts == [i \in DOMAIN relations |-> IF relations[i].columns = <<>> THEN <<>> ELSE Described(relations[i])]
<1>1. DOMAIN relations = 1..Len(relations) /\ Len(relations) \in Nat
      /\ \A i \in DOMAIN relations : relations[i].columns \in Seq(ToSet(relations[i].columns))
    BY DEF IsCatalog, IsRelation, ToSet
<1>2. ASSUME NEW relation, relation.columns \in Seq(ToSet(relation.columns)) PROVE IsText(Described(relation))
    <2> DEFINE columns == relation.columns
               lines == [i \in DOMAIN columns |-> OwlProperty(relation.name, columns[i])]
    <2>1. Len(columns) \in Nat /\ DOMAIN lines = 1..Len(columns) /\ lines = [i \in 1..Len(columns) |-> lines[i]]
        BY <1>2
    <2>2. \A i \in DOMAIN lines : IsLine(lines[i])
        BY PlainLines DEF OwlProperty
    <2>3. Described(relation) = <<OwlClass(relation.name)>> \o lines
        BY DEF Described
    <2> HIDE DEF lines, columns
    <2>4. IsText(lines)
        BY <2>1, <2>2, AsSequence DEF IsText, ToSet
    <2>5. IsText(<<OwlClass(relation.name)>>)
        BY PlainLines, ShortTexts DEF OwlClass
    <2>. QED
        BY <2>3, <2>4, <2>5, ConcatText
<1>3. DOMAIN texts = 1..Len(relations) /\ texts = [i \in 1..Len(relations) |-> texts[i]]
    BY <1>1
<1>4. \A i \in 1..Len(relations) : IsText(texts[i])
    BY <1>1, <1>2, ShortTexts
<1>5. BootstrapOntology(relations) = FlattenSeq(texts)
    BY DEF BootstrapOntology
<1> HIDE DEF texts
<1>. QED
    BY <1>1, <1>3, <1>4, <1>5, FlattenText
-----------------------------------------------------------------------------
(* v1-to-v3, line by line.                                                   *)

\* What is converted so far, and where its last target is.
ScanOK(state) ==
    /\ DOMAIN state = {"converted", "properties", "declaring", "target", "failed"}
    /\ IsText(state.converted) /\ IsText(state.properties)
    /\ state.target # 0 => state.target \in DOMAIN state.converted /\ Is(state.converted[state.target], "target")

(* A rule of version 3 is a target and a source, as one of version 1.          *)
LEMMA MigratedRule ==
    ASSUME NEW target, IsLine(target), Is(target, "target"), NEW source, IsLine(source), Is(source, "source"), NEW simplify
    PROVE LET rule == MigrateRule(target, source, simplify)
          IN  IsLine(rule[1]) /\ Is(rule[1], "target") /\ IsLine(rule[2])
<1> DEFINE columns == Qualified(target)
           alias(column) == IF IsQualified(column) THEN AliasFor(column, columns) ELSE column
           parts(old) == [i \in DOMAIN old |-> IF IsSlot(old[i]) THEN Slot(alias(old[i].column)) ELSE old[i]]
           pair(old) == [old EXCEPT !.object.parts = parts(@)]
           pairs == [i \in DOMAIN target.pairs |-> pair(target.pairs[i])]
           renamed == [target EXCEPT !.graph = parts(@), !.subject.parts = parts(@), !.pairs = pairs]
           projection == Projection([source EXCEPT !.items = NamedItems(@, columns)], simplify)
<1>1. MigrateRule(target, source, simplify) = <<renamed, projection>>
    BY DEF MigrateRule, MigrateWith, Renamed
<1>2. IsLine(renamed) /\ Is(renamed, "target")
    <2> HIDE DEF pair, parts, projection
    <2>1. "pairs" \in DOMAIN target /\ "t" \in DOMAIN target /\ target.pairs \in Seq(ToSet(target.pairs))
        BY DEF IsLine
    <2>2. Len(target.pairs) \in Nat /\ DOMAIN pairs = 1..Len(target.pairs) /\ pairs = [i \in 1..Len(target.pairs) |-> pairs[i]]
        BY <2>1
    <2> HIDE DEF pairs
    <2>3. pairs \in Seq(ToSet(pairs))
        BY <2>2, AsSequence
    <2>4. DOMAIN renamed = DOMAIN target /\ renamed.t = target.t /\ renamed.pairs = pairs
        BY <2>1
    <2> HIDE DEF renamed
    <2>5. \A other \in ToSet(pairs) : "object" \in DOMAIN other /\ HasOneSuffix(other.object)
        <3> SUFFICES ASSUME NEW i \in 1..Len(target.pairs)
                     PROVE "object" \in DOMAIN pairs[i] /\ HasOneSuffix(pairs[i].object)
            BY <2>2 DEF ToSet
        <3>1. PICK old : old = target.pairs[i]
            OBVIOUS
        <3>2. "object" \in DOMAIN old /\ HasOneSuffix(old.object)
            <4>1. old \in ToSet(target.pairs)
                BY <2>1, <3>1 DEF ToSet
            <4>. QED
                BY <4>1 DEF IsLine
        <3>3. PICK changed : changed = parts(old.object.parts)
            OBVIOUS
        <3>4. pairs[i] = [old EXCEPT !.object.parts = changed]
            BY <2>1, <3>1, <3>3 DEF pairs, pair
        <3>. QED
            BY <3>2, <3>4 DEF HasOneSuffix
    <2>. QED
        BY <2>1, <2>3, <2>4, <2>5 DEF IsLine, Is, IsSource
<1>3. IsLine(projection)
    <2> DEFINE named == [source EXCEPT !.items = NamedItems(@, columns)]
    <2>1. IsSource(named)
        BY DEF IsLine, Is, IsSource
    <2> HIDE DEF named
    <2>2. projection = named \/ projection = Source(FALSE, <<Star>>, named.tables)
        BY DEF Projection, Simplified, named
    <2>3. ASSUME NEW tables PROVE IsSource(Source(FALSE, <<Star>>, tables))
        BY DEF Source, IsSource, Is
    <2>4. IsSource(projection)
        BY <2>1, <2>2, <2>3
    <2> HIDE DEF projection
    <2>. QED
        BY <2>4, SourceLines
<1> HIDE DEF renamed, projection
<1>. QED
    BY <1>1, <1>2, <1>3

(* Every line is converted to a line.                                          *)
LEMMA MigrateLineKeeps ==
    ASSUME NEW state, ScanOK(state), NEW line, IsLine(line), NEW simplify
    PROVE ScanOK(MigrateLine(state, line, simplify))
<1> DEFINE fields == {"converted", "properties", "declaring", "target", "failed"}
<1>0. DOMAIN state = fields
    BY DEF ScanOK
<1>1. ScanOK([state EXCEPT !.declaring = TRUE]) /\ ScanOK([state EXCEPT !.declaring = FALSE]) /\ ScanOK([state EXCEPT !.failed = TRUE])
    BY DEF ScanOK
<1>2. ASSUME NEW key PROVE ScanOK([state EXCEPT !.properties = Append(@, Property(key))])
    <2> DEFINE properties == Append(state.properties, Property(key))
    <2>1. IsLine(Property(key))
        BY PlainLines DEF Property
    <2>2. IsText(properties)
        BY <2>1, AppendText DEF ScanOK
    <2> HIDE DEF properties
    <2>3. ScanOK([state EXCEPT !.properties = properties])
        BY <2>2 DEF ScanOK
    <2>. QED
        BY <2>3 DEF properties
<1>3. IsText(Append(state.converted, line)) /\ Len(state.converted) \in Nat
      /\ DOMAIN state.converted = 1..Len(state.converted)
      /\ DOMAIN Append(state.converted, line) = 1..Len(state.converted) + 1
      /\ Append(state.converted, line)[Len(state.converted) + 1] = line
      /\ \A i \in DOMAIN state.converted : Append(state.converted, line)[i] = state.converted[i]
    <2>1. IsText(Append(state.converted, line))
        BY AppendText DEF ScanOK
    <2>2. state.converted \in Seq(ToSet(state.converted))
        BY DEF ScanOK, IsText
    <2>. QED
        BY <2>1, <2>2
<1>4. ScanOK([state EXCEPT !.converted = Append(@, line)])
    BY <1>3 DEF ScanOK
<1>5. ASSUME Is(line, "target") PROVE ScanOK([state EXCEPT !.converted = Append(@, line), !.target = Len(state.converted) + 1])
    BY <1>3, <1>5 DEF ScanOK
<1>6. ASSUME Is(line, "source"), state.target # 0
      PROVE ScanOK(WithRule(state, MigrateRule(state.converted[state.target], line, simplify)))
    <2> DEFINE old == state.converted[state.target]
               rule == MigrateRule(old, line, simplify)
               text == [state.converted EXCEPT ![state.target] = rule[1]]
    <2>1. IsLine(old) /\ Is(old, "target") /\ state.target \in DOMAIN state.converted /\ IsText(state.converted)
        BY <1>6 DEF ScanOK, IsText, ToSet
    <2> HIDE DEF old
    <2>2. IsLine(rule[1]) /\ Is(rule[1], "target") /\ IsLine(rule[2])
        BY <1>6, <2>1, MigratedRule
    <2> HIDE DEF rule
    <2>3. IsText(text) /\ DOMAIN text = DOMAIN state.converted
        BY <2>1, <2>2, ExceptText
    <2>4. text[state.target] = rule[1]
        BY <2>1
    <2> HIDE DEF text
    <2>5. IsText(Append(text, rule[2]))
        BY <2>2, <2>3, AppendText
    <2>6. state.target \in DOMAIN Append(text, rule[2]) /\ Append(text, rule[2])[state.target] = rule[1]
        <3>1. text \in Seq(ToSet(text)) /\ state.target \in DOMAIN text
            BY <2>1, <2>3 DEF IsText
        <3>. QED
            BY <3>1, <2>4
    <2>7. WithRule(state, rule) = [state EXCEPT !.converted = Append(text, rule[2])]
        BY <1>0 DEF WithRule, text
    <2> DEFINE converted == Append(text, rule[2])
    <2> HIDE DEF converted
    <2>8. IsText(converted) /\ state.target \in DOMAIN converted /\ Is(converted[state.target], "target")
        BY <2>2, <2>5, <2>6 DEF converted
    <2>9. ScanOK([state EXCEPT !.converted = converted])
        BY <2>8 DEF ScanOK
    <2>. QED
        BY <2>7, <2>9 DEF converted, rule, old
<1>. QED
    BY <1>1, <1>2, <1>4, <1>5, <1>6 DEF MigrateLine

\* What Scanned computes: the states after each of the first n lines.
ScansTo(f, text, simplify, n) ==
    f = [i \in 0..n |-> IF i = 0 THEN NothingScanned ELSE MigrateLine(f[i - 1], text[i], simplify)]

(* Each state of it.                                                           *)
LEMMA ScansEntry ==
    ASSUME NEW f, NEW text, NEW simplify, NEW n, ScansTo(f, text, simplify, n), NEW i \in 0..n
    PROVE f[i] = IF i = 0 THEN NothingScanned ELSE MigrateLine(f[i - 1], text[i], simplify)
<1> DEFINE h == [j \in 0..n |-> IF j = 0 THEN NothingScanned ELSE MigrateLine(f[j - 1], text[j], simplify)]
<1>1. f = h
    BY DEF ScansTo
<1>2. h[i] = IF i = 0 THEN NothingScanned ELSE MigrateLine(f[i - 1], text[i], simplify)
    OBVIOUS
<1>. QED
    BY <1>1, <1>2

(* There is such a function for every number of lines.                         *)
LEMMA ScanExists ==
    ASSUME NEW text, NEW simplify
    PROVE \A n \in Nat : \E f : ScansTo(f, text, simplify, n)
<1> DEFINE T == {n \in Nat : \E f : ScansTo(f, text, simplify, n)}
<1>1. 0 \in T
  <2>1. ScansTo([i \in 0..0 |-> NothingScanned], text, simplify, 0)
    BY DEF ScansTo
  <2>. QED
    BY <2>1
<1>2. ASSUME NEW n \in Nat, n \in T PROVE n + 1 \in T
  <2>1. PICK f : ScansTo(f, text, simplify, n)
    BY <1>2
  <2> DEFINE g == [i \in 0..n + 1 |-> IF i <= n THEN f[i] ELSE MigrateLine(f[i - 1], text[i], simplify)]
  <2>2. ASSUME NEW i \in 0..n + 1 PROVE g[i] = IF i = 0 THEN NothingScanned ELSE MigrateLine(g[i - 1], text[i], simplify)
    <3>1. CASE i = n + 1
        BY <3>1
    <3>2. CASE i <= n
      <4>1. f[i] = IF i = 0 THEN NothingScanned ELSE MigrateLine(f[i - 1], text[i], simplify)
        BY <3>2, <2>1, ScansEntry
      <4>. QED
        BY <4>1, <3>2
    <3>. QED
        BY <3>1, <3>2
  <2>3. g = [i \in 0..n + 1 |-> IF i = 0 THEN NothingScanned ELSE MigrateLine(g[i - 1], text[i], simplify)]
    <3> HIDE DEF g
    <3>1. g = [i \in 0..n + 1 |-> g[i]]
        BY DEF g
    <3>. QED
        BY <3>1, <2>2
  <2> HIDE DEF g
  <2>4. ScansTo(g, text, simplify, n + 1)
    BY <2>3 DEF ScansTo
  <2>. QED
    BY <2>4
<1> HIDE DEF T
<1>3. \A n \in Nat : n \in T
    BY <1>1, <1>2, Induction
<1>. QED
    BY <1>3 DEF T

(* What v1-to-v3 makes of a text are texts.                                    *)
LEMMA MigratedIsText ==
    ASSUME NEW text, IsText(text), NEW simplify
    PROVE IsText(Migrated(text, simplify)[2]) /\ IsText(Migrated(text, simplify)[3])
<1>1. Len(text) \in Nat /\ \A i \in 1..Len(text) : IsLine(text[i])
    BY DEF IsText, ToSet
<1> DEFINE f == CHOOSE f : ScansTo(f, text, simplify, Len(text))
<1>2. Scanned(text, simplify) = f[Len(text)]
    BY DEF Scanned, ScansTo
<1>3. ScansTo(f, text, simplify, Len(text))
    <2>1. \E g : ScansTo(g, text, simplify, Len(text))
        BY <1>1, ScanExists
    <2>. QED
        BY <2>1, Zenon
<1> HIDE DEF f
<1>4. ASSUME NEW i \in 0..Len(text) PROVE f[i] = IF i = 0 THEN NothingScanned ELSE MigrateLine(f[i - 1], text[i], simplify)
    BY <1>3, ScansEntry
<1> DEFINE T == {n \in Nat : n \in 0..Len(text) => ScanOK(f[n])}
<1>5. 0 \in T
    <2>1. ScanOK(NothingScanned)
        BY ShortTexts DEF NothingScanned, ScanOK
    <2>. QED
        BY <2>1, <1>1, <1>4
<1>6. ASSUME NEW n \in Nat, n \in T PROVE n + 1 \in T
    <2> SUFFICES ASSUME n + 1 \in 0..Len(text)
                 PROVE ScanOK(f[n + 1])
        OBVIOUS
    <2>1. ScanOK(f[n]) /\ IsLine(text[n + 1])
        BY <1>1, <1>6
    <2>2. f[n + 1] = MigrateLine(f[n], text[n + 1], simplify)
        <3> HIDE DEF T
        <3>1. n + 1 # 0 /\ (n + 1) - 1 = n
            OBVIOUS
        <3>2. f[n + 1] = IF n + 1 = 0 THEN NothingScanned ELSE MigrateLine(f[(n + 1) - 1], text[n + 1], simplify)
            BY <1>4, Zenon
        <3>. QED
            BY <3>1, <3>2, Zenon
    <2>. QED
        BY <2>1, <2>2, MigrateLineKeeps
<1> HIDE DEF T
<1>7. Len(text) \in T
    BY <1>1, <1>5, <1>6, Induction
<1>8. ScanOK(Scanned(text, simplify))
    BY <1>1, <1>2, <1>7 DEF T
<1>. QED
    BY <1>8 DEF Migrated, Outcome, ScanOK
=============================================================================
