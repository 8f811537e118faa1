---------------------------- MODULE SdWireProofs ----------------------------
(***************************************************************************)
(* What is written is read back, for every width of the fields, every      *)
(* number of entries and options and every size of the buffer.             *)
(***************************************************************************)
EXTENDS SdWire, SequenceTheorems, WellFoundedInduction, TLAPS

\* An entry's options stand in all_options where its reference says.
Aligned ==
    \A i \in 1 .. Len(entries) :
        /\ refs[i] + Len(entries[i].options) <= Len(options)
        /\ \A j \in 1 .. Len(entries[i].options) :
              options[refs[i] + j].option = entries[i].options[j]

\* The options of the last entry are the last ones.
LastAligned ==
    IF Len(entries) = 0 THEN Len(options) = 0
    ELSE refs[Len(entries)] + Len(entries[Len(entries)].options) = Len(options)

\* The place an entry refers to and those after it are its own options.
Place(i) == (refs[i] + 1) .. (refs[i] + Len(entries[i].options))

OwnersOK == /\ \A k \in 1 .. Len(options) : options[k].owner \in 1 .. Len(entries)
            /\ \A i \in 1 .. Len(entries) : Own(i) = Place(i)

\* The options follow one another.
EndsGrow == \A j, k \in 1 .. Len(options) : j <= k => options[j].end <= options[k].end

WireInv == TypeOK /\ Aligned /\ LastAligned /\ OwnersOK /\ EndsGrow

\* What the three lists of the loop hold.
LEMMA ListTypes ==
  ASSUME TypeOK
  PROVE  /\ Len(entries) \in Nat /\ Len(refs) = Len(entries) /\ Len(options) \in Nat
         /\ \A i \in 1 .. Len(entries) :
               /\ refs[i] \in Nat /\ Len(entries[i].options) \in Nat
               /\ entries[i] \in [head : EntryHead, options : Seq(Option)]
         /\ \A k \in 1 .. Len(options) :
               options[k] \in [option : Option, end : Nat, owner : Nat] /\ options[k].end \in Nat
<1>1. /\ entries \in Seq([head : EntryHead, options : Seq(Option)])
      /\ options \in Seq([option : Option, end : Nat, owner : Nat])
      /\ refs \in Seq(Nat) /\ Len(refs) = Len(entries)
  BY DEF TypeOK
<1>2. /\ \A i \in 1 .. Len(entries) :
            entries[i] \in [head : EntryHead, options : Seq(Option)]
      /\ \A i \in 1 .. Len(refs) : refs[i] \in Nat
      /\ \A k \in 1 .. Len(options) : options[k] \in [option : Option, end : Nat, owner : Nat]
  BY <1>1, ElementOfSeq
<1>3. Len(entries) \in Nat /\ Len(options) \in Nat
  BY <1>1, LenProperties
<1>4. ASSUME NEW i \in 1 .. Len(entries) PROVE Len(entries[i].options) \in Nat
  <2>1. entries[i].options \in Seq(Option)
    BY <1>2
  <2> QED  BY <2>1, LenProperties
<1> QED  BY <1>1, <1>2, <1>3, <1>4

\* The offset where the packed options end is a number of bytes.
LEMMA OptionsEndType == ASSUME TypeOK PROVE OptionsEnd \in Nat
  BY ListTypes DEF OptionsEnd

\* Before the first iteration there is neither entry nor option.
LEMMA InitWire == ASSUME Init PROVE WireInv
  BY DEF Init, WireInv, TypeOK, Aligned, LastAligned, OwnersOK, EndsGrow

\* The next entry's options start where all_options ends.
LEMMA AddEntryWire ==
  ASSUME WireInv, NEW h \in EntryHead, AddEntry(h) PROVE WireInv'
<1> DEFINE e == [head |-> h, options |-> <<>>]
<1> USE DEF WireInv
<1>1. /\ entries' = Append(entries, e) /\ refs' = Append(refs, Len(options))
      /\ options' = options
  BY DEF AddEntry
<1>2. e \in [head : EntryHead, options : Seq(Option)]
  OBVIOUS
<1>3. TypeOK'
  BY <1>1, <1>2 DEF TypeOK
<1>4. /\ Len(entries') = Len(entries) + 1
      /\ \A i \in 1 .. Len(entries) : entries'[i] = entries[i] /\ refs'[i] = refs[i]
      /\ entries'[Len(entries) + 1] = e /\ refs'[Len(entries) + 1] = Len(options)
  BY <1>1, <1>2 DEF TypeOK
<1>5. Len(e.options) = 0
  OBVIOUS
<1> HIDE DEF e
<1>6. Aligned'
  <2>0. Len(entries) \in Nat /\ Len(options) \in Nat
    BY ListTypes
  <2> SUFFICES ASSUME NEW i \in 1 .. Len(entries) + 1
               PROVE  /\ refs'[i] + Len(entries'[i].options) <= Len(options)
                      /\ \A j \in 1 .. Len(entries'[i].options) :
                            options[refs'[i] + j].option = entries'[i].options[j]
    <3>1. Aligned' <=> \A i \in 1 .. Len(entries') :
                          /\ refs'[i] + Len(entries'[i].options) <= Len(options')
                          /\ \A j \in 1 .. Len(entries'[i].options) :
                                options'[refs'[i] + j].option = entries'[i].options[j]
      BY DEF Aligned
    <3>2. options' = options /\ Len(entries') = Len(entries) + 1
      BY <1>1, <1>4
    <3> QED  BY <3>1, <3>2
  <2>1. CASE i \in 1 .. Len(entries)
    BY <2>1, <1>4 DEF Aligned
  <2>2. CASE i = Len(entries) + 1
    BY <2>0, <2>2, <1>4, <1>5
  <2> QED  BY <2>0, <2>1, <2>2
<1>7. LastAligned'
  BY <1>1, <1>4, <1>5, <1>3 DEF LastAligned, TypeOK
<1>8. EndsGrow'
  BY <1>1 DEF EndsGrow
<1>9. OwnersOK'
  <2>0. Len(entries) \in Nat /\ Len(options) \in Nat
    BY ListTypes
  <2>1. \A k \in 1 .. Len(options) : options[k].owner \in 1 .. Len(entries)
    BY DEF OwnersOK
  <2>2. \A k \in 1 .. Len(options') : options'[k].owner \in 1 .. Len(entries')
    BY <2>0, <2>1, <1>1, <1>4
  <2>3. ASSUME NEW i \in 1 .. Len(entries) PROVE Own(i)' = Place(i)'
    <3>1. Own(i)' = Own(i) /\ Place(i)' = Place(i)
      BY <1>1, <1>4 DEF Own, Place
    <3> QED  BY <3>1 DEF OwnersOK
  <2>4. ASSUME NEW i, i = Len(entries) + 1 PROVE Own(i)' = Place(i)'
    <3>1. Own(i)' = {}
      BY <2>0, <2>1, <2>4, <1>1 DEF Own
    <3>2. Place(i)' = {}
      BY <2>0, <2>4, <1>4, <1>5 DEF Place
    <3> QED  BY <3>1, <3>2
  <2>5. \A i \in 1 .. Len(entries') : Own(i)' = Place(i)'
    BY <2>0, <2>3, <2>4, <1>4
  <2> QED  BY <2>2, <2>5 DEF OwnersOK
<1> QED  BY <1>3, <1>6, <1>7, <1>8, <1>9

\* An option goes to the end of all_options and of the last entry's.
LEMMA AddOptionWire ==
  ASSUME WireInv, NEW o \in Option, AddOption(o) PROVE WireInv'
<1> DEFINE n == Len(entries)
           p == [option |-> o, end |-> OptionsEnd + OptionSize[o],
                 owner |-> Len(entries)]
           f == [entries[n] EXCEPT !.options = Append(@, o)]
<1> USE DEF WireInv
<1>1. /\ entries' = [entries EXCEPT ![n] = f] /\ refs' = refs
      /\ options' = Append(options, p) /\ Len(entries) > 0
  BY DEF AddOption
<1>2. n \in Nat \ {0} /\ entries[n] \in [head : EntryHead, options : Seq(Option)]
  BY <1>1, ListTypes
<1>3. /\ p \in [option : Option, end : Nat, owner : Nat]
      /\ p.option = o /\ p.end >= OptionsEnd /\ p.owner = n
  BY WireAssumption, OptionsEndType, ListTypes
<1>4. /\ f \in [head : EntryHead, options : Seq(Option)]
      /\ Len(f.options) = Len(entries[n].options) + 1
      /\ \A j \in 1 .. Len(entries[n].options) : f.options[j] = entries[n].options[j]
      /\ f.options[Len(entries[n].options) + 1] = o
  <2>1. entries[n].head \in EntryHead /\ entries[n].options \in Seq(Option)
    BY <1>2
  <2>2. f = [head |-> entries[n].head, options |-> Append(entries[n].options, o)]
    <3> DEFINE g == entries[n]
    <3>1. g \in [head : EntryHead, options : Seq(Option)]
      BY <1>2
    <3> HIDE DEF g, n
    <3>2. [g EXCEPT !.options = Append(@, o)]
             = [head |-> g.head, options |-> Append(g.options, o)]
      BY <3>1
    <3> QED  BY <3>2 DEF f, g, n
  <2> HIDE DEF f
  <2> DEFINE q == entries[n].options
  <2>3. /\ Append(q, o) \in Seq(Option) /\ Len(Append(q, o)) = Len(q) + 1
        /\ \A j \in 1 .. Len(q) : Append(q, o)[j] = q[j]
        /\ Append(q, o)[Len(q) + 1] = o
    <3>1. q \in Seq(Option)
      BY <2>1
    <3> HIDE DEF q
    <3> QED  BY <3>1
  <2> QED  BY <2>1, <2>2, <2>3
<1> HIDE DEF p, f
<1>5. TypeOK'
  BY <1>1, <1>2, <1>3, <1>4 DEF TypeOK
<1>6. /\ Len(entries') = n /\ entries'[n] = f
      /\ \A i \in 1 .. n : i # n => entries'[i] = entries[i]
  BY <1>1, <1>2, <1>4 DEF TypeOK
<1>7. /\ Len(options') = Len(options) + 1 /\ options'[Len(options) + 1] = p
      /\ \A k \in 1 .. Len(options) : options'[k] = options[k]
  BY <1>1, <1>3 DEF TypeOK
<1>8. refs[n] + Len(entries[n].options) = Len(options)
  BY <1>1 DEF LastAligned
<1>9. Aligned'
  <2> SUFFICES ASSUME NEW i \in 1 .. n
               PROVE  /\ refs[i] + Len(entries'[i].options) <= Len(options')
                      /\ \A j \in 1 .. Len(entries'[i].options) :
                            options'[refs[i] + j].option = entries'[i].options[j]
    BY <1>1, <1>6 DEF Aligned
  <2>0. /\ refs[i] \in Nat /\ Len(entries[i].options) \in Nat
        /\ Len(options) \in Nat /\ Len(entries[n].options) \in Nat
    BY <1>2, ListTypes
  <2>1. CASE i # n
    <3>1. /\ refs[i] + Len(entries[i].options) <= Len(options)
          /\ \A j \in 1 .. Len(entries[i].options) :
                options[refs[i] + j].option = entries[i].options[j]
      BY DEF Aligned
    <3>2. \A j \in 1 .. Len(entries[i].options) : refs[i] + j \in 1 .. Len(options)
      BY <2>0, <3>1
    <3>3. entries'[i] = entries[i]
      BY <2>1, <1>6
    <3>4. ASSUME NEW j \in 1 .. Len(entries[i].options)
          PROVE  options'[refs[i] + j].option = entries[i].options[j]
      BY <3>1, <3>2, <1>7
    <3> QED  BY <2>0, <3>1, <3>3, <3>4, <1>7
  <2>2. CASE i = n
    <3>1. refs[i] + Len(f.options) = Len(options')
      BY <2>0, <2>2, <1>4, <1>7, <1>8
    <3>2. ASSUME NEW j \in 1 .. Len(f.options)
          PROVE  options'[refs[i] + j].option = f.options[j]
      <4>1. CASE j <= Len(entries[n].options)
        <5>1. /\ j \in 1 .. Len(entries[n].options)
              /\ refs[n] + j \in 1 .. Len(options)
          BY <2>0, <2>2, <4>1, <1>4, <1>8
        <5>2. options[refs[n] + j].option = entries[n].options[j]
          BY <5>1, <2>2 DEF Aligned
        <5>3. f.options[j] = entries[n].options[j]
          BY <5>1, <1>4
        <5> QED  BY <2>2, <5>1, <5>2, <5>3, <1>7
      <4>2. CASE j = Len(entries[n].options) + 1
        <5>1. refs[n] + j = Len(options) + 1
          BY <2>0, <2>2, <4>2, <1>8
        <5> QED  BY <2>2, <4>2, <5>1, <1>3, <1>4, <1>7
      <4> QED  BY <2>0, <2>2, <4>1, <4>2, <1>4
    <3>3. entries'[i] = f
      BY <2>2, <1>6
    <3>4. Len(f.options) \in Nat /\ Len(options') \in Nat
      BY <2>0, <1>4, <1>7
    <3> QED  BY <2>0, <3>1, <3>2, <3>3, <3>4
  <2> QED  BY <2>1, <2>2
<1>10. LastAligned'
  BY <1>1, <1>2, <1>4, <1>5, <1>6, <1>7, <1>8 DEF LastAligned, TypeOK
<1>11. EndsGrow'
  <2> SUFFICES ASSUME NEW j \in 1 .. Len(options'), NEW k \in 1 .. Len(options'), j <= k
               PROVE  options'[j].end <= options'[k].end
    BY DEF EndsGrow
  <2>0. Len(options) \in Nat /\ \A l \in 1 .. Len(options) : options[l].end \in Nat
    BY ListTypes
  <2>1. CASE k <= Len(options)
    BY <2>0, <2>1, <1>7 DEF EndsGrow
  <2>2. CASE k = Len(options) + 1 /\ j <= Len(options)
    <3>1. options[j].end <= options[Len(options)].end
      BY <2>0, <2>2 DEF EndsGrow
    <3>2. OptionsEnd = options[Len(options)].end
      BY <2>0, <2>2 DEF OptionsEnd
    <3> QED  BY <2>0, <2>2, <3>1, <3>2, <1>3, <1>7
  <2>3. CASE j = Len(options) + 1
    BY <2>0, <2>3, <1>3, <1>7
  <2> QED  BY <2>0, <2>1, <2>2, <2>3, <1>7
<1>12. OwnersOK'
  <2>0. Len(options) \in Nat /\ n \in 1 .. n
    BY <1>2, ListTypes
  <2>1. \A k \in 1 .. Len(options) : options[k].owner \in 1 .. n
    BY DEF OwnersOK
  <2>2. \A k \in 1 .. Len(options') : options'[k].owner \in 1 .. n
    BY <2>0, <2>1, <1>3, <1>7
  <2>3. ASSUME NEW i \in 1 .. n, i # n PROVE Own(i)' = Place(i)'
    <3>1. Own(i)' = Own(i)
      BY <2>0, <2>3, <1>3, <1>7 DEF Own
    <3>2. Place(i)' = Place(i)
      BY <2>3, <1>1, <1>6 DEF Place
    <3> QED  BY <3>1, <3>2 DEF OwnersOK
  <2>4. ASSUME NEW i \in 1 .. n, i = n PROVE Own(i)' = Place(i)'
    <3>0. refs[i] \in Nat /\ Len(entries[i].options) \in Nat
      BY ListTypes
    <3>1. Own(i)' = Own(i) \cup {Len(options) + 1}
      <4>1. \A k \in 1 .. Len(options) : options'[k].owner = options[k].owner
        BY <1>7
      <4>2. options'[Len(options) + 1].owner = i
        BY <2>4, <1>3, <1>7
      <4>3. Len(options') = Len(options) + 1
        BY <1>7
      <4> QED  BY <2>0, <4>1, <4>2, <4>3 DEF Own
    <3>2. Own(i) = (refs[i] + 1) .. (refs[i] + Len(entries[i].options))
      BY DEF OwnersOK, Place
    <3>3. Place(i)' = (refs[i] + 1) .. (refs[i] + Len(entries[i].options) + 1)
      <4>1. refs'[i] = refs[i] /\ Len(entries'[i].options) = Len(entries[i].options) + 1
        BY <2>4, <1>1, <1>4, <1>6
      <4>2. Place(i)' = (refs'[i] + 1) .. (refs'[i] + Len(entries'[i].options))
        BY DEF Place
      <4>3. refs[i] + (Len(entries[i].options) + 1) = refs[i] + Len(entries[i].options) + 1
        BY <3>0
      <4> QED  BY <4>1, <4>2, <4>3
    <3>4. refs[i] + Len(entries[i].options) = Len(options)
      BY <2>4, <1>8
    <3> QED  BY <3>0, <3>1, <3>2, <3>3, <3>4
  <2>5. \A i \in 1 .. n : Own(i)' = Place(i)'
    BY <2>3, <2>4
  <2> QED  BY <2>2, <2>5, <1>6 DEF OwnersOK
<1> QED  BY <1>5, <1>9, <1>10, <1>11, <1>12

\* The options start at some byte, wherever it is.
LEMMA OptionsStartType == ASSUME TypeOK PROVE OptionsStart \in Nat
<1>1. /\ HeaderSize \in Nat /\ EntrySize \in Nat /\ LengthSize \in Nat
      /\ Len(entries) \in Nat
  BY ListTypes, WireAssumption
<1>2. EntrySize * Len(entries) \in Nat
  BY <1>1
<1> QED  BY <1>1, <1>2 DEF OptionsStart

\* An index and a number that fit their fields come back.
LEMMA FitsField == ASSUME NEW m \in Nat, NEW x \in Nat, x < m PROVE x % m = x
  OBVIOUS

\* What is left of a number is not more than the number.
LEMMA FieldBound == ASSUME NEW m \in Nat \ {0}, NEW x \in Nat
                    PROVE  x % m \in Nat /\ x % m <= x
<1>1. CASE x < m
  BY <1>1, FitsField
<1>2. CASE x >= m
  BY <1>2
<1> QED  BY <1>1, <1>2

\* As long as the index fits, the run of an entry begins with its own options.
LEMMA RunIsOwn ==
  ASSUME TypeOK, OwnersOK, NEW i \in 1 .. Len(entries), refs[i] < IndexMod
  PROVE  /\ Run(i) = (refs[i] + 1) .. (refs[i] + (Len(entries[i].options) % NibbleMod))
         /\ Run(i) \subseteq Own(i)
<1>1. refs[i] \in Nat /\ Len(entries[i].options) \in Nat
  BY ListTypes
<1>2. refs[i] % IndexMod = refs[i]
  BY <1>1, FitsField, WireAssumption
<1>3. /\ Len(entries[i].options) % NibbleMod \in Nat
      /\ Len(entries[i].options) % NibbleMod <= Len(entries[i].options)
  BY <1>1, FieldBound, WireAssumption
<1>4. Own(i) = Place(i)
  BY DEF OwnersOK
<1> QED  BY <1>1, <1>2, <1>3, <1>4 DEF Run, Place

\* A set of numbers that is not empty has a least one.
LEMMA Least == ASSUME NEW S, S \subseteq Nat, S # {}
               PROVE  \E k \in S : \A j \in S : k <= j
<1>1. PICK k \in S : \A j \in S : ~ (<<j, k>> \in OpToRel(<, Nat))
  BY NatLessThanWellFounded, WFMin
<1> SUFFICES ASSUME NEW j \in S PROVE k <= j
  OBVIOUS
<1>2. j \in Nat /\ k \in Nat
  OBVIOUS
<1>3. ~ (j < k)
  <2> SUFFICES ASSUME j < k PROVE <<j, k>> \in OpToRel(<, Nat)
    BY <1>1
  <2>1. <<j, k>> \in Nat \X Nat
    BY <1>2
  <2> QED  BY <2>1 DEF OpToRel
<1> QED  BY <1>2, <1>3

\* What build_sd_message has written, parse_sd_message gives back.
LEMMA InvRoundTrip == ASSUME WireInv PROVE RoundTrip
<1> USE DEF WireInv
<1> SUFFICES ASSUME NEW i \in 1 .. Len(entries), NEW b \in Buffers, refs[i] < IndexMod,
                    Len(entries[i].options) < NibbleMod, Size <= b
             PROVE  /\ entries[i].head.type \in ServiceTypes \cup GroupTypes
                           => i \in Parsed(b)
                    /\ \A j \in 1 .. Len(entries[i].options) :
                          /\ refs[i] + j \in Own(i)
                          /\ options[refs[i] + j].option = entries[i].options[j]
                    /\ ParsedOptions(i, b) = {k \in Own(i) : options[k].option \in Known}
  BY DEF RoundTrip
<1>1. /\ refs[i] \in Nat /\ Len(entries[i].options) \in Nat /\ Len(options) \in Nat
      /\ Len(entries) \in Nat /\ \A k \in 1 .. Len(options) : options[k].end \in Nat
  BY ListTypes
<1>2. OptionsEnd \in Nat
  BY OptionsEndType
<1>3. OptionsStart \in Nat
  BY OptionsStartType
<1>4. Received(b) = OptionsStart + OptionsEnd
  BY DEF Received, Size
<1>5. i \in Parsed(b) <=> entries[i].head.type \in ServiceTypes \cup GroupTypes
  BY <1>2, <1>3, <1>4 DEF Parsed, Accepted
<1>6. Run(i) = Own(i)
  <2>1. Len(entries[i].options) % NibbleMod = Len(entries[i].options)
    BY <1>1, FitsField, WireAssumption
  <2> QED  BY <2>1, RunIsOwn DEF OwnersOK, Place
<1>7. /\ Own(i) \subseteq 1 .. Len(options)
      /\ \A j \in 1 .. Len(entries[i].options) : refs[i] + j \in Own(i)
  <2>1. Own(i) = (refs[i] + 1) .. (refs[i] + Len(entries[i].options))
    BY DEF OwnersOK, Place
  <2>2. Own(i) \subseteq 1 .. Len(options)
    BY DEF Own
  <2> QED  BY <1>1, <2>1, <2>2
<1>8. ASSUME NEW k \in 1 .. Len(options)
      PROVE  options[k].end <= OptionsEnd
  BY <1>1 DEF EndsGrow, OptionsEnd
<1>9. Understood(b) = {k \in 1 .. Len(options) : options[k].option \in Known}
  BY <1>1, <1>2, <1>3, <1>4, <1>8 DEF Understood
<1> QED  BY <1>5, <1>6, <1>7, <1>9 DEF ParsedOptions, Aligned

\* Whatever the buffer cuts off, no entry gets another one's options.
LEMMA InvOwnOptions == ASSUME WireInv PROVE OwnOptions
  BY RunIsOwn DEF WireInv, OwnOptions, ParsedOptions

\* The first option of a kind that is found is the first one there was.
LEMMA InvEndpointIsOwn == ASSUME WireInv PROVE EndpointIsOwn
<1> USE DEF WireInv
<1> SUFFICES ASSUME NEW i \in 1 .. Len(entries), NEW b \in Buffers, NEW o \in Known,
                    refs[i] < IndexMod, FirstOf(i, b, o) # 0
             PROVE  /\ FirstOf(i, b, o) \in Own(i)
                    /\ \A k \in Own(i) : options[k].option = o => FirstOf(i, b, o) <= k
  BY DEF EndpointIsOwn
<1> DEFINE found == {k \in ParsedOptions(i, b) : options[k].option = o}
           first == FirstOf(i, b, o)
<1>1. /\ refs[i] \in Nat /\ Len(entries[i].options) \in Nat /\ Len(options) \in Nat
      /\ \A k \in 1 .. Len(options) : options[k].end \in Nat
  BY ListTypes
<1>2. found \subseteq Own(i) /\ found \subseteq Nat
  BY <1>1, RunIsOwn DEF ParsedOptions, Own
<1>3. first \in found /\ \A j \in found : first <= j
  <2>1. found # {}
    BY DEF FirstOf
  <2>2. \E k \in found : \A j \in found : k <= j
    BY <2>1, <1>2, Least
  <2> QED  BY <2>1, <2>2 DEF FirstOf
<1>4. ASSUME NEW k \in Own(i), options[k].option = o, k < first
      PROVE  FALSE
  <2>1. k \in Run(i)
    <3>1. Len(entries[i].options) % NibbleMod \in Nat
      BY <1>1, FieldBound, WireAssumption
    <3>2. first \in Run(i)
      BY <1>3 DEF ParsedOptions
    <3>3. Run(i) = (refs[i] + 1) .. (refs[i] + (Len(entries[i].options) % NibbleMod))
      BY RunIsOwn
    <3>4. Own(i) = (refs[i] + 1) .. (refs[i] + Len(entries[i].options))
      BY DEF OwnersOK, Place
    <3>5. /\ k \in Int /\ refs[i] + 1 <= k
          /\ first \in Int /\ first <= refs[i] + (Len(entries[i].options) % NibbleMod)
      <4> HIDE DEF first
      <4>1. refs[i] + 1 \in Int /\ refs[i] + Len(entries[i].options) \in Int
        BY <1>1
      <4>2. refs[i] + (Len(entries[i].options) % NibbleMod) \in Int
        BY <1>1, <3>1
      <4> QED  BY <1>4, <3>2, <3>3, <3>4, <4>1, <4>2
    <3> HIDE DEF first
    <3> QED  BY <1>1, <1>4, <3>1, <3>3, <3>5
  <2>2. first \in Understood(b) /\ k \in 1 .. Len(options) /\ first \in 1 .. Len(options)
    BY <1>1, <1>3, <1>4 DEF ParsedOptions, Understood, Own
  <2>3. options[k].end <= options[first].end
    BY <2>2, <1>4, <1>1 DEF EndsGrow
  <2>4. OptionsStart \in Nat /\ OptionsEnd \in Nat /\ Received(b) \in Nat
    BY WireAssumption, OptionsStartType, OptionsEndType DEF Received, Size
  <2>5. k \in Understood(b)
    BY <2>2, <2>3, <2>4, <1>1, <1>4 DEF Understood
  <2>6. k \in found
    BY <2>1, <2>5, <1>4 DEF ParsedOptions
  <2> QED  BY <2>6, <1>2, <1>3, <1>4
<1> QED  BY <1>1, <1>2, <1>3, <1>4 DEF Own

\* Dividing by the width of a field separates what is below from what is above.
LEMMA Division ==
  ASSUME NEW m \in Nat \ {0}, NEW a \in 0 .. m - 1, NEW q \in Nat
  PROVE  (a + q * m) \div m = q /\ (a + q * m) % m = a /\ a + q * m \in Nat
<1>1. q * m \in Nat /\ m * q = q * m
  OBVIOUS
<1> DEFINE x == a + q * m
<1>2. x \in Nat /\ x = m * q + a
  BY <1>1
<1> HIDE DEF x
<1>3. x \div m \in Int /\ x % m \in 0 .. m - 1 /\ x = m * (x \div m) + (x % m)
  BY <1>2
<1>4. x \div m = q
  <2> DEFINE d == x \div m
             r == x % m
  <2>1. d \in Int /\ r \in 0 .. m - 1 /\ m * d + r = m * q + a
    BY <1>2, <1>3
  <2> HIDE DEF d, r
  <2>2. CASE d > q
    <3>1. m * (d - q) >= m /\ m * (d - q) = m * d - m * q /\ m * d \in Int /\ m * q \in Int
      BY <2>1, <2>2
    <3> QED  BY <2>1, <3>1
  <2>3. CASE d < q
    <3>1. m * (q - d) >= m /\ m * (q - d) = m * q - m * d /\ m * d \in Int /\ m * q \in Int
      BY <2>1, <2>3
    <3> QED  BY <2>1, <3>1
  <2> QED  BY <2>1, <2>2, <2>3 DEF d
<1> QED  BY <1>1, <1>2, <1>3, <1>4 DEF x

\* A masked number fits its field, and one that did before is not changed.
LEMMA MaskedField ==
  ASSUME NEW m \in Nat \ {0}, NEW x \in Int
  PROVE  x % m \in 0 .. m - 1 /\ (x \in 0 .. m - 1 => x % m = x)
<1>1. x % m \in 0 .. m - 1
  OBVIOUS
<1>2. x \in 0 .. m - 1 => x % m = x
  OBVIOUS
<1> QED  BY <1>1, <1>2

\* The fields of an entry do not run into each other.
LEMMA InvFieldsSurvive == ASSUME TypeOK PROVE FieldsSurvive
<1> SUFFICES ASSUME NEW i \in 1 .. Len(entries),
                    entries[i].head.type \in ServiceTypes \cup GroupTypes
             PROVE  LET h == entries[i].head
                        p == ParsedHead(h)
                    IN  /\ p.ttl = 0 <=> h.ttl <= 0
                        /\ h.type \in ServiceTypes /\ h.minor \in 0 .. WordMod - 1
                               => p.minor = h.minor
                        /\ h.type \in GroupTypes =>
                              /\ p.initial = h.initial
                              /\ h.egid \in 0 .. IdMod - 1 => p.egid = h.egid
                              /\ h.counter \in 0 .. NibbleMod - 1 => p.counter = h.counter
  BY DEF FieldsSurvive
<1> DEFINE h == entries[i].head
           p == ParsedHead(h)
<1>1. h \in EntryHead
  BY ListTypes
<1> HIDE DEF h
<1>2. h.ttl \in Int /\ h.type \in ServiceTypes \cup GroupTypes
  BY <1>1, WireAssumption DEF h
<1>3. TtlField(h) = 0 <=> h.ttl <= 0
  BY <1>2, WireAssumption DEF TtlField
<1>4. CASE h.type \in ServiceTypes
  <2>1. h.type \notin GroupTypes /\ h.minor \in Int
    BY <1>1, <1>4, WireAssumption
  <2>2. p = [type |-> h.type, minor |-> h.minor % WordMod, ttl |-> TtlField(h)]
    BY <1>4 DEF ParsedHead, Last32
  <2>3. h.minor \in 0 .. WordMod - 1 => h.minor % WordMod = h.minor
    BY <2>1, MaskedField, WireAssumption
  <2> HIDE DEF p
  <2> QED  BY <1>3, <2>1, <2>2, <2>3 DEF h, p
<1>5. CASE h.type \in GroupTypes
  <2>1. /\ h.type \notin ServiceTypes
        /\ h.egid \in Int /\ h.counter \in Int /\ h.initial \in BOOLEAN
    BY <1>1, <1>5, WireAssumption
  <2>2. NibbleMod \in Nat \ {0} /\ IdMod \in Nat \ {0}
    BY WireAssumption
  <2> DEFINE e == h.egid % IdMod
             c == h.counter % NibbleMod
             b == IF h.initial THEN 1 ELSE 0
             w == e + (c + b * NibbleMod) * IdMod
  <2>3. /\ e \in 0 .. IdMod - 1 /\ c \in 0 .. NibbleMod - 1 /\ b \in 0 .. 1
        /\ h.egid \in 0 .. IdMod - 1 => e = h.egid
        /\ h.counter \in 0 .. NibbleMod - 1 => c = h.counter
    <3>1. e \in 0 .. IdMod - 1 /\ (h.egid \in 0 .. IdMod - 1 => e = h.egid)
      BY <2>1, <2>2, MaskedField
    <3>2. c \in 0 .. NibbleMod - 1 /\ (h.counter \in 0 .. NibbleMod - 1 => c = h.counter)
      BY <2>1, <2>2, MaskedField
    <3>3. b \in 0 .. 1
      OBVIOUS
    <3> HIDE DEF e, c, b
    <3> QED  BY <3>1, <3>2, <3>3
  <2>4. Last32(h) = w
    <3>1. Last32(h) = e + c * IdMod + (IF h.initial THEN NibbleMod * IdMod ELSE 0)
      BY <2>1 DEF Last32
    <3> HIDE DEF e, c
    <3>2. CASE h.initial
      BY <2>2, <2>3, <3>1, <3>2
    <3>3. CASE ~h.initial
      BY <2>2, <2>3, <3>1, <3>3
    <3> QED  BY <3>2, <3>3
  <2>5. p = [type |-> h.type, egid |-> w % IdMod, counter |-> (w \div IdMod) % NibbleMod,
             initial |-> (w \div (IdMod * NibbleMod)) % 2 = 1, ttl |-> TtlField(h)]
    <3> HIDE DEF w
    <3> QED  BY <2>1, <2>4 DEF ParsedHead
  <2> HIDE DEF e, c, b, p
  <2>6. c + b * NibbleMod \in Nat /\ (c + b * NibbleMod) % NibbleMod = c
    <3>1. b \in Nat
      BY <2>3
    <3> QED  BY <2>2, <2>3, <3>1, Division
  <2>7. w % IdMod = e /\ w \div IdMod = c + b * NibbleMod
    BY <2>2, <2>3, <2>6, Division
  <2>8. w \div (IdMod * NibbleMod) = b
    <3> DEFINE m == IdMod * NibbleMod
               a == e + c * IdMod
    <3>1. m \in Nat \ {0} /\ a \in 0 .. m - 1 /\ w = a + b * m
      <4>1. c * IdMod <= (NibbleMod - 1) * IdMod /\ c * IdMod \in Nat
        BY <2>2, <2>3
      <4>2. (NibbleMod - 1) * IdMod = m - IdMod /\ m \in Nat \ {0}
        BY <2>2
      <4>3. w = a + b * m
        BY <2>2, <2>3
      <4> HIDE DEF m
      <4> QED  BY <2>2, <2>3, <4>1, <4>2, <4>3
    <3> HIDE DEF m, a, w
    <3>2. (a + b * m) \div m = b
      BY <2>3, <3>1, Division
    <3> QED  BY <3>1, <3>2 DEF m
  <2>9. (b % 2 = 1) = h.initial
    BY <2>1 DEF b
  <2> HIDE DEF w
  <2>10. /\ p.egid = e /\ p.counter = c /\ p.initial = h.initial /\ p.ttl = TtlField(h)
    BY <2>5, <2>6, <2>7, <2>8, <2>9
  <2> QED  BY <1>3, <2>1, <2>3, <2>10 DEF h, p
<1> QED  BY <1>2, <1>4, <1>5

\* The reference of every entry is right, whatever is added.
LEMMA WireInvariant == Spec => []WireInv
<1>1. WireInv /\ [Next]_vars => WireInv'
  <2> SUFFICES ASSUME WireInv, [Next]_vars PROVE WireInv'
    OBVIOUS
  <2>1. CASE \E h \in EntryHead : AddEntry(h)
    BY <2>1, AddEntryWire
  <2>2. CASE \E o \in Option : AddOption(o)
    BY <2>2, AddOptionWire
  <2>3. CASE UNCHANGED vars
    BY <2>3 DEF vars, WireInv, TypeOK, Aligned, LastAligned, OwnersOK, Own, Place,
                EndsGrow, OptionsEnd
  <2> QED  BY <2>1, <2>2, <2>3 DEF Next
<1> QED  BY <1>1, InitWire, PTL DEF Spec

\* parse_sd_message inverts build_sd_message within the widths of its fields,
\* and beyond the buffer or four bits of options it only ever loses options.
LEMMA WireSafe == Spec => [](RoundTrip /\ OwnOptions /\ EndpointIsOwn)
<1>1. WireInv => RoundTrip /\ OwnOptions /\ EndpointIsOwn
  BY InvRoundTrip, InvOwnOptions, InvEndpointIsOwn
<1> QED  BY <1>1, WireInvariant, PTL

\* What is built is parsed back, entry by entry and option by option.
THEOREM WireRoundTrip == Spec => []RoundTrip
<1> QED  BY WireSafe, PTL

\* No entry is given an option of another one, whatever gets lost.
THEOREM WireOwnOptions == Spec => []OwnOptions
<1> QED  BY WireSafe, PTL

\* The first endpoint a receiver finds in an entry is the first its sender put in.
THEOREM WireEndpoint == Spec => []EndpointIsOwn
<1> QED  BY WireSafe, PTL

\* A TTL stays a stop or no stop, and every field that fits its width comes back,
\* whatever the fields next to it hold.
THEOREM WireFields == Spec => []FieldsSurvive
<1>1. WireInv => FieldsSurvive
  BY InvFieldsSurvive DEF WireInv
<1> QED  BY <1>1, WireInvariant, PTL
=============================================================================
