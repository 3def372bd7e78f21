--------------------------- MODULE DesktopProofs ---------------------------
(***************************************************************************)
(* Proofs about ConfigEditors and Desktop, for any set of clients, of      *)
(* platforms, settings and keys, any number of agents and any scenario.    *)
(***************************************************************************)
EXTENDS Desktop, SequenceTheorems, TLAPS

---------------------------------------------------------------------------
(* Lists of keys.                                                          *)

LEMMA AppendKey ==
  ASSUME NEW S, NEW s \in Seq(S), NEW x \in S
  PROVE  /\ Append(s, x) \in Seq(S)
         /\ Len(Append(s, x)) = Len(s) + 1
         /\ Append(s, x)[Len(s) + 1] = x
         /\ \A i \in 1..Len(s) : Append(s, x)[i] = s[i]
BY AppendProperties

\* What is left of a list when one place is taken out.
LEMMA RemoveKey ==
  ASSUME NEW S, NEW s \in Seq(S), NEW i \in 1..Len(s)
  PROVE  /\ RemoveAt(s, i) \in Seq(S)
         /\ Len(RemoveAt(s, i)) = Len(s) - 1
         /\ \A j \in 1..(i - 1) : RemoveAt(s, i)[j] = s[j]
<1> DEFINE front == SubSeq(s, 1, i - 1)
           back == SubSeq(s, i + 1, Len(s))
<1>1. Len(s) \in Nat /\ \A j \in 1..Len(s) : s[j] \in S
  BY LenProperties, ElementOfSeq
<1>2. /\ front \in Seq(S) /\ Len(front) = i - 1
      /\ \A j \in 1..(i - 1) : front[j] = s[j]
  <2>1. \A j \in 1..(i - 1) : s[j] \in S
    BY <1>1
  <2>2. /\ front \in Seq(S)
        /\ Len(front) = IF 1 <= i - 1 THEN (i - 1) - 1 + 1 ELSE 0
        /\ \A j \in 1..((i - 1) - 1 + 1) : front[j] = s[1 + j - 1]
    BY <1>1, <2>1, SubSeqProperties
  <2> QED
    BY <1>1, <2>2
<1>3. back \in Seq(S) /\ Len(back) = Len(s) - i
  <2>1. \A j \in (i + 1)..Len(s) : s[j] \in S
    BY <1>1
  <2>2. /\ back \in Seq(S)
        /\ Len(back) = IF i + 1 <= Len(s) THEN Len(s) - (i + 1) + 1 ELSE 0
    BY <1>1, <2>1, SubSeqProperties
  <2> QED
    BY <1>1, <2>2
<1>4. RemoveAt(s, i) = front \o back
  BY DEF RemoveAt
<1> HIDE DEF front, back
<1>5. /\ front \o back \in Seq(S)
      /\ Len(front \o back) = Len(front) + Len(back)
      /\ \A j \in 1..(Len(front) + Len(back)) :
           (front \o back)[j] = IF j <= Len(front) THEN front[j]
                                ELSE back[j - Len(front)]
  BY <1>2, <1>3, ConcatProperties
<1> QED
  BY <1>1, <1>2, <1>3, <1>4, <1>5

---------------------------------------------------------------------------
(* Types of the file and the forms.                                        *)

Keys == Secrets \cup {Marker}

Docs == [keys : Seq(Keys), kinds : SUBSET Kinds, setting : Settings,
         state : {"valid", "invalid", "broken"}]

Forms == [at : {"closed", "open", "changed", "prepared", "truncated"},
          doc : Docs, meant : Docs, base : Nat, moved : BOOLEAN]

EditorTypes ==
  /\ file \in [doc : Docs, stamp : Nat \ {0}]
  /\ forms \in [Editors -> Forms]

---------------------------------------------------------------------------
(* What an editor holds is a change of the document its user was shown, as *)
(* long as the file is the one that was shown.                             *)

\* What config.write makes of a document, over the file as it is.
Restored(doc, old) == [doc EXCEPT !.keys = Preserved(@, old.keys)]

\* What the egui interface makes of one.
Overlaid(doc, old) ==
  [old EXCEPT !.keys = doc.keys, !.setting = doc.setting]

Faithful(e) ==
  LET f == forms[e] IN
  /\ f.base <= file.stamp
  /\ f.at = "open" => /\ e \in Clients \cup {GUI} /\ ~f.moved
                      /\ f.doc = Shown(e, f.meant)
                      /\ f.base = file.stamp => f.meant = file.doc
  /\ f.at = "changed" /\ f.base = file.stamp /\ ~f.moved =>
       /\ e \in Clients => Restored(f.doc, file.doc) = f.meant
       /\ e = GUI => Overlaid(f.doc, file.doc) = f.meant
  /\ f.at \in {"prepared", "truncated"} /\ f.base = file.stamp /\ ~f.moved =>
       f.doc = f.meant

EditorInv == EditorTypes /\ \A e \in Editors : Faithful(e)

LEMMA EmptyIsDoc == Empty \in Docs /\ Closed \in Forms
<1>1. (CHOOSE v \in Settings : TRUE) \in Settings
  BY EditorAssumption
<1>2. <<>> \in Seq(Keys)
  BY EmptySeq
<1> QED
  BY <1>1, <1>2 DEF Empty, Closed, Docs, Forms

\* A list of keys put back over itself.
LEMMA PreservedSelf ==
  ASSUME NEW old \in Seq(Keys)
  PROVE  /\ [i \in DOMAIN old |-> Marker] \in Seq(Keys)
         /\ Len([i \in DOMAIN old |-> Marker]) = Len(old)
<1>1. DOMAIN old = 1..Len(old) /\ Len(old) \in Nat
  BY LenProperties
<1>2. [i \in 1..Len(old) |-> Marker] \in Seq(Keys)
  BY <1>1, IsASeq DEF Keys
<1> QED
  BY <1>1, <1>2, LenProperties

LEMMA PreservedType ==
  ASSUME NEW new \in Seq(Keys), NEW old \in Seq(Keys)
  PROVE  /\ Preserved(new, old) \in Seq(Keys)
         /\ Len(Preserved(new, old)) = Len(new)
         /\ \A i \in 1..Len(new) :
              Preserved(new, old)[i] =
                IF i <= Len(old) /\ new[i] = Marker THEN old[i] ELSE new[i]
<1>1. /\ DOMAIN new = 1..Len(new) /\ DOMAIN old = 1..Len(old)
      /\ Len(new) \in Nat /\ Len(old) \in Nat
      /\ \A i \in 1..Len(new) : new[i] \in Keys
      /\ \A i \in 1..Len(old) : old[i] \in Keys
  BY LenProperties, ElementOfSeq
<1> DEFINE kept(i) == IF i \in DOMAIN old /\ new[i] = Marker THEN old[i]
                      ELSE new[i]
<1>2. \A i \in 1..Len(new) : kept(i) \in Keys
  BY <1>1
<1>3. Preserved(new, old) = [i \in 1..Len(new) |-> kept(i)]
  BY <1>1 DEF Preserved
<1> HIDE DEF kept
<1>4. [i \in 1..Len(new) |-> kept(i)] \in Seq(Keys)
  BY <1>1, <1>2, IsASeq
<1>5. Len(Preserved(new, old)) = Len(new)
  BY <1>1, <1>3, <1>4, LenProperties
<1> QED
  BY <1>1, <1>3, <1>4, <1>5 DEF kept

---------------------------------------------------------------------------
(* The steps of an editor.                                                 *)

Writes == \E doc \in Docs : file' = Stored(doc)

\* It is enough to look at the forms that change: a save of one editor only
\* makes what the others show older than the file.
LEMMA SomeForms ==
  ASSUME EditorInv, forms' \in [Editors -> Forms], UNCHANGED file \/ Writes,
         \A e \in Editors : forms'[e] = forms[e] \/ Faithful(e)'
  PROVE  EditorInv'
<1>1. /\ file' \in [doc : Docs, stamp : Nat \ {0}]
      /\ file' = file \/ file'.stamp = file.stamp + 1
      /\ file.stamp \in Nat
  BY DEF Writes, Stored, EditorInv, EditorTypes
<1>2. ASSUME NEW e \in Editors, forms'[e] = forms[e] PROVE Faithful(e)'
  <2>1. Faithful(e) /\ forms[e].base \in Nat
    BY DEF EditorInv, EditorTypes, Forms
  <2>2. CASE file' = file
    BY <1>2, <2>1, <2>2 DEF Faithful
  <2>3. CASE file'.stamp = file.stamp + 1
    <3>1. /\ forms[e].base <= file.stamp
          /\ forms[e].at = "open" =>
               /\ e \in Clients \cup {GUI} /\ ~forms[e].moved
               /\ forms[e].doc = Shown(e, forms[e].meant)
      BY <2>1 DEF Faithful
    <3>2. forms'[e].base <= file'.stamp /\ forms'[e].base # file'.stamp
      BY <1>1, <1>2, <2>1, <2>3, <3>1
    <3> QED
      BY <1>2, <3>1, <3>2 DEF Faithful
  <2> QED
    BY <1>1, <2>2, <2>3
<1> QED
  BY <1>1, <1>2 DEF EditorInv, EditorTypes

LEMMA OneForm ==
  ASSUME EditorInv, NEW e \in Editors, NEW r \in Forms,
         forms' = [forms EXCEPT ![e] = r], UNCHANGED file \/ Writes,
         Faithful(e)'
  PROVE  EditorInv'
<1>1. /\ forms' \in [Editors -> Forms]
      /\ \A d \in Editors : d # e => forms'[d] = forms[d]
  BY DEF EditorInv, EditorTypes
<1> QED
  BY <1>1, SomeForms

LEMMA ClosesOne ==
  ASSUME EditorInv, NEW e \in Editors, Becomes(e, Closed),
         UNCHANGED file \/ Writes
  PROVE  EditorInv'
<1>1. forms' = [forms EXCEPT ![e] = Closed]
  BY DEF Becomes
<1>2. file' \in [doc : Docs, stamp : Nat \ {0}]
  BY DEF Writes, Stored, EditorInv, EditorTypes
<1>3. Faithful(e)'
  BY <1>1, <1>2 DEF Faithful, Closed, EditorInv, EditorTypes
<1> QED
  BY <1>1, <1>3, OneForm, EmptyIsDoc

LEMMA ShownType ==
  ASSUME NEW doc \in Docs, NEW e
  PROVE  /\ Shown(e, doc) \in Docs
         /\ Redacted(doc) \in Docs
         /\ Redacted(doc) = [doc EXCEPT !.keys = [i \in DOMAIN doc.keys |-> Marker]]
<1>1. [i \in DOMAIN doc.keys |-> Marker] \in Seq(Keys)
  BY PreservedSelf DEF Docs
<1> QED
  BY <1>1 DEF Shown, Redacted, Docs

LEMMA OpenInv ==
  ASSUME EditorInv, NEW e \in Editors, Open(e)
  PROVE  EditorInv'
<1> DEFINE r == [Closed EXCEPT !.at = "open", !.doc = Shown(e, file.doc),
                               !.meant = file.doc, !.base = file.stamp]
<1>1. file.doc \in Docs /\ file.stamp \in Nat
  BY DEF EditorInv, EditorTypes
<1>2. r \in Forms
  BY <1>1, ShownType, EmptyIsDoc DEF Closed, Forms
<1>3. forms' = [forms EXCEPT ![e] = r] /\ UNCHANGED file
  BY DEF Open, Becomes
<1>4. /\ forms'[e] = r
      /\ r.at = "open" /\ r.doc = Shown(e, file.doc) /\ r.meant = file.doc
      /\ r.base = file.stamp /\ ~r.moved
  BY <1>3 DEF EditorInv, EditorTypes, Closed
<1>5. e \in Clients \cup {GUI}
  BY DEF Open
<1> HIDE DEF r
<1>6. Faithful(e)'
  BY <1>1, <1>3, <1>4, <1>5 DEF Faithful
<1> QED
  BY <1>2, <1>3, <1>6, OneForm

\* What a user adds, sets or enables is all that changes.
LEMMA ChangedInv ==
  ASSUME EditorInv, NEW e \in Editors, NEW doc \in Docs, NEW meant \in Docs,
         Changed(e, doc, meant),
         forms[e].base = file.stamp =>
           /\ e \in Clients => Restored(doc, file.doc) = meant
           /\ e = GUI => Overlaid(doc, file.doc) = meant
  PROVE  EditorInv'
<1> DEFINE r == [forms[e] EXCEPT !.at = "changed", !.doc = doc, !.meant = meant]
<1>1. forms[e] \in Forms
  BY DEF EditorInv, EditorTypes
<1>2. r \in Forms
  BY <1>1 DEF Forms
<1>3. forms' = [forms EXCEPT ![e] = r] /\ UNCHANGED file
  BY DEF Changed, Becomes
<1>4. /\ forms'[e] = r
      /\ r.at = "changed" /\ r.doc = doc /\ r.meant = meant
      /\ r.base = forms[e].base
  BY <1>1, <1>3 DEF EditorInv, EditorTypes, Forms
<1>5. Faithful(e)'
  BY <1>3, <1>4 DEF Faithful, EditorInv
<1> QED
  BY <1>2, <1>3, <1>5, OneForm

\* The keys that a client is shown, with one more, or without the last.
LEMMA RestoredKeys ==
  ASSUME NEW old \in Seq(Keys), NEW k \in Keys
  PROVE  LET shown == [i \in DOMAIN old |-> Marker] IN
         /\ Preserved(shown, old) = old
         /\ Preserved(Append(shown, k), old) = Append(old, k)
         /\ \A i \in 1..Len(old) : i = Len(old) =>
              Preserved(RemoveAt(shown, i), old) = RemoveAt(old, i)
<1> DEFINE shown == [i \in DOMAIN old |-> Marker]
<1>1. /\ shown \in Seq(Keys) /\ Len(shown) = Len(old) /\ Len(old) \in Nat
      /\ DOMAIN old = 1..Len(old)
      /\ \A i \in 1..Len(old) : shown[i] = Marker
  BY PreservedSelf, LenProperties
<1> HIDE DEF shown
<1>2. Preserved(shown, old) = old
  <2>1. /\ Preserved(shown, old) \in Seq(Keys)
        /\ Len(Preserved(shown, old)) = Len(old)
        /\ \A i \in 1..Len(old) : Preserved(shown, old)[i] = old[i]
    BY <1>1, PreservedType
  <2> QED
    BY <2>1, SeqEqual
<1>3. Preserved(Append(shown, k), old) = Append(old, k)
  <2>0. PICK grown, longer, kept : /\ grown = Append(shown, k)
                                   /\ longer = Append(old, k)
                                   /\ kept = Preserved(grown, old)
    OBVIOUS
  <2>1. /\ grown \in Seq(Keys) /\ longer \in Seq(Keys)
        /\ Len(grown) = Len(old) + 1 /\ Len(longer) = Len(old) + 1
        /\ \A i \in 1..Len(old) : grown[i] = Marker /\ longer[i] = old[i]
        /\ grown[Len(old) + 1] = k /\ longer[Len(old) + 1] = k
    BY <1>1, <2>0, AppendKey
  <2>2. /\ kept \in Seq(Keys) /\ Len(kept) = Len(old) + 1
        /\ \A i \in 1..Len(grown) :
             kept[i] = IF i <= Len(old) /\ grown[i] = Marker THEN old[i] ELSE grown[i]
    <3>1. grown \in Seq(Keys)
      BY <2>1
    <3>2. /\ kept \in Seq(Keys) /\ Len(kept) = Len(grown)
          /\ \A i \in 1..Len(grown) :
               kept[i] = IF i <= Len(old) /\ grown[i] = Marker THEN old[i] ELSE grown[i]
      BY <2>0, <3>1, PreservedType
    <3> QED
      BY <2>1, <3>2
  <2>3. \A i \in 1..Len(kept) : kept[i] = longer[i]
    <3> TAKE i \in 1..Len(kept)
    <3>1. \/ i \in 1..Len(old) /\ i <= Len(old)
          \/ i = Len(old) + 1 /\ ~(i <= Len(old))
      BY <1>1, <2>2
    <3>2. i \in 1..Len(grown)
      BY <2>1, <2>2
    <3> QED
      BY <2>1, <2>2, <3>1, <3>2
  <2>4. kept = longer
    BY <2>1, <2>2, <2>3, SeqEqual
  <2> QED
    BY <2>0, <2>4
<1>4. ASSUME NEW i \in 1..Len(old), i = Len(old)
      PROVE  Preserved(RemoveAt(shown, i), old) = RemoveAt(old, i)
  <2>0. PICK cut, shorter, kept : /\ cut = RemoveAt(shown, i)
                                  /\ shorter = RemoveAt(old, i)
                                  /\ kept = Preserved(cut, old)
    OBVIOUS
  <2>1. /\ cut \in Seq(Keys) /\ shorter \in Seq(Keys)
        /\ Len(cut) = Len(old) - 1 /\ Len(shorter) = Len(old) - 1
        /\ \A j \in 1..(i - 1) : cut[j] = shown[j] /\ shorter[j] = old[j]
    BY <1>1, <2>0, RemoveKey, ZenonT(60)
  <2>2. /\ kept \in Seq(Keys) /\ Len(kept) = Len(old) - 1
        /\ \A j \in 1..Len(cut) :
             kept[j] = IF j <= Len(old) /\ cut[j] = Marker THEN old[j] ELSE cut[j]
    <3>1. cut \in Seq(Keys)
      BY <2>1
    <3>2. /\ kept \in Seq(Keys) /\ Len(kept) = Len(cut)
          /\ \A j \in 1..Len(cut) :
               kept[j] = IF j <= Len(old) /\ cut[j] = Marker THEN old[j] ELSE cut[j]
      BY <2>0, <3>1, PreservedType
    <3> QED
      BY <2>1, <3>2
  <2>3. \A j \in 1..Len(kept) : kept[j] = shorter[j]
    <3> TAKE j \in 1..Len(kept)
    <3>1. /\ j \in 1..(i - 1) /\ j \in 1..Len(old) /\ j <= Len(old)
          /\ j \in 1..Len(cut)
      BY <1>1, <1>4, <2>1, <2>2
    <3>2. cut[j] = Marker /\ shorter[j] = old[j]
      BY <1>1, <2>1, <3>1
    <3> QED
      BY <2>2, <3>1, <3>2
  <2>4. kept = shorter
    BY <2>1, <2>2, <2>3, SeqEqual
  <2> QED
    BY <2>0, <2>4
<1> QED
  BY <1>2, <1>3, <1>4 DEF shown

\* What a user sees before the first change.
LEMMA OpenForm ==
  ASSUME EditorInv, NEW e \in Editors, forms[e].at = "open"
  PROVE  /\ forms[e].doc \in Docs /\ forms[e].meant \in Docs
         /\ ~forms[e].moved
         /\ forms[e].base = file.stamp => forms[e].meant = file.doc
         /\ e \in Clients => forms[e].doc = Redacted(forms[e].meant)
         /\ e = GUI => forms[e].doc = forms[e].meant
         /\ e \in Clients \cup {GUI}
<1>1. Faithful(e) /\ forms[e] \in Forms
  BY DEF EditorInv, EditorTypes
<1>2. GUI \notin Clients
  BY EditorAssumption
<1> QED
  BY <1>1, <1>2 DEF Faithful, Forms, Shown

LEMMA AddsKeyInv ==
  ASSUME EditorInv, NEW e \in Editors, AddsKey(e)
  PROVE  EditorInv'
<1> DEFINE f == forms[e]
<1>1. PICK k \in Secrets :
        Changed(e, [f.doc EXCEPT !.keys = Append(@, k)],
                   [f.meant EXCEPT !.keys = Append(@, k)])
  BY DEF AddsKey
<1> DEFINE doc == [f.doc EXCEPT !.keys = Append(@, k)]
           meant == [f.meant EXCEPT !.keys = Append(@, k)]
<1>2. f.at = "open" /\ k \in Keys
  BY <1>1 DEF Changed, Keys
<1>3. /\ f.doc \in Docs /\ f.meant \in Docs
      /\ f.base = file.stamp => f.meant = file.doc
      /\ e \in Clients => f.doc = Redacted(f.meant)
      /\ e = GUI => f.doc = f.meant
  BY <1>2, OpenForm
<1> HIDE DEF f
<1>4. doc \in Docs /\ meant \in Docs
  BY <1>2, <1>3, AppendProperties DEF Docs
<1>5. ASSUME f.base = file.stamp, e \in Clients
      PROVE  Restored(doc, file.doc) = meant
  <2>1. /\ f.meant.keys \in Seq(Keys)
        /\ doc.keys = Append([i \in DOMAIN f.meant.keys |-> Marker], k)
        /\ meant.keys = Append(f.meant.keys, k)
        /\ file.doc = f.meant
    BY <1>3, <1>5 DEF Redacted, Docs
  <2> HIDE DEF doc, meant
  <2>2. Preserved(doc.keys, file.doc.keys) = meant.keys
    BY <1>2, <2>1, RestoredKeys
  <2> USE DEF doc, meant
  <2> QED
    BY <1>3, <1>5, <2>2 DEF Restored, Redacted, Docs
<1>6. ASSUME f.base = file.stamp, e = GUI
      PROVE  Overlaid(doc, file.doc) = meant
  BY <1>3, <1>6 DEF Overlaid, Docs
<1> QED
  BY <1>1, <1>4, <1>5, <1>6, ChangedInv DEF f

LEMMA SetsInv ==
  ASSUME EditorInv, NEW e \in Editors, Sets(e)
  PROVE  EditorInv'
<1> DEFINE f == forms[e]
<1>1. PICK v \in Settings :
        Changed(e, [f.doc EXCEPT !.setting = v], [f.meant EXCEPT !.setting = v])
  BY DEF Sets
<1> DEFINE doc == [f.doc EXCEPT !.setting = v]
           meant == [f.meant EXCEPT !.setting = v]
<1>2. f.at = "open"
  BY <1>1 DEF Changed
<1>3. /\ f.doc \in Docs /\ f.meant \in Docs
      /\ f.base = file.stamp => f.meant = file.doc
      /\ e \in Clients => f.doc = Redacted(f.meant)
      /\ e = GUI => f.doc = f.meant
  BY <1>2, OpenForm
<1> HIDE DEF f
<1>4. doc \in Docs /\ meant \in Docs
  BY <1>3 DEF Docs
<1>5. ASSUME f.base = file.stamp, e \in Clients
      PROVE  Restored(doc, file.doc) = meant
  <2>1. Preserved(doc.keys, file.doc.keys) = meant.keys
    <3>1. PICK k : k \in Keys
      BY DEF Keys
    <3> QED
      BY <1>3, <1>5, <3>1, RestoredKeys DEF Redacted, Docs
  <2> QED
    BY <1>3, <1>5, <2>1 DEF Restored, Redacted, Docs
<1>6. ASSUME f.base = file.stamp, e = GUI
      PROVE  Overlaid(doc, file.doc) = meant
  BY <1>3, <1>6 DEF Overlaid, Docs
<1> QED
  BY <1>1, <1>4, <1>5, <1>6, ChangedInv DEF f

LEMMA EnablesInv ==
  ASSUME EditorInv, NEW e \in Editors, Enables(e)
  PROVE  EditorInv'
<1> DEFINE f == forms[e]
<1>1. PICK K \in SUBSET Kinds \ {{}} :
        Changed(e, [f.doc EXCEPT !.kinds = K], [f.meant EXCEPT !.kinds = K])
  BY DEF Enables
<1> DEFINE doc == [f.doc EXCEPT !.kinds = K]
           meant == [f.meant EXCEPT !.kinds = K]
<1>2. f.at = "open" /\ e \in Clients /\ e # GUI
  BY <1>1, EditorAssumption DEF Changed, Enables
<1>3. /\ f.doc \in Docs /\ f.meant \in Docs
      /\ f.base = file.stamp => f.meant = file.doc
      /\ e \in Clients => f.doc = Redacted(f.meant)
  BY <1>2, OpenForm
<1> HIDE DEF f
<1>4. doc \in Docs /\ meant \in Docs
  BY <1>3 DEF Docs
<1>5. ASSUME f.base = file.stamp
      PROVE  Restored(doc, file.doc) = meant
  <2>1. Preserved(doc.keys, file.doc.keys) = meant.keys
    <3>1. PICK k : k \in Keys
      BY DEF Keys
    <3> QED
      BY <1>2, <1>3, <1>5, <3>1, RestoredKeys DEF Redacted, Docs
  <2> QED
    BY <1>2, <1>3, <1>5, <2>1 DEF Restored, Redacted, Docs
<1> QED
  BY <1>1, <1>2, <1>4, <1>5, ChangedInv DEF f

LEMMA RemovesKeyInv ==
  ASSUME EditorInv, NEW e \in Editors, RemovesKey(e)
  PROVE  EditorInv'
<1> DEFINE f == forms[e]
<1>1. PICK i \in DOMAIN f.doc.keys :
        /\ f.at = "open"
        /\ Becomes(e, [f EXCEPT
             !.at = "changed",
             !.doc = [f.doc EXCEPT !.keys = RemoveAt(@, i)],
             !.meant = [f.meant EXCEPT !.keys = RemoveAt(@, i)],
             !.moved = e \in Clients /\ i < Len(f.doc.keys)])
        /\ UNCHANGED file
  BY DEF RemovesKey
<1> DEFINE doc == [f.doc EXCEPT !.keys = RemoveAt(@, i)]
           meant == [f.meant EXCEPT !.keys = RemoveAt(@, i)]
           r == [f EXCEPT !.at = "changed", !.doc = doc, !.meant = meant,
                          !.moved = e \in Clients /\ i < Len(f.doc.keys)]
<1>2. /\ f \in Forms /\ f.doc \in Docs /\ f.meant \in Docs
      /\ f.base = file.stamp => f.meant = file.doc
      /\ e \in Clients => f.doc = Redacted(f.meant)
      /\ e = GUI => f.doc = f.meant
      /\ e \in Clients \cup {GUI}
      /\ f.base <= file.stamp
  BY <1>1, OpenForm DEF EditorInv, EditorTypes, Faithful
<1>3. forms' = [forms EXCEPT ![e] = r] /\ forms'[e] = r
  <2>1. forms' = [forms EXCEPT ![e] = r]
    BY <1>1 DEF Becomes
  <2> HIDE DEF r
  <2> QED
    BY <2>1 DEF EditorInv, EditorTypes
<1> HIDE DEF f
<1>4. /\ i \in 1..Len(f.meant.keys) /\ Len(f.doc.keys) = Len(f.meant.keys)
      /\ DOMAIN f.doc.keys = 1..Len(f.doc.keys) /\ i \in 1..Len(f.doc.keys)
  <2>1. /\ f.doc.keys \in Seq(Keys) /\ f.meant.keys \in Seq(Keys)
        /\ f.doc.keys = f.meant.keys
           \/ f.doc.keys = [j \in DOMAIN f.meant.keys |-> Marker]
    BY <1>2 DEF Docs, Redacted
  <2> QED
    BY <2>1, PreservedSelf, LenProperties
<1>5. doc \in Docs /\ meant \in Docs
  BY <1>2, <1>4, RemoveKey DEF Docs
<1>6. r \in Forms
  BY <1>2, <1>5 DEF Forms
<1>7. ASSUME f.base = file.stamp, e \in Clients, ~(i < Len(f.doc.keys))
      PROVE  Restored(doc, file.doc) = meant
  <2>1. Preserved(doc.keys, file.doc.keys) = meant.keys
    <3>1. PICK k : k \in Keys
      BY DEF Keys
    <3>2. /\ f.meant.keys \in Seq(Keys) /\ file.doc = f.meant
          /\ doc.keys = RemoveAt([j \in DOMAIN f.meant.keys |-> Marker], i)
          /\ meant.keys = RemoveAt(f.meant.keys, i)
      BY <1>2, <1>7 DEF Redacted, Docs
    <3>3. i = Len(f.meant.keys) /\ i \in 1..Len(f.meant.keys)
      BY <1>2, <1>4, <1>7, LenProperties
    <3>4. \A n \in 1..Len(f.meant.keys) : n = Len(f.meant.keys) =>
            Preserved(RemoveAt([j \in DOMAIN f.meant.keys |-> Marker], n), f.meant.keys)
              = RemoveAt(f.meant.keys, n)
      BY <3>1, <3>2, RestoredKeys
    <3>5. file.doc.keys = f.meant.keys
      BY <3>2
    <3> HIDE DEF doc, meant
    <3> QED
      BY <3>2, <3>3, <3>4, <3>5
  <2> QED
    BY <1>2, <1>7, <2>1 DEF Restored, Redacted, Docs
<1>8. ASSUME f.base = file.stamp, e = GUI
      PROVE  Overlaid(doc, file.doc) = meant
  BY <1>2, <1>8 DEF Overlaid, Docs
<1>9. /\ r.at = "changed" /\ r.doc = doc /\ r.meant = meant /\ r.base = f.base
      /\ r.moved = (e \in Clients /\ i < Len(f.doc.keys))
  BY <1>2 DEF Forms
<1> HIDE DEF r, doc, meant
<1>10. Faithful(e)'
  BY <1>1, <1>2, <1>3, <1>7, <1>8, <1>9, EditorAssumption DEF Faithful
<1> QED
  BY <1>1, <1>3, <1>6, <1>10, OneForm DEF f

---------------------------------------------------------------------------
(* The saves.                                                              *)

LEMMA PreparesInv ==
  ASSUME EditorInv, NEW e \in Editors, NEW doc \in Docs, Prepares(e, doc),
         UNCHANGED file,
         forms[e].base = file.stamp /\ ~forms[e].moved => doc = forms[e].meant
  PROVE  EditorInv'
<1>1. CASE Becomes(e, Closed)
  BY <1>1, ClosesOne
<1>2. CASE Becomes(e, [forms[e] EXCEPT !.at = "prepared", !.doc = doc])
  <2> DEFINE r == [forms[e] EXCEPT !.at = "prepared", !.doc = doc]
  <2>1. forms[e] \in Forms /\ forms[e].base <= file.stamp
    BY DEF EditorInv, EditorTypes, Faithful
  <2>2. /\ r \in Forms
        /\ r.at = "prepared" /\ r.doc = doc /\ r.meant = forms[e].meant
        /\ r.base = forms[e].base /\ r.moved = forms[e].moved
    BY <2>1 DEF Forms
  <2>3. forms' = [forms EXCEPT ![e] = r]
    BY <1>2 DEF Becomes
  <2> HIDE DEF r
  <2>4. forms'[e] = r
    BY <2>3 DEF EditorInv, EditorTypes
  <2>5. Faithful(e)'
    BY <2>1, <2>2, <2>4 DEF Faithful
  <2> QED
    BY <2>2, <2>3, <2>5, OneForm
<1> QED
  BY <1>1, <1>2 DEF Prepares

LEMMA ConfigWriteInv ==
  ASSUME EditorInv, NEW e \in Editors, ConfigWrite(e)
  PROVE  EditorInv'
<1> DEFINE doc == Restored(forms[e].doc, file.doc)
<1>1. /\ forms[e].doc \in Docs /\ file.doc \in Docs
      /\ e \in Clients /\ forms[e].at = "changed" /\ UNCHANGED file
  BY DEF ConfigWrite, EditorInv, EditorTypes, Forms
<1>2. Preserved(forms[e].doc.keys, file.doc.keys) \in Seq(Keys)
  BY <1>1, PreservedType DEF Docs
<1>3. doc \in Docs
  BY <1>1, <1>2 DEF Restored, Docs
<1>4. forms[e].base = file.stamp /\ ~forms[e].moved => doc = forms[e].meant
  <2> HIDE DEF doc
  <2>1. Faithful(e)
    BY DEF EditorInv
  <2> QED
    BY <1>1, <2>1 DEF Faithful, doc
<1>5. CASE Becomes(e, Closed)
  BY <1>1, <1>5, ClosesOne
<1>6. CASE Prepares(e, doc)
  <2> HIDE DEF doc
  <2> QED
    BY <1>1, <1>3, <1>4, <1>6, PreparesInv
<1> QED
  BY <1>5, <1>6 DEF ConfigWrite, Restored

LEMMA GuiSaveInv ==
  ASSUME EditorInv, GuiSave
  PROVE  EditorInv'
<1> DEFINE doc == Overlaid(forms[GUI].doc, file.doc)
<1>1. GUI \in Editors
  BY DEF Editors
<1>2. /\ forms[GUI].doc \in Docs /\ file.doc \in Docs
      /\ forms[GUI].at = "changed" /\ UNCHANGED file
  BY <1>1 DEF GuiSave, EditorInv, EditorTypes, Forms
<1>3. doc \in Docs
  BY <1>2 DEF Overlaid, Docs
<1>4. forms[GUI].base = file.stamp /\ ~forms[GUI].moved => doc = forms[GUI].meant
  <2> HIDE DEF doc
  <2>1. Faithful(GUI)
    BY <1>1 DEF EditorInv
  <2> QED
    BY <1>2, <2>1 DEF Faithful, doc
<1>5. CASE Becomes(GUI, Closed)
  BY <1>1, <1>2, <1>5, ClosesOne
<1>6. CASE Prepares(GUI, doc)
  <2> HIDE DEF doc
  <2> QED
    BY <1>1, <1>2, <1>3, <1>4, <1>6, PreparesInv
<1> QED
  BY <1>5, <1>6 DEF GuiSave, Overlaid

\* A change of the file as it is now is what is meant.
LEMMA PatchInv ==
  ASSUME EditorInv, NEW e \in Editors, NEW doc \in Docs, UNCHANGED file,
         Becomes(e, [Closed EXCEPT !.at = "prepared", !.doc = doc,
                                   !.meant = doc, !.base = file.stamp])
  PROVE  EditorInv'
<1> DEFINE r == [Closed EXCEPT !.at = "prepared", !.doc = doc,
                               !.meant = doc, !.base = file.stamp]
<1>1. file.stamp \in Nat
  BY DEF EditorInv, EditorTypes
<1>2. /\ r \in Forms
      /\ r.at = "prepared" /\ r.doc = doc /\ r.meant = doc
      /\ r.base = file.stamp
  BY <1>1, EmptyIsDoc DEF Forms, Closed
<1>3. forms' = [forms EXCEPT ![e] = r]
  BY DEF Becomes
<1> HIDE DEF r
<1>4. forms'[e] = r
  BY <1>3 DEF EditorInv, EditorTypes
<1>5. Faithful(e)'
  BY <1>1, <1>2, <1>4 DEF Faithful
<1> QED
  BY <1>2, <1>3, <1>5, OneForm

LEMMA ConfigPatchInv ==
  ASSUME EditorInv, NEW e \in Editors, ConfigPatch(e)
  PROVE  EditorInv'
<1>1. PICK doc \in Patches(file.doc) :
        Becomes(e, [Closed EXCEPT !.at = "prepared", !.doc = doc, !.meant = doc,
                                  !.base = file.stamp])
  BY DEF ConfigPatch
<1>2. file.doc \in Docs /\ UNCHANGED file
  BY DEF ConfigPatch, EditorInv, EditorTypes
<1>3. doc \in Docs
  <2>1. \A v \in Settings : [file.doc EXCEPT !.setting = v] \in Docs
    BY <1>2 DEF Docs
  <2>2. \A K \in SUBSET Kinds : [file.doc EXCEPT !.kinds = K] \in Docs
    BY <1>2 DEF Docs
  <2>3. \A k \in Secrets : <<k>> \in Seq(Keys)
    BY DEF Keys
  <2>4. \A k \in Secrets : [file.doc EXCEPT !.keys = <<k>>] \in Docs
    BY <1>2, <2>3 DEF Docs
  <2>5. [file.doc EXCEPT !.keys = <<>>] \in Docs
    BY <1>2, EmptySeq DEF Docs
  <2> QED
    BY <2>1, <2>2, <2>4, <2>5 DEF Patches
<1> QED
  BY <1>1, <1>2, <1>3, PatchInv

LEMMA InstallInv ==
  ASSUME EditorInv, NEW e \in Editors, Install(e)
  PROVE  EditorInv'
<1>1. PICK v \in Settings :
        LET doc == [file.doc EXCEPT !.setting = v]
        IN Becomes(e, [Closed EXCEPT !.at = "prepared", !.doc = doc,
                                     !.meant = doc, !.base = file.stamp])
  BY DEF Install
<1>2. [file.doc EXCEPT !.setting = v] \in Docs /\ UNCHANGED file
  BY DEF Install, EditorInv, EditorTypes, Docs
<1> QED
  BY <1>1, <1>2, PatchInv

LEMMA ScribbleInv ==
  ASSUME EditorInv, Scribble
  PROVE  EditorInv' /\ Writes
<1>1. PICK state \in {"valid", "broken"} :
        file' = Stored([file.doc EXCEPT !.state = state])
  BY DEF Scribble
<1>2. [file.doc EXCEPT !.state = state] \in Docs
  BY DEF EditorInv, EditorTypes, Docs
<1>3. Writes
  BY <1>1, <1>2 DEF Writes
<1> QED
  BY <1>3, SomeForms DEF Scribble, EditorInv, EditorTypes

LEMMA ReplaceInv ==
  ASSUME EditorInv, NEW e \in Editors, Replace(e) \/ Fill(e)
  PROVE  EditorInv' /\ Writes
<1>1. Writes
  BY DEF Replace, Fill, Writes, EditorInv, EditorTypes, Forms
<1> QED
  BY <1>1, ClosesOne DEF Replace, Fill

LEMMA TruncateInv ==
  ASSUME EditorInv, NEW e \in Editors, Truncate(e)
  PROVE  EditorInv' /\ Writes
<1> DEFINE base == IF forms[e].base = file.stamp THEN file.stamp + 1
                   ELSE forms[e].base
           r == [forms[e] EXCEPT !.at = "truncated", !.base = base]
<1>1. Writes /\ file'.stamp = file.stamp + 1
  BY EmptyIsDoc DEF Truncate, Writes, Stored
<1>2. /\ forms[e] \in Forms /\ file.stamp \in Nat /\ Faithful(e)
      /\ forms[e].at = "prepared"
  BY DEF EditorInv, EditorTypes, Truncate
<1>3. forms[e].base \in Nat /\ base \in Nat
  BY <1>2 DEF Forms
<1>4. forms' = [forms EXCEPT ![e] = r]
  BY DEF Truncate, Becomes
<1>5. base <= file.stamp + 1 /\ (base = file.stamp + 1 => forms[e].base = file.stamp)
  BY <1>2, <1>3 DEF Faithful
<1> HIDE DEF base
<1>6. /\ r \in Forms
      /\ r.at = "truncated" /\ r.doc = forms[e].doc /\ r.meant = forms[e].meant
      /\ r.base = base /\ r.moved = forms[e].moved
  BY <1>2, <1>3 DEF Forms
<1> HIDE DEF r
<1>7. forms'[e] = r
  BY <1>4 DEF EditorInv, EditorTypes
<1>8. Faithful(e)'
  BY <1>1, <1>2, <1>5, <1>6, <1>7 DEF Faithful
<1> QED
  BY <1>1, <1>4, <1>6, <1>8, OneForm

LEMMA SetupEndsInv ==
  ASSUME EditorInv, SetupEnds
  PROVE  EditorInv' /\ UNCHANGED file
<1> DEFINE r == IF file.doc.state = "broken" \/ forms[GUI].at = "truncated"
                THEN forms[GUI]
                ELSE [Closed EXCEPT !.at = "open", !.doc = file.doc,
                                    !.meant = file.doc, !.base = file.stamp]
<1>1. /\ GUI \in Editors /\ Setup \in Editors /\ GUI # Setup
      /\ GUI \notin Clients
      /\ UNCHANGED file
      /\ forms \in [Editors -> Forms]
      /\ file.doc \in Docs /\ file.stamp \in Nat
  BY EditorAssumption DEF Editors, Installers, GUI, Setup, SetupEnds, EditorInv,
    EditorTypes
<1>2. forms' = [forms EXCEPT ![Setup] = Closed, ![GUI] = r]
  BY <1>1 DEF SetupEnds
<1>3. r = forms[GUI] \/ /\ r \in Forms
                        /\ r.at = "open" /\ r.doc = file.doc
                        /\ r.meant = file.doc /\ r.base = file.stamp /\ ~r.moved
  BY <1>1, EmptyIsDoc DEF Forms, Closed
<1> HIDE DEF r
<1>4. /\ forms' \in [Editors -> Forms]
      /\ forms'[Setup] = Closed /\ forms'[GUI] = r
      /\ \A e \in Editors : e \notin {Setup, GUI} => forms'[e] = forms[e]
  BY <1>1, <1>2, <1>3, EmptyIsDoc
<1>5. Faithful(Setup)'
  BY <1>1, <1>4 DEF Faithful, Closed
<1>6. forms'[GUI] = forms[GUI] \/ Faithful(GUI)'
  BY <1>1, <1>3, <1>4 DEF Faithful, Shown
<1> QED
  BY <1>1, <1>4, <1>5, <1>6, SomeForms

---------------------------------------------------------------------------
(* Every step.                                                             *)

\* What a save stores.
SavesWell ==
  \A e \in Editors :
    Saves(e) /\ forms[e].base = file.stamp /\ ~forms[e].moved =>
      file'.doc = forms[e].meant

FileStep == EditorInv' /\ (UNCHANGED file \/ Writes) /\ SavesWell

LEMMA QuietStep ==
  ASSUME EditorInv', UNCHANGED file
  PROVE  FileStep
BY DEF FileStep, SavesWell, Saves

LEMMA FillsStep ==
  ASSUME EditorInv, NEW d \in Editors, Replace(d) \/ Fill(d)
  PROVE  FileStep
<1>1. EditorInv' /\ Writes
  BY ReplaceInv
<1>2. ASSUME NEW e \in Editors, Saves(e), forms[e].base = file.stamp,
             ~forms[e].moved
      PROVE  file'.doc = forms[e].meant
  <2>1. /\ file'.doc = forms[d].doc
        /\ forms' = [forms EXCEPT ![d] = Closed]
        /\ forms[d].at \in {"prepared", "truncated"}
    BY DEF Replace, Fill, Stored, Becomes
  <2>2. e = d
    BY <1>2, <2>1 DEF Saves, EditorInv, EditorTypes
  <2> QED
    BY <1>2, <2>1, <2>2 DEF Faithful, EditorInv
<1> QED
  BY <1>1, <1>2 DEF FileStep, SavesWell

LEMMA ScribbleStep ==
  ASSUME EditorInv, Scribble
  PROVE  FileStep
<1>1. EditorInv' /\ Writes
  BY ScribbleInv
<1>2. \A e \in Editors : ~Saves(e)
  BY DEF Scribble, Saves
<1> QED
  BY <1>1, <1>2 DEF FileStep, SavesWell

LEMMA TruncateStep ==
  ASSUME EditorInv, NEW d \in Editors, Truncate(d)
  PROVE  FileStep
<1>1. EditorInv' /\ Writes
  BY TruncateInv
<1>2. \A e \in Editors : e # d => forms'[e] = forms[e]
  BY DEF Truncate, Becomes, EditorInv, EditorTypes
<1>3. forms'[d].at = "truncated"
  BY DEF Truncate, Becomes, EditorInv, EditorTypes, Forms
<1> QED
  BY <1>1, <1>2, <1>3 DEF FileStep, SavesWell, Saves

LEMMA EditorSteps ==
  ASSUME EditorInv, EditorNext
  PROVE  FileStep
<1>1. CASE Scribble
  BY <1>1, ScribbleStep
<1>2. CASE GuiSave
  <2>1. EditorInv' /\ UNCHANGED file
    BY <1>2, GuiSaveInv DEF GuiSave
  <2> QED
    BY <2>1, QuietStep
<1>3. ASSUME NEW e \in Editors,
             \/ Open(e) \/ AddsKey(e) \/ RemovesKey(e) \/ Sets(e) \/ Enables(e)
             \/ ConfigWrite(e) \/ ConfigPatch(e)
      PROVE  FileStep
  <2>1. UNCHANGED file
    BY <1>3 DEF Open, AddsKey, RemovesKey, Sets, Enables, Changed, ConfigWrite,
      ConfigPatch
  <2>2. EditorInv'
    BY <1>3, OpenInv, AddsKeyInv, RemovesKeyInv, SetsInv, EnablesInv,
      ConfigWriteInv, ConfigPatchInv
  <2> QED
    BY <2>1, <2>2, QuietStep
<1>4. ASSUME NEW e \in Editors, Replace(e) \/ Truncate(e) \/ Fill(e)
      PROVE  FileStep
  BY <1>4, FillsStep, TruncateStep
<1> QED
  BY <1>1, <1>2, <1>3, <1>4 DEF EditorNext

LEMMA FileSteps ==
  ASSUME EditorInv, [Next]_vars
  PROVE  FileStep
<1>1. CASE EditorStep
  BY <1>1, EditorSteps DEF EditorStep
<1>2. CASE GuiCloses
  <2>1. Becomes(GUI, Closed) /\ UNCHANGED file /\ GUI \in Editors
    BY <1>2 DEF GuiCloses, Editors
  <2> QED
    BY <2>1, ClosesOne, QuietStep
<1>3. CASE SetupStarts
  <2>1. Install(Setup) /\ UNCHANGED file /\ Setup \in Editors
    BY <1>3 DEF SetupStarts, Install, Editors, Installers
  <2> QED
    BY <2>1, InstallInv, QuietStep
<1>4. CASE SetupEnds
  BY <1>4, SetupEndsInv, QuietStep
<1>5. CASE OperationAborts \/ OperationDies
  <2>1. Becomes(Elevated, Closed) /\ UNCHANGED file /\ Elevated \in Editors
    BY <1>5 DEF OperationAborts, OperationDies, Editors, Installers
  <2> QED
    BY <2>1, ClosesOne, QuietStep
<1>6. CASE OperationInstalls
  <2>1. Install(Elevated) /\ UNCHANGED file /\ Elevated \in Editors
    BY <1>6 DEF OperationInstalls, Install, Editors, Installers
  <2> QED
    BY <2>1, InstallInv, QuietStep
<1>7. CASE UNCHANGED <<file, forms>>
  <2>1. EditorInv'
    BY <1>7, SomeForms DEF EditorInv, EditorTypes
  <2> QED
    BY <1>7, <2>1, QuietStep
<1>8. ASSUME NEW s \in Slots,
             \/ LoadRead(s) \/ LoadStamp(s) \/ Connect(s) \/ ConnectFails(s)
             \/ ReloadSees(s) \/ ReloadReads(s) \/ ReloadEnds(s)
             \/ NothingElapsed(s) \/ Reconnect(s)
             \/ (\E late \in SUBSET agent[s].due : Listens(s, late))
             \/ (\E k \in Kinds : Dies(s, k))
             \/ ControlStarts(s) \/ GuiStarts(s) \/ Crashes(s)
      PROVE  UNCHANGED <<file, forms>>
  BY <1>8 DEF LoadRead, LoadStamp, Connect, ConnectFails, ReloadSees, ReloadReads,
    ReloadEnds, NothingElapsed, Reconnect, Listens, Dies, ControlStarts, GuiStarts, Crashes, Spawn,
    AgentBecomes, Exits, editorVars
<1>9. CASE \/ ControlStops \/ GuiPolls \/ GuiClears \/ GuiStartFails \/ GuiStops
          \/ RequestOperation \/ SpawnFails \/ BeginsStatus \/ EndsStatus
          \/ MonitorReads \/ MonitorWaits
  <2>1. UNCHANGED <<file, forms>>
    BY <1>9 DEF ControlStops, GuiPolls, GuiClears, GuiStartFails, GuiStops,
      RequestOperation, SpawnFails, BeginsStatus, EndsStatus, MonitorReads,
      MonitorWaits, OperationBecomes, editorVars
  <2> QED
    BY <1>7, <2>1
<1>10. CASE UNCHANGED vars
  BY <1>7, <1>10 DEF vars, editorVars
<1> QED
  BY <1>1, <1>2, <1>3, <1>4, <1>5, <1>6, <1>7, <1>8, <1>9, <1>10 DEF Next

LEMMA EditorInitially ==
  ASSUME Init
  PROVE  EditorInv
<1>1. PICK s \in Scenarios : EditorInit(s.keys)
  BY DEF Init
<1>2. s.keys \in Seq(Keys)
  <2>1. s.keys \in Seq(Secrets)
    BY ScenarioAssumption
  <2> QED
    BY <2>1 DEF Keys
<1>3. (CHOOSE v \in Settings : TRUE) \in Settings
  BY EditorAssumption
<1>4. file \in [doc : Docs, stamp : Nat \ {0}]
  BY <1>1, <1>2, <1>3 DEF EditorInit, Docs
<1>5. \A e \in Editors : forms[e] = Closed
  BY <1>1 DEF EditorInit
<1>6. forms \in [Editors -> Forms]
  BY <1>1, EmptyIsDoc DEF EditorInit
<1>7. \A e \in Editors : Faithful(e)
  BY <1>4, <1>5 DEF Faithful, Closed
<1> QED
  BY <1>4, <1>6, <1>7 DEF EditorInv, EditorTypes

\* SavedAsMeant.  A save over the file that the user was shown stores the
\* document that the user means.
THEOREM StoresWhatIsMeant == Spec => SavedAsMeant
<1>1. Init => EditorInv
  BY EditorInitially
<1>2. EditorInv /\ [Next]_vars => EditorInv' /\ SavesWell
  BY FileSteps DEF FileStep
<1> QED
  BY <1>1, <1>2, PTL DEF Spec, SavedAsMeant, SavesWell

---------------------------------------------------------------------------
(* The agents.                                                             *)

Connections == Settings \cup {None, "dead"}

Starters == Managers \cup {"loose"}

Agents ==
  [at : {None, "spawned", "loading", "connecting", "reloading", "validating"}
          \cup Loop,
   by : Starters \cup {None}, seen : Nat, content : Docs, config : Docs, modified : Nat, failed : Nat,
   raced : BOOLEAN, clients : [Kinds -> Connections], due : SUBSET Kinds,
   elapsed : SUBSET Kinds,
   fingerprint : (SUBSET Kinds) \X (Settings \cup {None}),
   dropped : SUBSET Kinds]

\* What an agent knows is of the file as it was at some stamp; when nothing was
\* written since, it is of the file as it is.
Informed(a) ==
  /\ a.seen <= file.stamp /\ a.modified <= file.stamp /\ a.failed <= file.stamp
  /\ a.at \in {"loading", "validating"} /\ a.seen = file.stamp =>
       a.content = file.doc
  /\ a.at \in {"connecting", "reloading", "validating"} \cup Loop =>
       (a.modified = file.stamp => a.config = file.doc \/ a.raced)
  /\ a.failed = file.stamp => file.doc.state # "valid"

Attended(a, kinds, setting) ==
  \A k \in kinds : a.clients[k] \in {setting, "dead"} \/ k \in a.due \cup a.dropped

\* The fingerprint stays from a configuration to the next; so what holds of the
\* configuration has to hold of the one with that fingerprint as well.
Attends(a) ==
  /\ a.elapsed \subseteq a.due
  /\ a.at \in {"reloading", "validating"} \cup Loop =>
       /\ Attended(a, a.config.kinds, a.config.setting)
       /\ Attended(a, a.fingerprint[1], a.fingerprint[2])
       /\ a.fingerprint[2] # None

AgentOK(a) == a \in Agents /\ Informed(a) /\ Attends(a)

AgentInv == agent \in [Slots -> Agents] /\ \A s \in Slots : AgentOK(agent[s])

Spawned(by) == [NoAgent EXCEPT !.at = "spawned", !.by = by]

LEMMA NoAgentOK ==
  ASSUME EditorTypes, NEW by \in Starters
  PROVE  AgentOK(NoAgent) /\ AgentOK(Spawned(by))
<1>1. Empty \in Docs
  BY EmptyIsDoc
<1>2. <<{}, None>> \in (SUBSET Kinds) \X (Settings \cup {None})
  OBVIOUS
<1>3. [k \in Kinds |-> None] \in [Kinds -> Connections]
  BY DEF Connections
<1>4. NoAgent \in Agents /\ Spawned(by) \in Agents
  BY <1>1, <1>2, <1>3 DEF NoAgent, Spawned, Agents
<1>5. Informed(NoAgent) /\ Informed(Spawned(by))
  BY DEF Informed, NoAgent, Spawned, EditorTypes, None, Loop
<1>6. Attends(NoAgent) /\ Attends(Spawned(by))
  BY DEF Attends, NoAgent, Spawned, None, Loop
<1> QED
  BY <1>4, <1>5, <1>6 DEF AgentOK

LEMMA GoneOK ==
  ASSUME EditorTypes PROVE AgentOK(NoAgent)
BY NoAgentOK DEF Starters

\* A write makes everything that is known older than the file.
LEMMA AgentsWait ==
  ASSUME EditorTypes, AgentInv, UNCHANGED agent, UNCHANGED file \/ Writes
  PROVE  AgentInv'
<1>1. CASE UNCHANGED file
  BY <1>1 DEF AgentInv, AgentOK, Informed, Attends, Attended
<1>2. CASE Writes
  <2>1. file'.stamp = file.stamp + 1 /\ file.stamp \in Nat
    BY <1>2 DEF Writes, Stored, EditorTypes
  <2>2. ASSUME NEW s \in Slots PROVE AgentOK(agent[s])'
    <3>1. AgentOK(agent[s]) /\ agent'[s] = agent[s]
      BY DEF AgentInv
    <3>2. /\ agent[s].seen <= file.stamp /\ agent[s].modified <= file.stamp
          /\ agent[s].failed <= file.stamp
          /\ agent[s].seen \in Nat /\ agent[s].modified \in Nat
          /\ agent[s].failed \in Nat
      BY <3>1 DEF AgentOK, Informed, Agents
    <3>3. Informed(agent[s])'
      BY <2>1, <3>1, <3>2 DEF Informed
    <3>4. Attends(agent[s])'
      BY <3>1 DEF AgentOK, Attends, Attended
    <3> QED
      BY <3>1, <3>3, <3>4 DEF AgentOK
  <2> QED
    BY <2>2 DEF AgentInv
<1> QED
  BY <1>1, <1>2

\* The step of one agent leaves the file and the others alone.
LEMMA OneAgent ==
  ASSUME EditorTypes, AgentInv, UNCHANGED file, NEW s \in Slots, NEW r,
         AgentOK(r), agent' = [agent EXCEPT ![s] = r]
  PROVE  AgentInv'
<1>1. agent' \in [Slots -> Agents]
  BY DEF AgentInv, AgentOK
<1>2. ASSUME NEW t \in Slots PROVE AgentOK(agent[t])'
  <2>1. agent'[t] = agent[t] \/ agent'[t] = r
    BY DEF AgentInv
  <2>2. AgentOK(agent'[t])
    BY <2>1 DEF AgentInv
  <2> QED
    BY <2>2 DEF AgentOK, Informed, Attends, Attended
<1> QED
  BY <1>1, <1>2 DEF AgentInv

LEMMA LoadSteps ==
  ASSUME EditorTypes, AgentInv, NEW s \in Slots,
         LoadRead(s) \/ LoadStamp(s) \/ Connect(s) \/ ConnectFails(s)
  PROVE  AgentInv'
<1>1. UNCHANGED file
  BY DEF LoadRead, LoadStamp, Connect, ConnectFails, AgentBecomes, Exits, editorVars
<1>2. AgentOK(agent[s]) /\ agent[s] \in Agents
  BY DEF AgentInv
<1>3. file.doc \in Docs /\ file.stamp \in Nat
  BY DEF EditorTypes
<1>4. CASE Exits(s)
  BY <1>1, <1>4, GoneOK, OneAgent DEF Exits, AgentBecomes
<1>5. CASE LoadRead(s) /\ ~Exits(s)
  <2> DEFINE r == [agent[s] EXCEPT !.at = "loading", !.content = file.doc,
                                   !.seen = file.stamp]
  <2>1. agent' = [agent EXCEPT ![s] = r]
    BY <1>5 DEF LoadRead, AgentBecomes
  <2>2. r \in Agents
    BY <1>2, <1>3 DEF Agents
  <2>3. Informed(r) /\ Attends(r)
    BY <1>2, <1>3 DEF AgentOK, Informed, Attends, Agents, Loop
  <2> QED
    BY <1>1, <2>1, <2>2, <2>3, OneAgent DEF AgentOK
<1>6. CASE LoadStamp(s)
  <2> DEFINE r == [agent[s] EXCEPT
       !.at = "connecting", !.config = agent[s].content, !.content = Empty,
       !.modified = file.stamp, !.raced = agent[s].seen # file.stamp, !.seen = 0]
  <2>1. agent' = [agent EXCEPT ![s] = r]
    BY <1>6 DEF LoadStamp, AgentBecomes
  <2>2. r \in Agents
    BY <1>2, <1>3, EmptyIsDoc DEF Agents
  <2>3. /\ r.at = "connecting" /\ r.seen = 0 /\ r.modified = file.stamp
        /\ r.config = agent[s].content /\ r.failed = agent[s].failed
        /\ r.elapsed = agent[s].elapsed /\ r.due = agent[s].due
    BY <1>2 DEF Agents
  <2>4. agent[s].seen = file.stamp \/ r.raced
    BY <1>2, Zenon DEF Agents
  <2>5. Informed(agent[s]) /\ Attends(agent[s]) /\ agent[s].at = "loading"
    BY <1>2, <1>6 DEF AgentOK, LoadStamp
  <2> HIDE DEF r
  <2>6. Informed(r) /\ Attends(r)
    BY <1>3, <2>3, <2>4, <2>5 DEF Informed, Attends, Loop
  <2> QED
    BY <1>1, <2>1, <2>2, <2>6, OneAgent DEF AgentOK
<1>7. CASE Connect(s)
  <2> DEFINE config == agent[s].config
             clients == [k \in Kinds |-> IF k \in config.kinds THEN config.setting
                                         ELSE None]
             r == [agent[s] EXCEPT !.at = "idle",
                     !.fingerprint = Fingerprint(config), !.clients = clients]
  <2>1. agent' = [agent EXCEPT ![s] = r]
    BY <1>7 DEF Connect, AgentBecomes
  <2>2. config.kinds \subseteq Kinds /\ config.setting \in Settings
    BY <1>2 DEF Agents, Docs
  <2>3. /\ clients \in [Kinds -> Connections]
        /\ \A k \in config.kinds : clients[k] = config.setting
    BY <2>2 DEF Connections
  <2>4. /\ Fingerprint(config) \in (SUBSET Kinds) \X (Settings \cup {None})
        /\ Fingerprint(config)[1] = config.kinds
        /\ Fingerprint(config)[2] = config.setting
        /\ config.setting # None
    BY <2>2, SettingsAssumption DEF Fingerprint
  <2> HIDE DEF clients
  <2>5. r \in Agents
    BY <1>2, <2>3, <2>4 DEF Agents, Loop
  <2>6. Informed(r)
    BY <1>2, <1>7 DEF AgentOK, Informed, Agents, Connect, Loop
  <2>7. Attends(r)
    BY <1>2, <2>3, <2>4 DEF AgentOK, Attends, Attended, Agents
  <2> QED
    BY <1>1, <2>1, <2>5, <2>6, <2>7, OneAgent DEF AgentOK
<1> QED
  BY <1>4, <1>5, <1>6, <1>7 DEF ConnectFails

LEMMA ReloadSteps ==
  ASSUME EditorTypes, AgentInv, NEW s \in Slots,
         ReloadSees(s) \/ ReloadReads(s) \/ ReloadEnds(s)
  PROVE  AgentInv'
<1>1. UNCHANGED file
  BY DEF ReloadSees, ReloadReads, ReloadEnds, AgentBecomes, editorVars
<1>2. AgentOK(agent[s]) /\ agent[s] \in Agents
  BY DEF AgentInv
<1>3. file.doc \in Docs /\ file.stamp \in Nat
  BY DEF EditorTypes
<1>4. CASE ReloadSees(s)
  <2> DEFINE r == [agent[s] EXCEPT !.at = "reloading", !.seen = file.stamp]
  <2>1. agent' = [agent EXCEPT ![s] = r] /\ agent[s].at = "idle"
    BY <1>4 DEF ReloadSees, AgentBecomes
  <2>2. r \in Agents
    BY <1>2, <1>3 DEF Agents
  <2>3. Informed(r)
    BY <1>2, <1>3, <2>1 DEF AgentOK, Informed, Agents, Loop
  <2>4. Attends(r)
    BY <1>2, <2>1 DEF AgentOK, Attends, Attended, Agents, Loop
  <2> QED
    BY <1>1, <2>1, <2>2, <2>3, <2>4, OneAgent DEF AgentOK
<1>5. CASE ReloadReads(s)
  <2> DEFINE r == [agent[s] EXCEPT !.at = "validating", !.content = file.doc]
  <2>1. agent' = [agent EXCEPT ![s] = r] /\ agent[s].at = "reloading"
    BY <1>5 DEF ReloadReads, AgentBecomes
  <2>2. r \in Agents
    BY <1>2, <1>3 DEF Agents
  <2>3. Informed(r)
    BY <1>2, <1>3, <2>1 DEF AgentOK, Informed, Agents, Loop
  <2>4. Attends(r)
    BY <1>2, <2>1 DEF AgentOK, Attends, Attended, Agents, Loop
  <2> QED
    BY <1>1, <2>1, <2>2, <2>3, <2>4, OneAgent DEF AgentOK
<1>6. CASE ReloadEnds(s) /\ agent[s].content.state = "valid"
  <2> DEFINE b == agent[s]
             due == b.due \cup Requested(b)
             elapsed == b.elapsed \ Requested(b)
             r == [b EXCEPT !.at = "checks", !.seen = 0, !.content = Empty,
                    !.config = b.content, !.modified = b.seen, !.failed = 0,
                    !.raced = FALSE, !.due = due, !.elapsed = elapsed]
  <2>1. b \in Agents /\ b.at = "validating" /\ Informed(b) /\ Attends(b)
    BY <1>2, <1>6 DEF AgentOK, ReloadEnds
  <2>2. /\ b.content.kinds \subseteq Kinds /\ b.due \subseteq Kinds
        /\ b.fingerprint = <<b.fingerprint[1], b.fingerprint[2]>>
    BY <2>1 DEF Agents, Docs
  <2>3. /\ due \subseteq Kinds /\ b.due \subseteq due /\ elapsed \subseteq b.elapsed
        /\ \/ b.content.kinds \subseteq due
           \/ /\ b.fingerprint[1] = b.content.kinds
              /\ b.fingerprint[2] = b.content.setting
    BY <2>2 DEF Requested, Fingerprint
  <2>4. agent' = [agent EXCEPT ![s] = r]
    <3> DEFINE a == [b EXCEPT !.at = "checks", !.seen = 0, !.content = Empty]
               u == [a EXCEPT !.config = b.content, !.modified = b.seen,
                       !.failed = 0, !.raced = FALSE,
                       !.due = a.due \cup Requested(b),
                       !.elapsed = a.elapsed \ Requested(b)]
    <3>1. agent' = [agent EXCEPT ![s] = u]
      BY <1>6 DEF ReloadEnds, AgentBecomes, Stamp
    <3>2. a.due = b.due /\ a.elapsed = b.elapsed
      BY <2>1 DEF Agents
    <3>3. u = r
      BY <2>1, <3>2 DEF Agents
    <3> QED
      BY <3>1, <3>3
  <2> HIDE DEF b, due, elapsed
  <2>5. r \in Agents
    BY <2>1, <2>3, EmptyIsDoc DEF Agents, Loop
  <2>6. /\ r.at = "checks" /\ r.seen = 0 /\ r.modified = b.seen
        /\ r.failed = 0 /\ r.config = b.content
    BY <2>1 DEF Agents
  <2>8. Informed(r)
    BY <1>3, <2>1, <2>6 DEF Informed, Agents, EditorTypes, Loop
  <2>7. Attends(r)
    BY <2>1, <2>3 DEF Attends, Attended, Agents, Loop
  <2> QED
    BY <1>1, <2>4, <2>5, <2>7, <2>8, OneAgent DEF AgentOK
<1>7. CASE ReloadEnds(s) /\ agent[s].content.state # "valid"
  <2> DEFINE b == agent[s]
             r == [b EXCEPT !.at = "checks", !.seen = 0, !.content = Empty,
                    !.failed = b.seen]
  <2>1. b \in Agents /\ b.at = "validating" /\ Informed(b) /\ Attends(b)
    BY <1>2, <1>7 DEF AgentOK, ReloadEnds
  <2>2. agent' = [agent EXCEPT ![s] = r]
    BY <1>2, <1>7 DEF ReloadEnds, AgentBecomes, Stamp, Agents
  <2>3. b.content.state # "valid"
    BY <1>7
  <2> HIDE DEF b
  <2>4. r \in Agents
    BY <2>1, EmptyIsDoc DEF Agents, Loop
  <2>5. Informed(r)
    BY <1>3, <2>1, <2>3 DEF Informed, Agents, Loop
  <2>6. Attends(r)
    BY <2>1 DEF Attends, Attended, Agents, Loop
  <2> QED
    BY <1>1, <2>2, <2>4, <2>5, <2>6, OneAgent DEF AgentOK
<1> QED
  BY <1>4, <1>5, <1>6, <1>7

LEMMA DiesStep ==
  ASSUME EditorTypes, AgentInv, NEW s \in Slots, NEW k \in Kinds, Dies(s, k)
  PROVE  AgentInv'
<1> DEFINE b == agent[s]
           clients == [b.clients EXCEPT ![k] = "dead"]
           r == [b EXCEPT !.clients = clients]
<1>1. UNCHANGED file
  BY DEF Dies, editorVars
<1>2. b \in Agents /\ Informed(b) /\ Attends(b)
  BY DEF AgentInv, AgentOK
<1>3. agent' = [agent EXCEPT ![s] = r]
  BY <1>2 DEF Dies, AgentInv, Agents
<1>4. clients \in [Kinds -> Connections]
  BY <1>2 DEF Agents, Connections
<1>5. \A j \in Kinds : clients[j] \in {b.clients[j], "dead"}
  BY <1>2 DEF Agents
<1>6. b.config.kinds \subseteq Kinds /\ b.fingerprint[1] \subseteq Kinds
  BY <1>2 DEF Agents, Docs
<1> HIDE DEF b, clients
<1>7. r \in Agents
  BY <1>2, <1>4 DEF Agents
<1>8. Informed(r)
  BY <1>2 DEF Informed, Agents
<1>9. Attends(r)
  BY <1>2, <1>5, <1>6 DEF Attends, Attended, Agents
<1> QED
  BY <1>1, <1>3, <1>7, <1>8, <1>9, OneAgent DEF AgentOK

\* Time that runs out and a report leave everything as it is, except that more
\* is due.
LEMMA ListensStep ==
  ASSUME EditorTypes, AgentInv, NEW s \in Slots,
         NEW late \in SUBSET agent[s].due, Listens(s, late)
  PROVE  AgentInv'
<1> DEFINE b == agent[s]
           a == [b EXCEPT !.at = "idle", !.elapsed = b.elapsed \cup late]
<1>1. UNCHANGED file
  BY DEF Listens, AgentBecomes, editorVars
<1>2. b \in Agents /\ b.at = "listens" /\ Informed(b) /\ Attends(b)
  BY DEF AgentInv, AgentOK, Listens
<1>3. \/ agent' = [agent EXCEPT ![s] = a]
      \/ \E k \in Kinds : agent' = [agent EXCEPT ![s] = Postponed(a, k)]
  BY <1>2, Zenon DEF Listens, AgentBecomes
<1>4. a.due = b.due /\ a.config = b.config /\ a.elapsed = b.elapsed \cup late
  BY <1>2 DEF Agents
<1>5. ASSUME NEW X \in SUBSET Kinds
      PROVE  AgentOK([a EXCEPT !.due = a.due \cup X, !.elapsed = a.elapsed \ X])
  <2> DEFINE due == b.due \cup X
             elapsed == (b.elapsed \cup late) \ X
             r == [a EXCEPT !.due = a.due \cup X, !.elapsed = a.elapsed \ X]
  <2>1. /\ due \subseteq Kinds /\ b.due \subseteq due /\ elapsed \subseteq due
    BY <1>2 DEF Agents, Attends
  <2>2. r = [b EXCEPT !.at = "idle", !.due = due, !.elapsed = elapsed]
    BY <1>2, <1>4 DEF Agents
  <2> HIDE DEF b, due, elapsed, r
  <2>3. r \in Agents
    BY <1>2, <2>1, <2>2 DEF Agents, Loop
  <2>4. Informed(r)
    BY <1>2, <2>2 DEF Informed, Agents, Loop
  <2>5. Attends(r)
    BY <1>2, <2>1, <2>2 DEF Attends, Attended, Agents, Loop
  <2> QED
    BY <2>3, <2>4, <2>5 DEF AgentOK, r
<1>6. a = [a EXCEPT !.due = a.due \cup {}, !.elapsed = a.elapsed \ {}]
  BY <1>2 DEF Agents
<1>7. AgentOK(a)
  BY <1>5, <1>6
<1>8. ASSUME NEW k \in Kinds PROVE AgentOK(Postponed(a, k))
  BY <1>5 DEF Postponed
<1> QED
  BY <1>1, <1>3, <1>7, <1>8, OneAgent

\* A check that finds nothing due.
LEMMA NothingElapsedStep ==
  ASSUME EditorTypes, AgentInv, NEW s \in Slots, NothingElapsed(s)
  PROVE  AgentInv'
<1> DEFINE r == [agent[s] EXCEPT !.at = "listens"]
<1>1. UNCHANGED file /\ agent' = [agent EXCEPT ![s] = r]
  BY DEF NothingElapsed, AgentBecomes, editorVars
<1>2. agent[s] \in Agents /\ agent[s].at \in Loop
      /\ Informed(agent[s]) /\ Attends(agent[s])
  BY DEF AgentInv, AgentOK, NothingElapsed, AtCheck, Loop
<1>3. r \in Agents
  BY <1>2 DEF Agents, Loop
<1>4. Informed(r)
  BY <1>2 DEF Informed, Agents, Loop
<1>5. Attends(r)
  BY <1>2 DEF Attends, Attended, Agents, Loop
<1> QED
  BY <1>1, <1>3, <1>4, <1>5, OneAgent DEF AgentOK

LEMMA ReconnectStep ==
  ASSUME EditorTypes, AgentInv, NEW s \in Slots, Reconnect(s)
  PROVE  AgentInv'
<1> DEFINE b == agent[s]
           enabled == b.config.kinds
           tried == b.elapsed
           gone == {k \in Kinds \ enabled : b.clients[k] # None \/ k \in tried}
<1>1. PICK replaced \in SUBSET (tried \cap enabled) :
        \E connected \in SUBSET replaced :
          AgentBecomes(s, Round(b, replaced, connected))
  BY DEF Reconnect
<1>2. PICK connected \in SUBSET replaced :
        AgentBecomes(s, Round(b, replaced, connected))
  BY <1>1
<1> DEFINE clients == [k \in Kinds |-> IF k \notin enabled THEN None
                                       ELSE IF k \in replaced THEN b.config.setting
                                       ELSE b.clients[k]]
           due == StillDue(b, tried, connected)
           fingerprint == IF connected = {} THEN b.fingerprint
                          ELSE Fingerprint(b.config)
           dropped == (IF connected = {} THEN b.dropped \cup gone
                       ELSE b.dropped \cap enabled) \ replaced
           r == [b EXCEPT !.at = "listens", !.clients = clients, !.due = due,
                          !.elapsed = {}, !.fingerprint = fingerprint, !.dropped = dropped]
<1>3. UNCHANGED file /\ agent' = [agent EXCEPT ![s] = r]
  BY <1>2, Zenon DEF AgentBecomes, editorVars, Round
<1>4. b \in Agents /\ b.at \in {"idle", "checks"} /\ Informed(b) /\ Attends(b)
  BY DEF AgentInv, AgentOK, Reconnect, AtCheck
<1>5. /\ enabled \subseteq Kinds /\ b.config.setting \in Settings
      /\ b.config.setting # None
      /\ b.clients \in [Kinds -> Connections]
      /\ b.due \subseteq Kinds /\ b.dropped \subseteq Kinds
      /\ b.fingerprint \in (SUBSET Kinds) \X (Settings \cup {None})
      /\ b.fingerprint[1] \subseteq Kinds
  BY <1>4, SettingsAssumption DEF Agents, Docs
<1>6. /\ Attended(b, enabled, b.config.setting)
      /\ Attended(b, b.fingerprint[1], b.fingerprint[2])
      /\ b.fingerprint[2] # None
      /\ tried \subseteq b.due
  BY <1>4 DEF Attends, Loop
<1> HIDE DEF b, enabled, tried
<1>7. /\ clients \in [Kinds -> Connections] /\ due \subseteq Kinds
      /\ dropped \subseteq Kinds
      /\ fingerprint \in (SUBSET Kinds) \X (Settings \cup {None})
  BY <1>5 DEF Connections, StillDue, Fingerprint, enabled
<1>8. \A k \in enabled :
        clients[k] \in {b.config.setting, "dead"} \/ k \in due \cup dropped
  BY <1>5, <1>6 DEF Attended, StillDue, enabled
<1>9. /\ \A k \in fingerprint[1] :
            clients[k] \in {fingerprint[2], "dead"} \/ k \in due \cup dropped
      /\ fingerprint[2] # None
  <2>1. CASE connected # {}
    <3>1. /\ fingerprint = Fingerprint(b.config)
          /\ fingerprint[1] = enabled /\ fingerprint[2] = b.config.setting
      BY <2>1 DEF Fingerprint, enabled
    <3> HIDE DEF fingerprint, clients, due, dropped
    <3> QED
      BY <1>5, <1>8, <3>1
  <2>2. CASE connected = {}
    <3>1. /\ fingerprint = b.fingerprint
          /\ dropped = (b.dropped \cup gone) \ replaced
          /\ due = b.due \ (tried \ enabled)
      BY <2>2 DEF StillDue, enabled
    <3> HIDE DEF fingerprint, due, dropped
    <3>2. ASSUME NEW k \in b.fingerprint[1], k \notin enabled
          PROVE  k \in due \cup dropped
      <4>1. b.clients[k] # None \/ k \in b.due \cup b.dropped
        BY <1>6, <3>2 DEF Attended, None
      <4>2. k \in Kinds /\ k \notin replaced
        BY <1>5, <3>2
      <4> QED
        BY <3>1, <3>2, <4>1, <4>2
    <3>3. ASSUME NEW k \in b.fingerprint[1], k \in enabled
          PROVE  clients[k] \in {b.fingerprint[2], "dead"} \/ k \in due \cup dropped
      <4>1. \/ b.clients[k] \in {b.fingerprint[2], "dead"}
            \/ k \in b.due \cup b.dropped
        BY <1>6 DEF Attended
      <4>2. k \in Kinds /\ (k \notin replaced => clients[k] = b.clients[k])
        BY <1>5, <3>3
      <4>3. replaced \subseteq b.due
        BY <1>6
      <4> HIDE DEF clients
      <4> QED
        BY <3>1, <3>3, <4>1, <4>2, <4>3
    <3> QED
      BY <1>6, <3>1, <3>2, <3>3
  <2> QED
    BY <2>1, <2>2
<1> HIDE DEF clients, due, fingerprint, dropped
<1>10. /\ r \in Agents
       /\ r.at = "listens" /\ r.seen = b.seen /\ r.content = b.content
       /\ r.config = b.config /\ r.modified = b.modified /\ r.failed = b.failed
       /\ r.raced = b.raced /\ r.clients = clients /\ r.due = due
       /\ r.fingerprint = fingerprint /\ r.dropped = dropped
       /\ r.elapsed = {}
  BY <1>4, <1>7 DEF Agents, Loop
<1> HIDE DEF r
<1>11. Informed(r)
  BY <1>4, <1>10 DEF Informed, Loop
<1>12. Attends(r)
  BY <1>8, <1>9, <1>10 DEF Attends, Attended, enabled
<1> QED
  BY <1>3, <1>10, <1>11, <1>12, OneAgent DEF AgentOK

LEMMA KilledInv ==
  ASSUME EditorTypes, AgentInv, UNCHANGED file, NEW P,
         agent' = Killed(P)
         \/ \E s \in Slots, by \in Starters : agent' = [agent EXCEPT ![s] = Spawned(by)]
  PROVE  AgentInv'
<1>1. CASE agent' = Killed(P)
  <2>0. AgentOK(NoAgent)
    BY GoneOK
  <2>1. \A s \in Slots : agent'[s] \in {agent[s], NoAgent} /\ AgentOK(agent'[s])
    BY <1>1, <2>0 DEF Killed, AgentInv
  <2>2. agent' \in [Slots -> Agents]
    BY <1>1, <2>0 DEF Killed, AgentInv, AgentOK
  <2>3. \A s \in Slots : AgentOK(agent[s])'
    BY <2>1 DEF AgentOK, Informed, Attends, Attended
  <2> QED
    BY <2>2, <2>3 DEF AgentInv
<1>2. ASSUME NEW s \in Slots, NEW by \in Starters,
             agent' = [agent EXCEPT ![s] = Spawned(by)]
      PROVE  AgentInv'
  BY <1>2, NoAgentOK, OneAgent
<1> QED
  BY <1>1, <1>2

LEMMA AgentSteps ==
  ASSUME EditorInv, AgentInv, [Next]_vars
  PROVE  AgentInv'
<1>1. EditorTypes /\ (UNCHANGED file \/ Writes)
  BY FileSteps DEF FileStep, EditorInv
<1>2. ASSUME NEW s \in Slots,
             LoadRead(s) \/ LoadStamp(s) \/ Connect(s) \/ ConnectFails(s)
             \/ ReloadSees(s) \/ ReloadReads(s) \/ ReloadEnds(s)
             \/ NothingElapsed(s) \/ Reconnect(s)
             \/ (\E late \in SUBSET agent[s].due : Listens(s, late))
             \/ (\E k \in Kinds : Dies(s, k))
      PROVE  AgentInv'
  BY <1>1, <1>2, LoadSteps, ReloadSteps, NothingElapsedStep, ReconnectStep,
     ListensStep, DiesStep
<1>3. ASSUME NEW s \in Slots, ControlStarts(s) \/ GuiStarts(s)
      PROVE  AgentInv'
  <2>1. /\ \E by \in Starters : agent' = [agent EXCEPT ![s] = Spawned(by)]
        /\ UNCHANGED file
    BY <1>3 DEF ControlStarts, GuiStarts, Spawn, Spawned, Starters, Managers,
      editorVars
  <2> QED
    BY <1>1, <2>1, KilledInv
<1>4. ASSUME NEW P, agent' = Killed(P), UNCHANGED file
      PROVE  AgentInv'
  BY <1>1, <1>4, KilledInv
<1>5. ASSUME NEW s \in Slots, Crashes(s)
      PROVE  AgentInv'
  BY <1>4, <1>5 DEF Crashes, editorVars
<1>6. CASE UNCHANGED agent
  BY <1>1, <1>6, AgentsWait
<1>7. CASE ControlStops \/ GuiClears \/ GuiStops
  BY <1>4, <1>6, <1>7 DEF ControlStops, GuiClears, GuiStops, editorVars
<1>8. CASE \/ EditorStep \/ GuiPolls \/ GuiStartFails \/ GuiCloses
          \/ SetupStarts \/ SetupEnds
          \/ RequestOperation \/ SpawnFails \/ BeginsStatus \/ EndsStatus
          \/ OperationAborts \/ OperationDies \/ OperationInstalls
          \/ MonitorReads \/ MonitorWaits
  <2>1. UNCHANGED agent
    BY <1>8 DEF EditorStep, GuiPolls, GuiStartFails, GuiCloses, SetupStarts,
      SetupEnds, RequestOperation, SpawnFails, BeginsStatus, EndsStatus,
      OperationAborts, OperationDies, OperationInstalls, MonitorReads,
      MonitorWaits, OperationBecomes
  <2> QED
    BY <1>6, <2>1
<1>9. CASE UNCHANGED vars
  BY <1>6, <1>9 DEF vars
<1> QED
  BY <1>2, <1>3, <1>5, <1>7, <1>8, <1>9 DEF Next

LEMMA AgentsAlways == Spec => [](EditorInv /\ AgentInv)
<1>1. Init => EditorInv /\ AgentInv
  <2> SUFFICES ASSUME Init PROVE EditorInv /\ AgentInv
    OBVIOUS
  <2>1. EditorInv
    BY EditorInitially
  <2>2. AgentInv
    BY <2>1, GoneOK DEF Init, AgentInv, AgentOK, EditorInv
  <2> QED
    BY <2>1, <2>2
<1>2. EditorInv /\ AgentInv /\ [Next]_vars => (EditorInv /\ AgentInv)'
  BY FileSteps, AgentSteps DEF FileStep
<1> QED
  BY <1>1, <1>2, PTL DEF Spec

\* CaughtUp.  An agent that finds nothing to reload runs with the
\* configuration that is in the file.
THEOREM RunsWhatIsStored == Spec => []CaughtUp
<1>1. EditorInv /\ AgentInv => CaughtUp
  BY DEF CaughtUp, Looping, AgentInv, AgentOK, Informed
<1> QED
  BY <1>1, AgentsAlways, PTL

\* ConnectedOrDue.  Every enabled platform has a client of the present
\* configuration, live or dead, or is in reconnect_at.
THEOREM NoPlatformForgotten == Spec => []ConnectedOrDue
<1>1. EditorInv /\ AgentInv => ConnectedOrDue
  BY DEF ConnectedOrDue, Looping, AgentInv, AgentOK, Attends, Attended
<1> QED
  BY <1>1, AgentsAlways, PTL

---------------------------------------------------------------------------
(* The managers.                                                           *)

StartedBy(m) == {s \in Slots : Runs(s) /\ agent[s].by = m}

\* The control service holds what it has started; the interface lets go of it
\* when its window closes, and starts another one when it has killed them all.
ManagersInv ==
  /\ handle \in [Managers -> Slots \cup {None}]
  /\ \A s \in Slots : Runs(s) => agent[s].by \in Starters
  /\ \A s \in StartedBy(Control) : handle[Control] = s
  /\ \A s, t \in StartedBy(GUI) : s = t
  /\ clearing = "cleared" => StartedBy(GUI) = {}

\* Agents go on, or end: whoever runs ran before and was started by the same.
Outlived ==
  \A s \in Slots : Runs(s)' => Runs(s) /\ agent'[s].by = agent[s].by

LEMMA OutlivedInv ==
  ASSUME ManagersInv, Outlived,
         handle' \in [Managers -> Slots \cup {None}],
         handle'[Control] = handle[Control] \/ StartedBy(Control)' = {},
         clearing' = "cleared" => clearing = "cleared" \/ StartedBy(GUI)' = {}
  PROVE  ManagersInv'
<1>1. \A s \in Slots : Runs(s)' => agent'[s].by \in Starters
  BY DEF ManagersInv, Outlived
<1>2. \A m : StartedBy(m)' \subseteq StartedBy(m)
  BY DEF StartedBy, Outlived
<1>3. \A s \in StartedBy(Control)' : handle'[Control] = s
  BY <1>2 DEF ManagersInv
<1> QED
  BY <1>1, <1>2, <1>3 DEF ManagersInv

LEMMA EndedOutlived ==
  ASSUME AgentInv, NEW P, agent' = Killed(P)
  PROVE  /\ Outlived
         /\ \A s \in Slots : Runs(s)' => s \notin P
BY DEF Outlived, Killed, Runs, NoAgent, None, AgentInv

\* What an agent does by itself.
LEMMA WorksOutlived ==
  ASSUME AgentInv, NEW s \in Slots,
         \/ LoadRead(s) \/ LoadStamp(s) \/ Connect(s) \/ ConnectFails(s)
         \/ ReloadSees(s) \/ ReloadReads(s) \/ ReloadEnds(s)
         \/ NothingElapsed(s) \/ Reconnect(s)
         \/ (\E late \in SUBSET agent[s].due : Listens(s, late))
         \/ (\E k \in Kinds : Dies(s, k))
  PROVE  Outlived /\ UNCHANGED <<handle, clearing>>
<1>1. agent[s] \in Agents /\ \A t \in Slots \ {s} : agent'[t] = agent[t]
  BY DEF AgentInv, AgentOK, LoadRead, LoadStamp, Connect, ConnectFails,
    ReloadSees, ReloadReads, ReloadEnds, NothingElapsed, Reconnect, Listens, Dies,
    Exits, AgentBecomes
<1>2. UNCHANGED <<handle, clearing>>
  BY DEF LoadRead, LoadStamp, Connect, ConnectFails, ReloadSees, ReloadReads,
    ReloadEnds, NothingElapsed, Reconnect, Listens, Dies, Exits, AgentBecomes
<1> DEFINE kept == agent'[s].at # None =>
                     agent[s].at # None /\ agent'[s].by = agent[s].by
<1>3. ASSUME Exits(s) PROVE kept
  BY <1>3 DEF Exits, AgentBecomes, AgentInv, NoAgent
<1>4. agent \in [Slots -> Agents]
  BY DEF AgentInv
<1>5. ASSUME NEW r, agent' = [agent EXCEPT ![s] = r], r.by = agent[s].by,
              agent[s].at # None
       PROVE  kept
  BY <1>4, <1>5
<1>6. ASSUME LoadRead(s) \/ LoadStamp(s) \/ Connect(s) \/ ConnectFails(s) PROVE kept
  <2>1. CASE LoadRead(s) /\ ~Exits(s)
    <3>1. /\ agent' = [agent EXCEPT ![s] =
               [agent[s] EXCEPT !.at = "loading", !.content = file.doc,
                                !.seen = file.stamp]]
          /\ agent[s].at # None
      BY <2>1 DEF LoadRead, AgentBecomes, None
    <3> QED
      BY <1>1, <1>4, <3>1 DEF Agents
  <2>2. CASE LoadStamp(s)
    <3> DEFINE r == [agent[s] EXCEPT
           !.at = "connecting", !.config = agent[s].content, !.content = Empty,
           !.modified = file.stamp, !.raced = agent[s].seen # file.stamp,
           !.seen = 0]
    <3>1. agent' = [agent EXCEPT ![s] = r] /\ agent[s].at # None
      BY <2>2 DEF LoadStamp, AgentBecomes, None
    <3>2. r.by = agent[s].by
      BY <1>1 DEF Agents
    <3> HIDE DEF r
    <3> QED
      BY <1>5, <3>1, <3>2
  <2>3. CASE Connect(s)
    BY <1>1, <1>4, <2>3 DEF Connect, AgentBecomes, Agents, None
  <2> QED
    BY <1>3, <1>6, <2>1, <2>2, <2>3 DEF ConnectFails
<1>7. ASSUME ReloadSees(s) \/ ReloadReads(s) PROVE kept
  <2>1. \/ agent' = [agent EXCEPT ![s] = [agent[s] EXCEPT !.at = "reloading",
                                                         !.seen = file.stamp]]
        \/ agent' = [agent EXCEPT ![s] = [agent[s] EXCEPT !.at = "validating",
                                                         !.content = file.doc]]
    BY <1>7 DEF ReloadSees, ReloadReads, AgentBecomes
  <2>2. agent[s].at # None
    BY <1>7 DEF ReloadSees, ReloadReads, None
  <2> QED
    BY <1>1, <1>4, <2>1, <2>2 DEF Agents
<1>8. ASSUME ReloadEnds(s) PROVE kept
  <2> DEFINE b == agent[s]
             a == [b EXCEPT !.at = "checks", !.seen = 0, !.content = Empty]
             u == [a EXCEPT !.config = b.content, !.modified = b.seen,
                     !.failed = 0, !.raced = FALSE,
                     !.due = a.due \cup Requested(b),
                     !.elapsed = a.elapsed \ Requested(b)]
             v == [a EXCEPT !.failed = b.seen]
  <2>1. /\ agent' = [agent EXCEPT ![s] = u] \/ agent' = [agent EXCEPT ![s] = v]
        /\ agent[s].at # None
    BY <1>8 DEF ReloadEnds, AgentBecomes, Stamp, None
  <2>2. u.by = b.by /\ v.by = b.by
    BY <1>1 DEF Agents
  <2> HIDE DEF u, v
  <2> QED
    BY <1>5, <2>1, <2>2
<1>9. ASSUME NothingElapsed(s) PROVE kept
  BY <1>1, <1>9 DEF NothingElapsed, AtCheck, AgentInv, AgentBecomes, Agents, None
<1>10. ASSUME Reconnect(s) PROVE kept
  <2>1. agent[s].at # None
    BY <1>10 DEF Reconnect, AtCheck, None
  <2>2. PICK X, Y : agent' = [agent EXCEPT ![s] = Round(agent[s], X, Y)]
    BY <1>10 DEF Reconnect, AgentBecomes
  <2>3. Round(agent[s], X, Y).by = agent[s].by
    BY <1>1 DEF Round, Agents
  <2> QED
    BY <1>5, <2>1, <2>2, <2>3
<1>11. ASSUME \E late \in SUBSET agent[s].due : Listens(s, late) PROVE kept
  <2>1. PICK late \in SUBSET agent[s].due : Listens(s, late)
    BY <1>11
  <2> DEFINE a == [agent[s] EXCEPT !.at = "idle", !.elapsed = @ \cup late]
  <2>2. agent[s].at # None /\ a.by = agent[s].by
    BY <1>1, <2>1 DEF Listens, Agents, None
  <2>3. \/ agent' = [agent EXCEPT ![s] = a]
        \/ \E k \in Kinds : agent' = [agent EXCEPT ![s] = Postponed(a, k)]
    BY <2>1, Zenon DEF Listens, AgentBecomes
  <2>4. ASSUME NEW k PROVE Postponed(a, k).by = agent[s].by
    BY <1>1 DEF Postponed, Agents
  <2> HIDE DEF a
  <2> QED
    BY <1>5, <2>2, <2>3, <2>4
<1>12. ASSUME \E k \in Kinds : Dies(s, k) PROVE kept
  BY <1>1, <1>12, <1>4 DEF Dies, Agents
<1>13. kept
  BY <1>3, <1>6, <1>7, <1>8, <1>9, <1>10, <1>11, <1>12 DEF ConnectFails
<1> QED
  BY <1>1, <1>2, <1>13 DEF Outlived, Runs

\* A manager starts one when it has none.
LEMMA StartsInv ==
  ASSUME AgentInv, ManagersInv, NEW s \in Slots, ControlStarts(s) \/ GuiStarts(s)
  PROVE  ManagersInv'
<1>1. PICK by \in Starters :
        /\ agent' = [agent EXCEPT ![s] = Spawned(by)]
        /\ by = Control => StartedBy(Control) = {} /\ handle'[Control] = s
        /\ by # Control => \/ handle'[Control] = handle[Control]
                           \/ StartedBy(Control) = {}
        /\ by = GUI => StartedBy(GUI) = {} /\ clearing' = "no"
        /\ by # GUI => clearing' \in {clearing, "no"}
  <2>1. CASE ControlStarts(s)
    <3>1. StartedBy(Control) = {}
      BY <2>1 DEF ControlStarts, ManagersInv, StartedBy
    <3>2. /\ UNCHANGED clearing
          /\ \/ /\ agent' = [agent EXCEPT ![s] = Spawned(Control)]
                /\ handle' = [handle EXCEPT ![Control] = s]
             \/ agent' = [agent EXCEPT ![s] = Spawned("loose")]
      BY <2>1 DEF ControlStarts, Spawn, Spawned
    <3>3. handle \in [Managers -> Slots \cup {None}] /\ Control \in Managers
      BY DEF ManagersInv, Managers
    <3> QED
      BY <3>1, <3>2, <3>3 DEF Starters, Managers, Control, GUI
  <2>2. CASE GuiStarts(s)
    <3>1. /\ agent' = [agent EXCEPT ![s] =
                        Spawned(IF clearing = "cleared" THEN GUI ELSE "loose")]
          /\ clearing' = "no" /\ handle' = [handle EXCEPT ![GUI] = s]
      BY <2>2 DEF GuiStarts, Spawn, Spawned
    <3>2. handle'[Control] = handle[Control]
      BY <3>1 DEF ManagersInv, Managers, Control, GUI
    <3> QED
      BY <3>1, <3>2 DEF ManagersInv, Starters, Managers, Control, GUI
  <2> QED
    BY <2>1, <2>2
<1>2. /\ handle' \in [Managers -> Slots \cup {None}]
      /\ UNCHANGED clearing \/ clearing' = "no"
  BY DEF ControlStarts, GuiStarts, ManagersInv
<1>3. /\ agent'[s].by = by
      /\ \A t \in Slots \ {s} : agent'[t] = agent[t]
  BY <1>1 DEF AgentInv, Spawned, NoAgent
<1>4. \A t \in Slots : Runs(t)' => t = s \/ (Runs(t) /\ t # s)
  BY <1>3 DEF Runs
<1>5. \A m : StartedBy(m)' \subseteq StartedBy(m) \cup (IF by = m THEN {s} ELSE {})
  BY <1>3, <1>4 DEF StartedBy
<1>6. \A t \in Slots : Runs(t)' => agent'[t].by \in Starters
  BY <1>3, <1>4 DEF ManagersInv
<1>7. \A t \in StartedBy(Control)' : handle'[Control] = t
  BY <1>1, <1>5 DEF ManagersInv
<1>8. /\ \A t, u \in StartedBy(GUI)' : t = u
      /\ clearing' = "cleared" => StartedBy(GUI)' = {}
  BY <1>1, <1>2, <1>5 DEF ManagersInv
<1> QED
  BY <1>2, <1>6, <1>7, <1>8 DEF ManagersInv

LEMMA ManagerSteps ==
  ASSUME AgentInv, ManagersInv, [Next]_vars
  PROVE  ManagersInv'
<1>1. ASSUME NEW s \in Slots,
             \/ LoadRead(s) \/ LoadStamp(s) \/ Connect(s) \/ ConnectFails(s)
             \/ ReloadSees(s) \/ ReloadReads(s) \/ ReloadEnds(s)
             \/ NothingElapsed(s) \/ Reconnect(s)
             \/ (\E late \in SUBSET agent[s].due : Listens(s, late))
             \/ (\E k \in Kinds : Dies(s, k))
      PROVE  ManagersInv'
  <2>1. Outlived /\ UNCHANGED <<handle, clearing>>
    BY <1>1, WorksOutlived
  <2> QED
    BY <2>1, OutlivedInv DEF ManagersInv
<1>2. ASSUME NEW s \in Slots, ControlStarts(s) \/ GuiStarts(s)
      PROVE  ManagersInv'
  BY <1>2, StartsInv
<1>3. ASSUME NEW s \in Slots, Crashes(s) PROVE ManagersInv'
  <2>1. agent' = Killed({s}) /\ UNCHANGED <<handle, clearing>>
    BY <1>3 DEF Crashes
  <2>2. Outlived
    BY <2>1, EndedOutlived
  <2> QED
    BY <2>1, <2>2, OutlivedInv DEF ManagersInv
<1>4. CASE ControlStops
  <2>1. /\ agent' = Killed({handle[Control]})
        /\ handle' = [handle EXCEPT ![Control] = None] /\ UNCHANGED clearing
    BY <1>4 DEF ControlStops
  <2>2. Outlived /\ \A s \in Slots : Runs(s)' => s # handle[Control]
    BY <2>1, EndedOutlived
  <2>3. StartedBy(Control)' = {}
    BY <2>2 DEF StartedBy, Outlived, ManagersInv
  <2>4. handle' \in [Managers -> Slots \cup {None}]
    BY <2>1 DEF ManagersInv
  <2> QED
    BY <2>1, <2>2, <2>3, <2>4, OutlivedInv
<1>5. CASE GuiStops
  <2>1. /\ agent' = Killed({handle[GUI]})
        /\ handle' = [handle EXCEPT ![GUI] = None] /\ UNCHANGED clearing
    BY <1>5 DEF GuiStops
  <2>2. Outlived
    BY <2>1, EndedOutlived
  <2>3. /\ handle' \in [Managers -> Slots \cup {None}]
        /\ handle'[Control] = handle[Control]
    BY <2>1 DEF ManagersInv, Managers, Control, GUI
  <2> QED
    BY <2>1, <2>2, <2>3, OutlivedInv
<1>6. CASE GuiClears
  <2>1. CASE agent' = Killed(ByName)
    <3>1. Outlived /\ \A s \in Slots : Runs(s)' => s \notin Slots
      BY <2>1, EndedOutlived DEF ByName
    <3>2. StartedBy(GUI)' = {}
      BY <3>1 DEF StartedBy
    <3> QED
      BY <1>6, <3>1, <3>2, OutlivedInv DEF GuiClears, ManagersInv
  <2>2. ASSUME NEW P, agent' = Killed(P), UNCHANGED clearing PROVE ManagersInv'
    <3>1. Outlived
      BY <2>2, EndedOutlived
    <3> QED
      BY <1>6, <2>2, <3>1, OutlivedInv DEF GuiClears, ManagersInv
  <2>3. CASE UNCHANGED agent /\ clearing' = "unseen"
    <3>1. Outlived
      BY <2>3 DEF Outlived, Runs
    <3> QED
      BY <1>6, <2>3, <3>1, OutlivedInv DEF GuiClears, ManagersInv
  <2> QED
    BY <1>6, <2>1, <2>2, <2>3 DEF GuiClears
<1>7. ASSUME UNCHANGED agent,
             \/ UNCHANGED handle
             \/ handle' = [handle EXCEPT ![GUI] = None],
             clearing' \in {clearing, "no"}
      PROVE  ManagersInv'
  <2>1. Outlived
    BY <1>7 DEF Outlived, Runs
  <2>2. /\ handle' \in [Managers -> Slots \cup {None}]
        /\ handle'[Control] = handle[Control]
    BY <1>7 DEF ManagersInv, Managers, Control, GUI
  <2> QED
    BY <1>7, <2>1, <2>2, OutlivedInv
<1>8. CASE \/ EditorStep \/ GuiPolls \/ GuiStartFails \/ GuiCloses
          \/ SetupStarts \/ SetupEnds
          \/ RequestOperation \/ SpawnFails \/ BeginsStatus \/ EndsStatus
          \/ OperationAborts \/ OperationDies \/ OperationInstalls
          \/ MonitorReads \/ MonitorWaits
  <2>1. /\ UNCHANGED agent
        /\ UNCHANGED handle \/ handle' = [handle EXCEPT ![GUI] = None]
        /\ clearing' \in {clearing, "no"}
    BY <1>8 DEF EditorStep, GuiPolls, GuiStartFails, GuiCloses, SetupStarts,
      SetupEnds, RequestOperation, SpawnFails, BeginsStatus, EndsStatus,
      OperationAborts, OperationDies, OperationInstalls, MonitorReads,
      MonitorWaits, OperationBecomes
  <2> QED
    BY <1>7, <2>1
<1>9. CASE UNCHANGED vars
  BY <1>7, <1>9 DEF vars
<1> QED
  BY <1>1, <1>2, <1>3, <1>4, <1>5, <1>6, <1>8, <1>9 DEF Next

\* OneOfEach.  Two agents run at a time only when different managers have
\* started them, or one ran past its manager.
THEOREM OneAgentOfEach == Spec => []OneOfEach
<1>1. Init => ManagersInv
  BY DEF Init, ManagersInv, StartedBy, Runs, NoAgent, None
<1>2. EditorInv /\ AgentInv /\ ManagersInv /\ [Next]_vars => ManagersInv'
  BY ManagerSteps
<1>3. ManagersInv => OneOfEach
  BY DEF ManagersInv, OneOfEach, StartedBy, Starters, Managers
<1> QED
  BY <1>1, <1>2, <1>3, AgentsAlways, PTL DEF Spec

---------------------------------------------------------------------------
(* The operation.                                                          *)

Operations ==
  [elevated : {None, "asked"} \cup DOMAIN Phases,
   status : {None, "pending", "running", "torn"} \cup Final,
   monitor : {"off", "reads", "waits"},
   known : {None, "pending", "running"} \cup Final,
   shown : {None, "pending", "running", "torn"} \cup Final,
   report : {None, "not started"} \cup Final]

\* What was reported stays so: who reported success or failure was the last to
\* write, and the monitor that has reported does not look again.
OperationInv ==
  /\ operation.status \in Final => operation.elevated = None
  /\ operation.report \in Final => operation.status = operation.report
  /\ operation.report = "not started" =>
       operation.monitor = "off" /\ operation.shown \in {"pending", "torn"}
  /\ operation.known = "pending" => operation.shown \in {"pending", "torn"}
  /\ operation \in Operations

\* The elevated process moves on, and writes nothing.
LEMMA ElevatedMoves ==
  ASSUME OperationInv, NEW phase,
         phase \in {None, "running", "installed", "aborted"},
         operation' = [operation EXCEPT !.elevated = phase],
         phase = None \/ operation.elevated # None
  PROVE  OperationInv'
<1>1. operation' \in Operations
  <2>1. phase \in {None, "asked"} \cup DOMAIN Phases
    BY DEF Phases
  <2> QED
    BY <2>1 DEF OperationInv, Operations
<1>2. /\ operation'.elevated = phase
      /\ operation'.status = operation.status
      /\ operation'.monitor = operation.monitor
      /\ operation'.known = operation.known
      /\ operation'.shown = operation.shown
      /\ operation'.report = operation.report
  BY DEF OperationInv, Operations
<1> QED
  BY <1>1, <1>2 DEF OperationInv

LEMMA MonitorFinds ==
  ASSUME OperationInv, MonitorReads PROVE OperationInv'
<1> DEFINE found == operation.status
           known == IF found = "torn" THEN operation.known ELSE found
           report == IF found \in Final THEN found ELSE operation.report
           monitor == IF found \in Final THEN "off" ELSE "waits"
<1>1. operation' = [operation EXCEPT !.known = known, !.shown = found,
                                     !.report = report, !.monitor = monitor]
  BY DEF MonitorReads, OperationBecomes
<1>2. /\ found \in {None, "pending", "running", "torn"} \cup Final
      /\ operation.report \in {None, "not started"} \cup Final
      /\ operation.known \in {None, "pending", "running"} \cup Final
      /\ operation.monitor = "reads"
  BY DEF OperationInv, Operations, MonitorReads
<1>3. /\ known \in {None, "pending", "running"} \cup Final
      /\ report \in {None, "not started"} \cup Final
      /\ monitor \in {"off", "reads", "waits"}
  BY <1>2
<1>4. /\ known = "pending" => found \in {"pending", "torn"}
      /\ report \in Final => found = report
      /\ report # "not started"
  BY <1>2 DEF OperationInv, Final
<1>5. found \in Final => operation.elevated = None
  BY DEF OperationInv
<1>6. operation.status = found
  OBVIOUS
<1> HIDE DEF found, known, report, monitor
<1>7. /\ operation' \in Operations
      /\ operation'.elevated = operation.elevated /\ operation'.status = found
      /\ operation'.known = known /\ operation'.shown = found
      /\ operation'.report = report /\ operation'.monitor = monitor
  <2>1. operation \in Operations
    BY DEF OperationInv
  <2> QED
    <3>1. PICK o, q : o = operation /\ q = operation'
      OBVIOUS
    <3>2. /\ o \in Operations
          /\ q = [o EXCEPT !.known = known, !.shown = found,
                           !.report = report, !.monitor = monitor]
      BY <1>1, <2>1, <3>1
    <3>3. /\ q.elevated = o.elevated /\ q.status = o.status
          /\ q.known = known /\ q.shown = found
          /\ q.report = report /\ q.monitor = monitor
      BY <3>2 DEF Operations
    <3>4. DOMAIN q = DOMAIN o /\ q = [f \in DOMAIN o |-> q[f]]
      BY <3>2 DEF Operations
    <3>5. /\ o.elevated \in {None, "asked"} \cup DOMAIN Phases
          /\ o.status \in {None, "pending", "running", "torn"} \cup Final
          /\ DOMAIN o = {"elevated", "status", "monitor", "known", "shown", "report"}
      BY <3>2 DEF Operations
    <3>6. q \in Operations
      BY <1>2, <1>3, <3>3, <3>4, <3>5 DEF Operations
    <3> QED
      BY <1>6, <3>1, <3>3, <3>6
<1> QED
  BY <1>4, <1>5, <1>7 DEF OperationInv

LEMMA MonitorPauses ==
  ASSUME OperationInv, MonitorWaits PROVE OperationInv'
<1>1. PICK monitor, report :
        /\ operation' = [operation EXCEPT !.monitor = monitor, !.report = report]
        /\ \/ monitor = "reads" /\ report = operation.report
           \/ /\ monitor = "off" /\ report = "not started"
              /\ operation.known = "pending"
  <2>1. operation \in Operations
    BY DEF OperationInv
  <2>2. CASE operation' = [operation EXCEPT !.monitor = "reads"]
    <3>1. [operation EXCEPT !.monitor = "reads"] =
            [operation EXCEPT !.monitor = "reads", !.report = operation.report]
      BY <2>1 DEF Operations
    <3> QED
      BY <2>2, <3>1
  <2> QED
    BY <2>2 DEF MonitorWaits, OperationBecomes, WaitingForElevation
<1>2. /\ operation.monitor = "waits"
      /\ operation.report # "not started"
  BY DEF MonitorWaits, OperationInv
<1>3. /\ monitor \in {"off", "reads", "waits"}
      /\ report \in {None, "not started"} \cup Final
  BY <1>1 DEF OperationInv, Operations
<1>4. /\ operation' \in Operations
      /\ operation'.elevated = operation.elevated
      /\ operation'.status = operation.status
      /\ operation'.known = operation.known /\ operation'.shown = operation.shown
      /\ operation'.report = report /\ operation'.monitor = monitor
  BY <1>1, <1>3 DEF OperationInv, Operations
<1> QED
  BY <1>1, <1>2, <1>4 DEF OperationInv, Final

LEMMA OperationSteps ==
  ASSUME OperationInv, [Next]_vars
  PROVE  OperationInv'
<1> USE DEF OperationInv, Operations, Final, None, Phases
<1>1. CASE RequestOperation
  BY <1>1 DEF RequestOperation, NoOperation
<1>2. CASE SpawnFails
  BY <1>2 DEF SpawnFails, OperationBecomes
<1>3. CASE BeginsStatus
  BY <1>3 DEF BeginsStatus, OperationBecomes
<1>4. CASE EndsStatus
  <2> DEFINE status == Phases[operation.elevated]
  <2>1. /\ operation.elevated \in {"asked", "running", "installed", "aborted"}
        /\ operation.elevated # None
        /\ operation.status = "torn"
        /\ operation' = [operation EXCEPT
             !.status = status,
             !.elevated = IF status = "running" THEN "running" ELSE None]
    BY <1>4 DEF EndsStatus, OperationBecomes
  <2>2. /\ status \in {"running", "succeeded", "failed"}
        /\ status = "running" => operation.elevated = "asked"
    <3>1. /\ Phases["asked"] = "running" /\ Phases["running"] = "succeeded"
          /\ Phases["installed"] = "succeeded" /\ Phases["aborted"] = "failed"
      OBVIOUS
    <3> HIDE DEF Phases
    <3> QED
      BY <2>1, <3>1
  <2> HIDE DEF status
  <2>3. CASE status = "running"
    <3>1. operation' = [operation EXCEPT !.status = "running", !.elevated = "running"]
      BY <2>1, <2>3
    <3> QED
      BY <2>1, <3>1
  <2>4. CASE status \in {"succeeded", "failed"}
    <3>1. operation' = [operation EXCEPT !.status = status, !.elevated = None]
      BY <2>1, <2>4
    <3>2. operation.report \notin Final
      BY <2>1
    <3> QED
      BY <2>1, <2>4, <3>1, <3>2
  <2> QED
    BY <2>2, <2>3, <2>4
<1>5. CASE OperationAborts
  <2>1. /\ operation' = [operation EXCEPT !.elevated = "aborted"]
        /\ operation.elevated # None
    BY <1>5 DEF OperationAborts
  <2> HIDE DEF OperationInv, Operations, Phases, Final
  <2> QED
    BY <2>1, ElevatedMoves
<1>6. CASE OperationDies
  <2>1. /\ operation' = [operation EXCEPT !.elevated = None]
        /\ operation.elevated # None
    BY <1>6 DEF OperationDies
  <2> HIDE DEF OperationInv, Operations, Phases, Final
  <2> QED
    BY <2>1, ElevatedMoves
<1>7. CASE OperationInstalls
  <2>1. /\ operation' = [operation EXCEPT !.elevated = "installed"]
        /\ operation.elevated # None
    BY <1>7 DEF OperationInstalls
  <2> HIDE DEF OperationInv, Operations, Phases, Final
  <2> QED
    BY <2>1, ElevatedMoves
<1>8. CASE MonitorReads
  <2> HIDE DEF OperationInv, Operations, Phases, Final
  <2> QED
    BY <1>8, MonitorFinds
<1>9. CASE MonitorWaits
  <2> HIDE DEF OperationInv, Operations, Phases, Final
  <2> QED
    BY <1>9, MonitorPauses
<1>10. CASE UNCHANGED operation
  <2> HIDE DEF Operations, Phases, Final
  <2> QED
    BY <1>10
<1>11. CASE \/ EditorStep \/ ControlStops \/ GuiPolls \/ GuiClears
           \/ GuiStartFails \/ GuiStops \/ GuiCloses \/ SetupStarts \/ SetupEnds
  <2>1. UNCHANGED operation
    BY <1>11 DEF EditorStep, ControlStops, GuiPolls, GuiClears, GuiStartFails,
      GuiStops, GuiCloses, SetupStarts, SetupEnds
  <2> QED
    BY <1>10, <2>1
<1>12. ASSUME NEW s \in Slots,
              \/ LoadRead(s) \/ LoadStamp(s) \/ Connect(s) \/ ConnectFails(s)
              \/ ReloadSees(s) \/ ReloadReads(s) \/ ReloadEnds(s)
              \/ NothingElapsed(s) \/ Reconnect(s)
             \/ (\E late \in SUBSET agent[s].due : Listens(s, late))
             \/ (\E k \in Kinds : Dies(s, k))
              \/ ControlStarts(s) \/ GuiStarts(s) \/ Crashes(s)
       PROVE  OperationInv'
  <2>1. UNCHANGED operation
    BY <1>12 DEF LoadRead, LoadStamp, Connect, ConnectFails, ReloadSees,
      ReloadReads, ReloadEnds, NothingElapsed, Reconnect, Listens, Dies, ControlStarts, GuiStarts, Crashes,
      Spawn, AgentBecomes, Exits
  <2> QED
    BY <1>10, <2>1
<1>13. CASE UNCHANGED vars
  BY <1>10, <1>13 DEF vars
<1> QED
  BY <1>1, <1>2, <1>3, <1>4, <1>5, <1>6, <1>7, <1>8, <1>9, <1>11, <1>12, <1>13
  DEF Next

\* ReportsTrue.  Success and failure are reported when they were written, and
\* "not started" when the status found last was that of a request.
THEOREM ReportedAsFound == Spec => []ReportsTrue
<1>1. Init => OperationInv
  BY DEF Init, NoOperation, OperationInv, Operations, Final, None, Phases
<1>2. OperationInv /\ [Next]_vars => OperationInv'
  BY OperationSteps
<1>3. OperationInv => ReportsTrue
  BY DEF OperationInv, ReportsTrue
<1> QED
  BY <1>1, <1>2, <1>3, PTL DEF Spec

===========================================================================
