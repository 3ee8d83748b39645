-------------------------- MODULE CompositionProofs --------------------------
(***************************************************************************)
(* Theorems about Composition, for all files: what is merged keeps its     *)
(* names apart, references their meaning and variables their source; and   *)
(* about Compilation, for all drafts, parameters and backends: what is     *)
(* accepted compiles, what is planned waits for what is planned, in        *)
(* circles only where deployments do, and a backend a plan is valid for    *)
(* fits the other instances of the draft.                                  *)
(***************************************************************************)
EXTENDS Composition, Compilation, NumberLemmas, SequenceTheorems, TLAPS

\* No file takes the segment that composition keeps for the names it makes up.
Unreserved(fs) ==
    \A name \in DOMAIN fs :
        /\ \A i \in DOMAIN fs[name].imports : fs[name].imports[i].ns[1] # "__private"
        /\ \A e \in fs[name].elements : e.top[1] # "__private"

\* Variables are named by what a placeholder can name, which has no dots.
PlainVariables(fs) ==
    \A name \in DOMAIN fs : \A v \in fs[name].variables : Len(v.name) = 1

\* What an element of an entity adds to the name of its ancestor.
Rest(e) == SubSeq(e.name, Len(e.top) + 1, Len(e.name))

\* Elements whose names can be told from those that composition makes up.
Keyed(elements) == ElementsOK(elements) /\ \A e \in elements : e.top[1] # "__private"

\* A module that is being expanded.
FrameOK(fs, frame) ==
    /\ frame = [file |-> frame.file, ns |-> frame.ns, todo |-> frame.todo,
                scenario |-> frame.scenario]
    /\ frame.file \in DOMAIN fs
    /\ frame.todo \in Seq([file : DOMAIN fs, ns : Dotted])
    /\ \A i \in DOMAIN frame.todo : frame.todo[i].ns[1] # "__private"
    /\ DOMAIN frame.scenario = {"elements", "refs", "specs", "uses"}
    /\ Keyed(frame.scenario.elements)
    /\ \A r \in frame.scenario.refs : DOMAIN r = {"owner", "field", "section", "to", "meant"}

\* The modules that are being expanded: mounted or not yet, none has a key twice,
\* and what each is to be mounted under can be told from the names that
\* composition makes up.
StackOK(fs, s) ==
    /\ s \in Seq(ToSet(s)) /\ s # <<>>
    /\ \A i \in DOMAIN s : FrameOK(fs, s[i])
    /\ \A i \in DOMAIN s : i > 1 => s[i].ns \in Dotted /\ s[i].ns[1] # "__private"

\* The inductive invariant.
Inv == files \in FileSystems /\ StackOK(files, stack)
-----------------------------------------------------------------------------
(***************************************************************************)
(* Names.                                                                  *)
(***************************************************************************)
LEMMA SuffixOfConcat ==
    ASSUME NEW S, NEW s \in Seq(S), NEW t \in Seq(S)
    PROVE  SubSeq(s \o t, Len(s) + 1, Len(s \o t)) = t
<1>1. /\ s \o t \in Seq(S) /\ Len(s \o t) = Len(s) + Len(t)
      /\ Len(s) \in Nat /\ Len(t) \in Nat
      /\ \A i \in 1 .. Len(s) + Len(t) :
            (s \o t)[i] = IF i <= Len(s) THEN s[i] ELSE t[i - Len(s)]
  BY ConcatProperties, LenProperties
<1> DEFINE u == s \o t
           a == Len(s)
           b == Len(t)
           v == SubSeq(u, Len(s) + 1, Len(u))
<1>2. /\ v \in Seq(S) /\ Len(v) = Len(t)
      /\ \A i \in 1 .. Len(t) : v[i] = t[i]
  <2>1. /\ u \in Seq(S) /\ Len(u) = a + b /\ a \in Nat /\ b \in Nat
        /\ \A i \in 1 .. a + b : u[i] = IF i <= a THEN s[i] ELSE t[i - a]
    BY <1>1
  <2> HIDE DEF u, a, b
  <2>2. \A i \in a + 1 .. a + b : u[i] \in S
    BY <2>1, ElementOfSeq
  <2>3. /\ SubSeq(u, a + 1, a + b) \in Seq(S)
        /\ Len(SubSeq(u, a + 1, a + b)) = b
        /\ \A i \in 1 .. b : SubSeq(u, a + 1, a + b)[i] = u[a + i]
    <3>1. a + 1 \in Int /\ a + b \in Int
          /\ (IF a + 1 <= a + b THEN (a + b) - (a + 1) + 1 ELSE 0) = b
          /\ \A i \in 1 .. b : (a + 1) + i - 1 = a + i
      BY <2>1
    <3> QED  BY <2>2, <3>1, SubSeqProperties
  <2>4. \A i \in 1 .. b : u[a + i] = t[i]
    <3> SUFFICES ASSUME NEW i \in 1 .. b PROVE u[a + i] = t[i]
      OBVIOUS
    <3>1. a + i \in 1 .. a + b /\ ~(a + i <= a) /\ (a + i) - a = i
      BY <2>1
    <3> QED  BY <2>1, <3>1
  <2> QED  BY <2>1, <2>3, <2>4 DEF a, b
<1> HIDE DEF v
<1>3. v = t
  BY <1>1, <1>2, SeqEqual
<1> QED  BY <1>3 DEF v

\* New names start as the namespace does, and are apart where the old ones are:
\* what is private has a segment in it that no name starts with.
LEMMA NamesApart ==
    ASSUME NEW ns \in Dotted
    PROVE  /\ \A s \in Dotted : /\ Prefixed(ns, s) \in Dotted /\ Private(ns, s) \in Dotted
                                /\ Prefixed(ns, s)[1] = ns[1] /\ Private(ns, s)[1] = ns[1]
                                /\ Len(Prefixed(ns, s)) > 1 /\ Len(Private(ns, s)) > 1
           /\ \A s, t \in Dotted : /\ Prefixed(ns, s) = Prefixed(ns, t) => s = t
                                   /\ Private(ns, s) = Private(ns, t) => s = t
                                   /\ Private(ns, s) = Prefixed(ns, t) => t[1] = "__private"
<1> DEFINE mark == <<"__private">>
<1>1. mark \in Seq(Parts) /\ ns \in Seq(Parts) /\ Len(mark) = 1 /\ mark[1] = "__private"
      /\ Len(ns) \in Nat \ {0}
  <2>1. ns \in Seq(Parts) /\ Len(ns) \in Nat \ {0}
    BY EmptySeq, LenProperties DEF Dotted
  <2>2. mark \in Seq(Parts)
    BY PartsOK
  <2>3. Len(mark) = 1 /\ mark[1] = "__private"
    OBVIOUS
  <2> QED  BY <2>1, <2>2, <2>3
<1>2. ASSUME NEW s \in Dotted
      PROVE  /\ ns \o s \in Dotted /\ (ns \o s)[1] = ns[1]
             /\ Len(ns \o s) > 1 /\ Len(ns \o mark \o s) > 1
             /\ ns \o mark \in Seq(Parts) /\ ns \o mark \o s \in Dotted
             /\ (ns \o mark \o s)[1] = ns[1]
             /\ ns \o mark \o s = ns \o (mark \o s)
             /\ mark \o s \in Seq(Parts) /\ (mark \o s)[1] = "__private"
  <2> HIDE DEF mark
  <2>1. s \in Seq(Parts) /\ Len(s) \in Nat \ {0}
    BY DEF Dotted
  <2>2. /\ ns \o s \in Seq(Parts) /\ Len(ns \o s) = Len(ns) + Len(s) /\ (ns \o s)[1] = ns[1]
    BY <1>1, <2>1, ConcatProperties
  <2>3. mark \o s \in Seq(Parts) /\ Len(mark \o s) = 1 + Len(s) /\ (mark \o s)[1] = "__private"
    <3>1. /\ mark \o s \in Seq(Parts) /\ Len(mark \o s) = Len(mark) + Len(s)
          /\ \A i \in 1 .. Len(mark) + Len(s) :
                (mark \o s)[i] = IF i <= Len(mark) THEN mark[i] ELSE s[i - Len(mark)]
      BY <1>1, <2>1, ConcatProperties
    <3>2. 1 \in 1 .. Len(mark) + Len(s) /\ 1 <= Len(mark)
      BY <1>1, <2>1
    <3> QED  BY <1>1, <2>1, <3>1, <3>2
  <2>4. ns \o mark \o s = ns \o (mark \o s)
    BY <1>1, <2>1, ConcatAssociative, SMTT(30)
  <2>5. /\ ns \o (mark \o s) \in Seq(Parts) /\ Len(ns \o (mark \o s)) = Len(ns) + 1 + Len(s)
        /\ (ns \o (mark \o s))[1] = ns[1]
    <3> DEFINE u == mark \o s
    <3>1. u \in Seq(Parts) /\ Len(u) = 1 + Len(s)
      BY <2>3
    <3> HIDE DEF u
    <3>2. /\ ns \o u \in Seq(Parts) /\ Len(ns \o u) = Len(ns) + Len(u)
          /\ \A i \in 1 .. Len(ns) + Len(u) :
                (ns \o u)[i] = IF i <= Len(ns) THEN ns[i] ELSE u[i - Len(ns)]
      BY <1>1, <2>1, <3>1, ConcatProperties
    <3>3. 1 \in 1 .. Len(ns) + Len(u) /\ 1 <= Len(ns)
      BY <1>1, <2>1, <3>1
    <3> QED  BY <1>1, <2>1, <3>1, <3>2, <3>3 DEF u
  <2>6. ns \o mark \in Seq(Parts)
    BY <1>1, ConcatProperties
  <2>7. ns \o s # <<>> /\ ns \o (mark \o s) # <<>>
    BY <1>1, <2>1, <2>2, <2>5, EmptySeq
  <2>8. Len(ns) + Len(s) > 1 /\ Len(ns) + 1 + Len(s) > 1
    BY <1>1, <2>1
  <2> QED  BY <2>2, <2>3, <2>4, <2>5, <2>6, <2>7, <2>8 DEF Dotted
<1>3. ASSUME NEW s \in Dotted, NEW t \in Dotted
      PROVE  /\ Prefixed(ns, s) = Prefixed(ns, t) => s = t
             /\ Private(ns, s) = Private(ns, t) => s = t
             /\ Private(ns, s) = Prefixed(ns, t) => t[1] = "__private"
  <2>1. s \in Seq(Parts) /\ t \in Seq(Parts)
    BY DEF Dotted
  <2>2. /\ Prefixed(ns, s) = ns \o s /\ Prefixed(ns, t) = ns \o t
        /\ Private(ns, s) = ns \o (mark \o s) /\ Private(ns, t) = ns \o (mark \o t)
        /\ mark \o s \in Seq(Parts) /\ mark \o t \in Seq(Parts)
        /\ (mark \o s)[1] = "__private"
    BY <1>2 DEF Prefixed, Private
  <2> HIDE DEF mark
  <2>3. \A u, v \in Seq(Parts) : ns \o u = ns \o v => u = v
    BY <1>1, ConcatSimplifications
  <2>4. mark \o s = mark \o t => s = t
    BY <1>1, <2>1, ConcatSimplifications
  <2> QED  BY <2>1, <2>2, <2>3, <2>4
<1> QED  BY <1>2, <1>3 DEF Prefixed, Private

LEMMA RenamedApart ==
    ASSUME NEW exports, NEW ns \in Dotted, NEW section, NEW other
    PROVE  /\ \A s \in Dotted : /\ Renamed(exports, ns, section, s) \in Dotted
                                /\ Renamed(exports, ns, section, s)[1] = ns[1]
           /\ \A s, t \in Dotted :
                s[1] # "__private" /\ t[1] # "__private"
                /\ Renamed(exports, ns, section, s) = Renamed(exports, ns, other, t) => s = t
<1>1. \A s \in Dotted : /\ Renamed(exports, ns, section, s) \in Dotted
                        /\ Renamed(exports, ns, section, s)[1] = ns[1]
  BY NamesApart DEF Renamed
<1>2. ASSUME NEW s \in Dotted, NEW t \in Dotted, s[1] # "__private", t[1] # "__private",
             Renamed(exports, ns, section, s) = Renamed(exports, ns, other, t)
      PROVE  s = t
  <2>1. \/ Prefixed(ns, s) = Prefixed(ns, t) \/ Private(ns, s) = Private(ns, t)
        \/ Private(ns, s) = Prefixed(ns, t) \/ Private(ns, t) = Prefixed(ns, s)
    BY <1>2 DEF Renamed
  <2>2. /\ Prefixed(ns, s) = Prefixed(ns, t) => s = t
        /\ Private(ns, s) = Private(ns, t) => s = t
        /\ Private(ns, s) = Prefixed(ns, t) => t[1] = "__private"
        /\ Private(ns, t) = Prefixed(ns, s) => s[1] = "__private"
    BY NamesApart
  <2> QED  BY <1>2, <2>1, <2>2
<1> QED  BY <1>1, <1>2

-----------------------------------------------------------------------------
(***************************************************************************)
(* Mounting and merging keep names apart.                                  *)
(***************************************************************************)
\* What mounting makes of an element.
MovedFrom(exports, ns, e, m) ==
    /\ DOMAIN m = {"id", "section", "name", "top"}
    /\ m.section = e.section /\ m.id = Moved(ns, e.id)
    /\ m.top = Renamed(exports, ns, e.section, e.top)
    /\ m.name = m.top \o Rest(e)
    /\ m.name \in Dotted /\ m.top \in Dotted /\ m.top[1] = ns[1]
    /\ Rest(m) = Rest(e) /\ Rest(e) \in Seq(Parts)
    /\ e.name = e.top => m.name = m.top

LEMMA MovedElementFacts ==
    ASSUME NEW elements, Keyed(elements), NEW exports, NEW ns \in Dotted, ns[1] # "__private",
           NEW e \in elements
    PROVE  MovedFrom(exports, ns, e, MovedElement(exports, ns, e))
<1> DEFINE m == MovedElement(exports, ns, e)
           top == Renamed(exports, ns, e.section, e.top)
<1>1. /\ DOMAIN e = {"id", "section", "name", "top"}
      /\ e.name \in Dotted /\ e.top \in Dotted /\ e.name = e.top \o Rest(e)
  BY DEF Keyed, ElementsOK, Rest
<1>2. Rest(e) \in Seq(Parts)
  <2>1. /\ e.name \in Seq(Parts) /\ e.top \in Seq(Parts)
        /\ Len(e.name) \in Nat /\ Len(e.top) \in Nat
    BY <1>1, LenProperties DEF Dotted
  <2>2. \A i \in Len(e.top) + 1 .. Len(e.name) : e.name[i] \in Parts
    BY <2>1, ElementOfSeq
  <2>3. Len(e.top) + 1 \in Int /\ Len(e.name) \in Int
    BY <2>1
  <2> QED  BY <2>2, <2>3, SubSeqProperties DEF Rest
<1>3. /\ DOMAIN m = {"id", "section", "name", "top"}
      /\ m.section = e.section /\ m.id = Moved(ns, e.id) /\ m.top = top
      /\ m.name = top \o Rest(e)
  BY <1>1 DEF MovedElement, Rest
<1>4. top \in Dotted /\ top[1] = ns[1]
  BY <1>1, RenamedApart
<1> HIDE DEF m, top
<1>5. m.name \in Dotted
  <2>1. top \in Seq(Parts) /\ top # <<>>
    BY <1>4 DEF Dotted
  <2>2. top \o Rest(e) \in Seq(Parts)
    BY <1>2, <2>1, ConcatProperties
  <2>3. top \o Rest(e) # <<>>
    BY <1>2, <2>1, ConcatEqualIffEmpty
  <2> QED  BY <1>3, <2>2, <2>3 DEF Dotted
<1>6. Rest(m) = Rest(e)
  BY <1>2, <1>3, <1>4, SuffixOfConcat DEF Rest, Dotted
<1>7. e.name = e.top => m.name = m.top
  <2> SUFFICES ASSUME e.name = e.top PROVE m.name = m.top
    OBVIOUS
  <2>1. e.top \in Seq(Parts) /\ top \in Seq(Parts)
    BY <1>1, <1>4 DEF Dotted
  <2>2. Rest(e) = <<>>
    BY <1>1, <1>2, <2>1, ConcatEqualIffEmpty
  <2> QED  BY <1>3, <2>1, <2>2, ConcatEmptySeq
<1>8. MovedFrom(exports, ns, e, m)
  BY <1>2, <1>3, <1>4, <1>5, <1>6, <1>7 DEF top, MovedFrom
<1> QED  BY <1>8 DEF m

LEMMA MountedKeyed ==
    ASSUME NEW elements, Keyed(elements), NEW exports, NEW ns \in Dotted, ns[1] # "__private"
    PROVE  Keyed({MovedElement(exports, ns, e) : e \in elements})
<1> DEFINE moved == {MovedElement(exports, ns, e) : e \in elements}
<1>1. \A e \in elements : /\ MovedElement(exports, ns, e) \in moved
                          /\ MovedFrom(exports, ns, e, MovedElement(exports, ns, e))
  BY MovedElementFacts
<1>2. \A m \in moved : \E e \in elements : MovedFrom(exports, ns, e, m)
  BY <1>1
<1>3. ASSUME NEW m \in moved
      PROVE  /\ DOMAIN m = {"id", "section", "name", "top"} /\ m.section \in ToSet(Sections)
             /\ m.name \in Dotted /\ m.top \in Dotted /\ m.top[1] # "__private"
             /\ m.name = m.top \o Rest(m)
             /\ m.section # "entities" => m.name = m.top
             /\ \E a \in moved : a.section = m.section /\ a.top = m.top /\ a.name = m.top
  <2>1. PICK e \in elements : MovedFrom(exports, ns, e, m)
    BY <1>2
  <2>2. /\ e.section \in ToSet(Sections)
        /\ e.section # "entities" => e.name = e.top
        /\ \E a \in elements : a.section = e.section /\ a.top = e.top /\ a.name = e.top
    BY DEF Keyed, ElementsOK
  <2>3. PICK a \in elements : a.section = e.section /\ a.top = e.top /\ a.name = e.top
    BY <2>2
  <2>4. PICK b \in moved : MovedFrom(exports, ns, a, b)
    BY <1>1
  <2>5. b.section = m.section /\ b.top = m.top /\ b.name = m.top
    BY <2>1, <2>3, <2>4 DEF MovedFrom
  <2>6. /\ DOMAIN m = {"id", "section", "name", "top"} /\ m.section = e.section
        /\ m.name \in Dotted /\ m.top \in Dotted /\ m.top[1] = ns[1]
        /\ m.name = m.top \o Rest(m)
        /\ e.name = e.top => m.name = m.top
    BY <2>1 DEF MovedFrom
  <2> HIDE DEF moved
  <2> QED  BY <2>2, <2>5, <2>6
<1>4. ASSUME NEW m \in moved, NEW n \in moved,
             m.section = n.section, m.top = n.top, m.name = n.name
      PROVE  m.id = n.id
  <2>1. PICK e \in elements : MovedFrom(exports, ns, e, m)
    BY <1>2
  <2>2. PICK f \in elements : MovedFrom(exports, ns, f, n)
    BY <1>2
  <2>3. /\ m.section = e.section /\ m.id = Moved(ns, e.id)
        /\ m.top = Renamed(exports, ns, e.section, e.top) /\ Rest(m) = Rest(e)
        /\ n.section = f.section /\ n.id = Moved(ns, f.id)
        /\ n.top = Renamed(exports, ns, f.section, f.top) /\ Rest(n) = Rest(f)
    BY <2>1, <2>2 DEF MovedFrom
  <2>4. Rest(e) = Rest(f)
    BY <1>4, <2>3 DEF Rest
  <2>5. /\ e.top \in Dotted /\ e.top[1] # "__private" /\ e.name = e.top \o Rest(e)
        /\ f.top \in Dotted /\ f.top[1] # "__private" /\ f.name = f.top \o Rest(f)
    BY DEF Keyed, ElementsOK, Rest
  <2>6. e.top = f.top
    <3>1. Renamed(exports, ns, e.section, e.top) = Renamed(exports, ns, f.section, f.top)
      BY <1>4, <2>3
    <3>2. \A s, t \in Dotted :
            s[1] # "__private" /\ t[1] # "__private"
            /\ Renamed(exports, ns, e.section, s) = Renamed(exports, ns, f.section, t) => s = t
      BY RenamedApart
    <3> QED  BY <2>5, <3>1, <3>2
  <2>7. e.id = f.id
    <3>1. e.section = f.section /\ e.name = f.name
      BY <1>4, <2>3, <2>4, <2>5, <2>6
    <3> QED  BY <2>6, <3>1 DEF Keyed, ElementsOK
  <2> QED  BY <2>3, <2>7
<1> HIDE DEF moved
<1>5. Keyed(moved)
  BY <1>3, <1>4 DEF Keyed, ElementsOK, Rest
<1> QED  BY <1>5 DEF moved

LEMMA MergedKeyed ==
    ASSUME NEW A, Keyed(A), NEW B, Keyed(B), Keys(A) \cap Keys(B) = {}
    PROVE  Keyed(A \cup B)
<1>1. ASSUME NEW e \in A, NEW f \in B PROVE ~(e.section = f.section /\ e.top = f.top)
  BY DEF Keys
<1>2. \A e, f \in A \cup B :
         e.section = f.section /\ e.top = f.top /\ e.name = f.name => e.id = f.id
  BY <1>1 DEF Keyed, ElementsOK
<1>3. \A e \in A \cup B :
        \E a \in A \cup B : a.section = e.section /\ a.top = e.top /\ a.name = e.top
  BY DEF Keyed, ElementsOK
<1> QED  BY <1>2, <1>3 DEF Keyed, ElementsOK
-----------------------------------------------------------------------------
(***************************************************************************)
(* Expansion.                                                              *)
(***************************************************************************)
\* What a module is expanded from.
LEMMA FrameFromFile ==
    ASSUME files \in FileSystems, Unreserved(files), NEW file \in DOMAIN files, NEW ns
    PROVE  FrameOK(files, Frame(file, ns))
<1>1. FileOK(files, file)
  BY FilesOK
<1>2. Keyed(files[file].elements)
  BY <1>1 DEF FileOK, Keyed, Unreserved
<1>3. /\ files[file].imports \in Seq([file : DOMAIN files, ns : Dotted])
      /\ \A i \in DOMAIN files[file].imports : files[file].imports[i].ns[1] # "__private"
  BY <1>1 DEF FileOK, Unreserved
<1>4. \A r \in files[file].refs : DOMAIN r = {"owner", "field", "section", "to", "meant"}
  BY <1>1 DEF FileOK
<1> QED  BY <1>2, <1>3, <1>4 DEF FrameOK, Frame, Scenario

\* Where the scenario of a module that is being expanded may come from: the state
\* before, its file, or the merge of what was mounted in it.
Derived(frame) ==
    \/ \E i \in DOMAIN stack : frame.file = stack[i].file /\ frame.scenario = stack[i].scenario
    \/ frame.file \in DOMAIN files /\ frame.scenario = Scenario(files[frame.file])
    \/ /\ Len(stack) > 1 /\ Len(stack) - 1 \in DOMAIN stack
       /\ frame.file = stack[Len(stack) - 1].file
       /\ ~Collides(stack[Len(stack) - 1].scenario, Mounted(Top))
       /\ frame.scenario = [k \in DOMAIN stack[Len(stack) - 1].scenario |->
                                stack[Len(stack) - 1].scenario[k] \cup Mounted(Top)[k]]

LEMMA StackFromFrames ==
    ASSUME NEW fs, NEW U, NEW s \in Seq(U), s # <<>>,
           \A i \in 1 .. Len(s) : FrameOK(fs, s[i]),
           \A i \in 1 .. Len(s) : i > 1 => s[i].ns \in Dotted /\ s[i].ns[1] # "__private"
    PROVE  StackOK(fs, s)
<1>1. DOMAIN s = 1 .. Len(s) /\ Len(s) \in Nat /\ s = [i \in 1 .. Len(s) |-> s[i]]
  BY LenProperties
<1>2. \A i \in 1 .. Len(s) : s[i] \in ToSet(s)
  BY <1>1 DEF ToSet
<1>3. [i \in 1 .. Len(s) |-> s[i]] \in Seq(ToSet(s))
  BY <1>1, <1>2, IsASeq
<1> QED  BY <1>1, <1>3 DEF StackOK

LEMMA OpenKeeps ==
    ASSUME Inv, Unreserved(files), Open
    PROVE  StackOK(files, stack') /\ \A i \in DOMAIN stack' : Derived(stack'[i])
<1> DEFINE n == Len(stack)
           import == Head(Top.todo)
           rest == [Top EXCEPT !.todo = Tail(@)]
           new == Frame(import.file, import.ns)
           U == ToSet(stack) \cup {rest, new}
<1>1. /\ stack \in Seq(ToSet(stack)) /\ stack # <<>> /\ files \in FileSystems
      /\ n \in Nat \ {0} /\ DOMAIN stack = 1 .. n
      /\ \A i \in 1 .. n : FrameOK(files, stack[i])
      /\ \A i \in 1 .. n : i > 1 => stack[i].ns \in Dotted /\ stack[i].ns[1] # "__private"
  BY EmptySeq, LenProperties DEF Inv, StackOK
<1>2. CASE stack' = stack
  BY <1>2 DEF Inv, Derived
<1>3. CASE stack' = Append([stack EXCEPT ![n] = rest], new)
  <2>1. FrameOK(files, Top) /\ Top.todo # <<>>
    BY <1>1 DEF Top, Open
  <2>2. /\ import \in [file : DOMAIN files, ns : Dotted] /\ import.ns[1] # "__private"
    <3>1. /\ Top.todo \in Seq([file : DOMAIN files, ns : Dotted]) /\ Top.todo # <<>>
          /\ \A i \in DOMAIN Top.todo : Top.todo[i].ns[1] # "__private"
      BY <2>1 DEF FrameOK
    <3>2. 1 \in DOMAIN Top.todo
      BY <3>1, EmptySeq, LenProperties
    <3>3. import = Top.todo[1] /\ import \in [file : DOMAIN files, ns : Dotted]
      <4>1. import \in [file : DOMAIN files, ns : Dotted]
        BY <3>1, HeadTailProperties
      <4>2. import = Top.todo[1]
        BY SMTT(30)
      <4> QED  BY <4>1, <4>2
    <3> QED  BY <3>1, <3>2, <3>3
  <2>3. FrameOK(files, new) /\ new.ns = import.ns /\ Derived(new)
    BY <1>1, <2>2, FrameFromFile DEF Frame, Derived
  <2>4. FrameOK(files, rest) /\ rest.ns = Top.ns /\ Derived(rest)
    <3>1. /\ Tail(Top.todo) \in Seq([file : DOMAIN files, ns : Dotted])
          /\ \A i \in DOMAIN Tail(Top.todo) : Tail(Top.todo)[i].ns[1] # "__private"
      BY <2>1, HeadTailProperties, LenProperties DEF FrameOK
    <3>2. /\ rest = [file |-> Top.file, ns |-> Top.ns, todo |-> Tail(Top.todo),
                     scenario |-> Top.scenario]
      <4>1. Top = [file |-> Top.file, ns |-> Top.ns, todo |-> Top.todo,
                   scenario |-> Top.scenario]
        BY <2>1 DEF FrameOK
      <4> DEFINE tail == Tail(Top.todo)
      <4> HIDE DEF tail
      <4>2. rest = [Top EXCEPT !.todo = tail]
        BY DEF tail
      <4>3. [Top EXCEPT !.todo = tail] = [file |-> Top.file, ns |-> Top.ns, todo |-> tail,
                                          scenario |-> Top.scenario]
        BY <4>1
      <4> QED  BY <4>2, <4>3 DEF tail
    <3>3. Derived(rest)
      BY <1>1, <3>2 DEF Derived, Top
    <3> QED  BY <2>1, <3>1, <3>2, <3>3 DEF FrameOK
  <2> DEFINE u == [stack EXCEPT ![n] = rest]
             v == Append(u, new)
  <2> HIDE DEF rest, new
  <2>5. stack \in Seq(U) /\ rest \in U /\ new \in U
    BY <1>1, SeqMonotonic
  <2> HIDE DEF U, n
  <2>6. /\ u \in Seq(U) /\ Len(u) = n
        /\ \A i \in 1 .. n : u[i] = IF i = n THEN rest ELSE stack[i]
    BY <1>1, <2>5, ExceptSeq
  <2> HIDE DEF u
  <2>7. /\ v \in Seq(U) /\ v # <<>> /\ Len(v) = n + 1
        /\ \A i \in 1 .. n : v[i] = u[i]
        /\ v[n + 1] = new
    BY <2>5, <2>6, AppendProperties
  <2> HIDE DEF v
  <2>8. /\ n \in Nat \ {0}
        /\ \A i \in 1 .. n : FrameOK(files, stack[i])
        /\ \A i \in 1 .. n : i > 1 => stack[i].ns \in Dotted /\ stack[i].ns[1] # "__private"
        /\ Top = stack[n]
        /\ \A i \in 1 .. n : Derived(stack[i])
    BY <1>1 DEF Top, Derived, n
  <2>9. ASSUME NEW i \in 1 .. Len(v)
        PROVE  /\ FrameOK(files, v[i]) /\ Derived(v[i])
               /\ i > 1 => v[i].ns \in Dotted /\ v[i].ns[1] # "__private"
    <3>1. CASE i = n + 1
      <4>1. v[i] = new
        BY <2>7, <3>1
      <4> QED  BY <2>2, <2>3, <4>1 DEF Dotted
    <3>2. CASE i = n
      <4>1. v[i] = rest
        BY <2>6, <2>7, <2>8, <3>2
      <4> QED  BY <2>4, <2>8, <3>2, <4>1
    <3>3. CASE i \in 1 .. n /\ i # n
      <4>1. v[i] = stack[i]
        BY <2>6, <2>7, <3>3
      <4> QED  BY <2>8, <3>3, <4>1
    <3>4. i \in 1 .. n + 1
      BY <2>7
    <3> QED  BY <2>8, <3>1, <3>2, <3>3, <3>4
  <2>11. StackOK(files, v)
    BY <2>7, <2>9, StackFromFrames
  <2>12. \A i \in DOMAIN v : Derived(v[i])
    BY <2>7, <2>9, LenProperties
  <2> QED  BY <1>3, <2>11, <2>12 DEF u, v
<1> QED  BY <1>2, <1>3 DEF Open, Top

LEMMA MountedRefs ==
    ASSUME NEW frame,
           \A r \in frame.scenario.refs :
               DOMAIN r = {"owner", "field", "section", "to", "meant"}
    PROVE  \A r \in Mounted(frame).refs :
               DOMAIN r = {"owner", "field", "section", "to", "meant"}
BY DEF Mounted, Rewritten

LEMMA MountKeeps ==
    ASSUME Inv, Mount
    PROVE  StackOK(files, stack') /\ \A i \in DOMAIN stack' : Derived(stack'[i])
<1> DEFINE n == Len(stack)
           into == stack[n - 1].scenario
           from == Mounted(Top)
           merged == [k \in DOMAIN into |-> into[k] \cup from[k]]
           below == SubSeq(stack, 1, n - 1)
           frame == [stack[n - 1] EXCEPT !.scenario = merged]
           U == ToSet(stack) \cup {frame}
<1>1. /\ stack \in Seq(ToSet(stack)) /\ stack # <<>> /\ files \in FileSystems
      /\ n \in Nat \ {0} /\ DOMAIN stack = 1 .. n
      /\ \A i \in 1 .. n : FrameOK(files, stack[i])
      /\ \A i \in 1 .. n : i > 1 => stack[i].ns \in Dotted /\ stack[i].ns[1] # "__private"
  BY EmptySeq, LenProperties DEF Inv, StackOK
<1>2. n > 1
  BY DEF Mount
<1>3. CASE stack' = stack
  BY <1>3 DEF Inv, Derived
<1>4. CASE /\ stack' = [below EXCEPT ![n - 1].scenario = merged]
           /\ ~Collides(into, from)
  <2>1. FrameOK(files, Top) /\ Top.ns \in Dotted /\ Top.ns[1] # "__private"
    BY <1>1, <1>2 DEF Top
  <2>2. FrameOK(files, stack[n - 1])
    BY <1>1, <1>2
  <2>3. Keyed(from.elements)
    <3>1. Keyed(Top.scenario.elements)
      BY <2>1 DEF FrameOK
    <3> QED  BY <2>1, <3>1, MountedKeyed DEF Mounted
  <2>4. Keyed(into.elements \cup from.elements)
    <3>1. Keyed(into.elements)
      BY <2>2 DEF FrameOK
    <3>2. Keys(into.elements) \cap Keys(from.elements) = {}
      BY <1>4 DEF Collides
    <3> HIDE DEF from, into
    <3> QED  BY <2>3, <3>1, <3>2, MergedKeyed
  <2>5. /\ DOMAIN merged = {"elements", "refs", "specs", "uses"} /\ Keyed(merged.elements)
        /\ \A r \in merged.refs : DOMAIN r = {"owner", "field", "section", "to", "meant"}
    <3>1. DOMAIN into = {"elements", "refs", "specs", "uses"}
      BY <2>2 DEF FrameOK
    <3> HIDE DEF from, into
    <3>2. DOMAIN merged = {"elements", "refs", "specs", "uses"}
          /\ merged.elements = into.elements \cup from.elements
          /\ merged.refs = into.refs \cup from.refs
      BY <3>1
    <3>3. /\ \A r \in into.refs : DOMAIN r = {"owner", "field", "section", "to", "meant"}
          /\ \A r \in from.refs : DOMAIN r = {"owner", "field", "section", "to", "meant"}
      BY <2>1, <2>2, MountedRefs DEF FrameOK, from, into
    <3> QED  BY <2>4, <3>2, <3>3
  <2> HIDE DEF merged
  <2>6. FrameOK(files, frame) /\ frame.ns = stack[n - 1].ns /\ Derived(frame)
    <3>1. frame = [file |-> stack[n - 1].file, ns |-> stack[n - 1].ns,
                   todo |-> stack[n - 1].todo, scenario |-> merged]
      BY <2>2 DEF FrameOK
    <3>2. Derived(frame)
      BY <1>1, <1>2, <1>4, <3>1 DEF Derived, merged
    <3> QED  BY <2>2, <2>5, <3>1, <3>2 DEF FrameOK
  <2> HIDE DEF frame
  <2>7. stack \in Seq(U) /\ frame \in U
    BY <1>1, SeqMonotonic
  <2> HIDE DEF U
  <2>8. /\ below \in Seq(U) /\ Len(below) = n - 1
        /\ \A i \in 1 .. n - 1 : below[i] = stack[i]
    <3>1. \A i \in 1 .. n - 1 : stack[i] \in U
      BY <1>1, <2>7, ElementOfSeq
    <3>2. 1 \in Int /\ n - 1 \in Int /\ 1 <= n - 1 /\ (n - 1) - 1 + 1 = n - 1
          /\ \A i \in 1 .. n - 1 : 1 + i - 1 = i
      BY <1>1, <1>2
    <3> QED  BY <3>1, <3>2, SubSeqProperties
  <2> DEFINE v == [below EXCEPT ![n - 1] = frame]
  <2>9. /\ v \in Seq(U) /\ Len(v) = n - 1
        /\ \A i \in 1 .. n - 1 : v[i] = IF i = n - 1 THEN frame ELSE stack[i]
    <3> HIDE DEF below
    <3>1. n - 1 \in 1 .. Len(below)
      BY <1>1, <1>2, <2>8
    <3> QED  BY <2>7, <2>8, <3>1, ExceptSeq
  <2>10. stack' = v
    <3>1. below[n - 1] = stack[n - 1]
      BY <1>1, <1>2, <2>8
    <3> HIDE DEF below
    <3> QED  BY <1>4, <3>1 DEF frame
  <2>11. /\ n \in Nat /\ n > 1
         /\ \A i \in 1 .. n : FrameOK(files, stack[i])
         /\ \A i \in 1 .. n : i > 1 => stack[i].ns \in Dotted /\ stack[i].ns[1] # "__private"
         /\ \A i \in 1 .. n : Derived(stack[i])
    BY <1>1, <1>2 DEF Derived
  <2> HIDE DEF v, n
  <2>12. v # <<>>
    BY <2>9, <2>11, EmptySeq
  <2>13. ASSUME NEW i \in 1 .. Len(v)
         PROVE  /\ FrameOK(files, v[i]) /\ Derived(v[i])
                /\ i > 1 => v[i].ns \in Dotted /\ v[i].ns[1] # "__private"
    <3>1. CASE i = n - 1
      BY <2>6, <2>9, <2>11, <3>1
    <3>2. CASE i # n - 1
      <4>1. v[i] = stack[i] /\ i \in 1 .. n
        BY <2>9, <2>11, <3>2
      <4> QED  BY <2>11, <4>1
    <3> QED  BY <3>1, <3>2
  <2>14. \A i \in DOMAIN v : Derived(v[i])
    BY <2>9, <2>13, LenProperties
  <2> QED  BY <2>9, <2>10, <2>12, <2>13, <2>14, StackFromFrames
<1> QED  BY <1>3, <1>4 DEF Mount

-----------------------------------------------------------------------------
(***************************************************************************)
(* What is mounted means what it meant.                                    *)
(***************************************************************************)
\* Where elements of one name are exported together, one new name stands for all
\* of them, and for what nests in them.
LEMMA MovedName ==
    ASSUME NEW scenario, Keyed(scenario.elements), NEW exports, Consistent(scenario, exports),
           NEW ns \in Dotted, ns[1] # "__private", NEW e \in scenario.elements
    PROVE  /\ MovedElement(exports, ns, e).name = Renamed(exports, ns, e.section, e.name)
           /\ e.name \in Dotted /\ e.name[1] # "__private"
<1> DEFINE m == MovedElement(exports, ns, e)
           mark == <<"__private">>
<1>1. /\ e.name \in Dotted /\ e.top \in Dotted /\ e.top[1] # "__private"
      /\ e.name = e.top \o Rest(e)
      /\ e.section # "entities" => e.name = e.top
  BY DEF Keyed, ElementsOK, Rest
<1>2. PICK a \in scenario.elements : a.section = e.section /\ a.top = e.top /\ a.name = e.top
  BY DEF Keyed, ElementsOK
<1>3. MovedFrom(exports, ns, e, m)
  BY MovedElementFacts
<1>4. /\ e.top \in Seq(Parts) /\ Rest(e) \in Seq(Parts) /\ ns \in Seq(Parts)
      /\ mark \in Seq(Parts) /\ e.top # <<>>
  <2>1. mark \in Seq(Parts)
    BY PartsOK
  <2> QED  BY <1>1, <1>3, <2>1 DEF Dotted, MovedFrom
<1>5. [section |-> e.section, name |-> e.name] \in exports
      <=> [section |-> e.section, name |-> e.top] \in exports
  BY <1>1, <1>2 DEF Consistent
<1> HIDE DEF m, mark
<1>6. m.name = Renamed(exports, ns, e.section, e.top) \o Rest(e)
  BY <1>3 DEF MovedFrom
<1>7. Renamed(exports, ns, e.section, e.top) \o Rest(e) = Renamed(exports, ns, e.section, e.name)
  <2>1. \A s, t, u \in Seq(Parts) : (s \o t) \o u = s \o (t \o u)
    BY ConcatAssociative
  <2>2. ns \o mark \in Seq(Parts)
    BY <1>4, ConcatProperties
  <2> DEFINE t == e.top
             u == Rest(e)
  <2>3. t \in Seq(Parts) /\ u \in Seq(Parts) /\ e.name = t \o u
    BY <1>1, <1>4
  <2> HIDE DEF t, u
  <2>4. (ns \o t) \o u = ns \o e.name
    <3>1. (ns \o t) \o u = ns \o (t \o u)
      BY <1>4, <2>1, <2>3
    <3> QED  BY <2>3, <3>1, Zenon
  <2>5. ((ns \o mark) \o t) \o u = (ns \o mark) \o e.name
    <3>1. ((ns \o mark) \o t) \o u = (ns \o mark) \o (t \o u)
      BY <2>1, <2>2, <2>3
    <3> QED  BY <2>3, <3>1, Zenon
  <2> QED  BY <1>5, <2>4, <2>5 DEF Renamed, Prefixed, Private, mark, t, u
<1>8. e.name[1] # "__private"
  <2> DEFINE u == e.top
             v == Rest(e)
  <2>1. u \in Seq(Parts) /\ v \in Seq(Parts) /\ u # <<>>
    BY <1>4
  <2>2. e.name = u \o v /\ u[1] # "__private"
    BY <1>1
  <2> HIDE DEF u, v
  <2>3. /\ Len(u) \in Nat \ {0} /\ Len(v) \in Nat
        /\ \A i \in 1 .. Len(u) + Len(v) :
              (u \o v)[i] = IF i <= Len(u) THEN u[i] ELSE v[i - Len(u)]
    BY <2>1, ConcatProperties, EmptySeq, LenProperties
  <2>4. 1 \in 1 .. Len(u) + Len(v) /\ 1 <= Len(u)
    BY <2>3
  <2> QED  BY <2>2, <2>3, <2>4
<1> QED  BY <1>1, <1>6, <1>7, <1>8 DEF m

\* The last writer of an alias is a section that has the name.
LEMMA LastWriterHas ==
    ASSUME NEW having \in SUBSET ToSet(Sections), having # {}
    PROVE  LastWriter(having) \in having
<1>1. DOMAIN Sections = 1 .. 20 /\ Len(Sections) = 20
  BY DEF Sections
<1>2. \A s \in having : Rank(s) \in 1 .. 21
  <2> SUFFICES ASSUME NEW s \in having PROVE Rank(s) \in 1 .. 21
    OBVIOUS
  <2>1. \E i \in DOMAIN Sections : Sections[i] = s
    BY DEF ToSet
  <2>2. PICK i \in DOMAIN Sections : i = CHOOSE j \in DOMAIN Sections : Sections[j] = s
    BY <2>1
  <2>3. Rank(s) = IF s = "entities" THEN 21 ELSE i
    BY <1>1, <2>2 DEF Rank
  <2>4. i \in 1 .. 20
    BY <1>1, <2>2
  <2> QED  BY <2>3, <2>4, SMTT(30)
<1> DEFINE ranks == {Rank(s) : s \in having}
<1>3. \E r \in ranks : \A q \in ranks : q <= r
  <2>1. ranks \subseteq 1 .. 21 /\ ranks # {}
    BY <1>2
  <2>2. IsFiniteSet(1 .. 21)
    <3>1. 1 \in Int /\ 21 \in Int
      OBVIOUS
    <3> QED  BY <3>1, FS_Interval
  <2>3. IsFiniteSet(ranks) /\ ranks \in SUBSET Int
    BY <2>1, <2>2, FS_Subset
  <2> HIDE DEF ranks
  <2> QED  BY <2>1, <2>3, GreatestExists
<1>4. \E s \in having : \A t \in having : Rank(t) <= Rank(s)
  BY <1>3
<1> QED  BY <1>4 DEF LastWriter

RewrittenTo(scenario, exports, ns, ref, to) ==
    Rewritten(scenario, exports, ns, ref) = [ref EXCEPT !.to = to]

\* Elements of a name that is rewritten: it is that of every section that has it.
LEMMA RewrittenName ==
    ASSUME NEW scenario, Keyed(scenario.elements), NEW exports, Consistent(scenario, exports),
           NEW ns, NEW ref, ref.field # "acl.networks",
           NEW e \in scenario.elements, e.name = ref.to, e.section \in Looks(ref.field),
           ref.section # "" => ref.field \in Qualifiable /\ e.section = ref.section
    PROVE  RewrittenTo(scenario, exports, ns, ref, Renamed(exports, ns, e.section, ref.to))
<1> DEFINE having == {f.section : f \in {f \in scenario.elements : f.name = ref.to}}
           by == RewrittenBy(scenario, ref)
<1>1. e.section \in having /\ having \in SUBSET ToSet(Sections)
  BY DEF Keyed, ElementsOK
<1>2. \A t \in having : \E f \in scenario.elements : f.section = t /\ f.name = ref.to
  OBVIOUS
<1> HIDE DEF having
<1>3. Qualifiable \subseteq NamedFields
  BY DEF Qualifiable, NamedFields
<1>4. /\ ref.field \in NamedFields /\ ref.section # "" => by = {ref.section} \cap having
      /\ ref.field \in NamedFields /\ ref.section = "" => by = {LastWriter(having)}
      /\ ref.field \notin NamedFields => by = Looks(ref.field) \cap having
  BY <1>1, <1>3 DEF RewrittenBy, having
<1>5. by # {} /\ by \subseteq having
  BY <1>1, <1>3, <1>4, LastWriterHas
<1> HIDE DEF by
<1> DEFINE s == CHOOSE t \in by : TRUE
<1>6. s \in having
  BY <1>5
<1> HIDE DEF s
<1>7. PICK f \in scenario.elements : f.section = s /\ f.name = ref.to
  BY <1>2, <1>6
<1>8. [section |-> s, name |-> ref.to] \in exports
      <=> [section |-> e.section, name |-> ref.to] \in exports
  BY <1>7 DEF Consistent
<1>9. Renamed(exports, ns, s, ref.to) = Renamed(exports, ns, e.section, ref.to)
  BY <1>8 DEF Renamed
<1> QED  BY <1>5, <1>9 DEF s, by, Rewritten, RewrittenTo

\* A reference in the module that is mounted.
LEMMA MountedDenotes ==
    ASSUME NEW frame, Keyed(frame.scenario.elements), Tame(frame),
           NEW ref \in frame.scenario.refs,
           DOMAIN ref = {"owner", "field", "section", "to", "meant"},
           frame.ns \in Dotted, frame.ns[1] # "__private",
           Denotes(frame.scenario, ref) = {ref.meant}
    PROVE  LET moved == [Rewritten(frame.scenario, Exports(files[frame.file]), frame.ns, ref)
                            EXCEPT !.owner = Moved(frame.ns, @), !.meant = Moved(frame.ns, @)]
           IN  Denotes(Mounted(frame), moved) = {moved.meant}
<1> DEFINE scenario == frame.scenario
           exports == Exports(files[frame.file])
           ns == frame.ns
           moved == [Rewritten(scenario, exports, ns, ref)
                        EXCEPT !.owner = Moved(ns, @), !.meant = Moved(ns, @)]
           Fitting(e) == /\ e.section \in Looks(ref.field)
                      /\ IF ref.section # ""
                         THEN ref.field \in Qualifiable /\ e.section = ref.section
                         ELSE ref.field \in BareMeansNode => e.section # "infrastructure"
           M(e) == MovedElement(exports, ns, e)
<1>1. /\ Keyed(scenario.elements) /\ Consistent(scenario, exports)
      /\ ref.field # "acl.networks" /\ ns \in Dotted /\ ns[1] # "__private"
  BY DEF Tame, NoAcls
<1>2. Denotes(scenario, ref) = {e.id : e \in {e \in scenario.elements : e.name = ref.to /\ Fitting(e)}}
  BY DEF Denotes
<1>3. PICK e0 \in scenario.elements : e0.name = ref.to /\ Fitting(e0) /\ e0.id = ref.meant
  BY <1>2
<1>4. Mounted(frame).elements = {M(e) : e \in scenario.elements}
  BY DEF Mounted
<1> DEFINE to == Renamed(exports, ns, e0.section, ref.to)
<1>5. /\ moved.field = ref.field /\ moved.section = ref.section
      /\ moved.meant = Moved(ns, ref.meant) /\ moved.to = to
  <2>1. RewrittenTo(scenario, exports, ns, ref, to)
    <3>1. /\ e0.section \in Looks(ref.field)
          /\ ref.section # "" => ref.field \in Qualifiable /\ e0.section = ref.section
      BY <1>3
    <3> HIDE DEF Fitting, exports, ns, moved
    <3> QED  BY <1>1, <1>3, <3>1, RewrittenName
  <2> HIDE DEF to
  <2>2. Rewritten(scenario, exports, ns, ref) = [ref EXCEPT !.to = to]
    BY <2>1 DEF RewrittenTo
  <2> HIDE DEF scenario, exports, ns
  <2> QED  BY <2>2
<1>6. \A e \in scenario.elements : e.name = ref.to <=> M(e).name = to
  <2> SUFFICES ASSUME NEW e \in scenario.elements PROVE e.name = ref.to <=> M(e).name = to
    OBVIOUS
  <2>1. /\ M(e).name = Renamed(exports, ns, e.section, e.name)
        /\ e.name \in Dotted /\ e.name[1] # "__private"
    BY <1>1, MovedName
  <2>2. e0.name \in Dotted /\ e0.name[1] # "__private"
    BY <1>1, MovedName
  <2>3. CASE e.name = ref.to
    <3>1. [section |-> e.section, name |-> e.name] \in exports
          <=> [section |-> e0.section, name |-> e.name] \in exports
      BY <1>1, <1>3, <2>3 DEF Consistent
    <3> QED  BY <2>1, <2>3, <3>1 DEF Renamed
  <2>4. CASE M(e).name = to
    <3>1. Renamed(exports, ns, e.section, e.name) = Renamed(exports, ns, e0.section, e0.name)
      BY <1>3, <2>1, <2>4
    <3>2. \A s, t \in Dotted :
            s[1] # "__private" /\ t[1] # "__private"
            /\ Renamed(exports, ns, e.section, s) = Renamed(exports, ns, e0.section, t) => s = t
      BY <1>1, RenamedApart
    <3> QED  BY <1>3, <2>1, <2>2, <3>1, <3>2
  <2> QED  BY <2>3, <2>4
<1>7. \A e \in scenario.elements : M(e).section = e.section /\ M(e).id = Moved(ns, e.id)
  <2> SUFFICES ASSUME NEW e \in scenario.elements
               PROVE  M(e).section = e.section /\ M(e).id = Moved(ns, e.id)
    OBVIOUS
  <2>1. MovedFrom(exports, ns, e, M(e))
    BY <1>1, MovedElementFacts
  <2> QED  BY <2>1 DEF MovedFrom
<1>8. Denotes(Mounted(frame), moved) =
         {m.id : m \in {m \in Mounted(frame).elements : m.name = to /\ Fitting(m)}}
  <2> HIDE DEF moved, to
  <2> QED  BY <1>5 DEF Denotes
<1> HIDE DEF moved, to, M
<1>9. \A e \in scenario.elements : Fitting(M(e)) <=> Fitting(e)
  BY <1>7
<1> HIDE DEF Fitting
<1>10. {m.id : m \in {m \in Mounted(frame).elements : m.name = to /\ Fitting(m)}}
          = {Moved(ns, e.id) : e \in {e \in scenario.elements : e.name = ref.to /\ Fitting(e)}}
  BY <1>4, <1>6, <1>7, <1>9
<1>11. \A e \in scenario.elements : e.name = ref.to /\ Fitting(e) => e.id = ref.meant
  BY <1>2
<1>12. {Moved(ns, e.id) : e \in {e \in scenario.elements : e.name = ref.to /\ Fitting(e)}}
          = {Moved(ns, ref.meant)}
  BY <1>3, <1>11
<1> QED  BY <1>5, <1>8, <1>10, <1>12 DEF moved

LEMMA MountedSurvives ==
    ASSUME Inv, outcome = "open", Len(stack) > 1, Top.todo = <<>>, Tame(Top),
           \A r \in Top.scenario.refs : Denotes(Top.scenario, r) = {r.meant}
    PROVE  \A r \in Mounted(Top).refs : Denotes(Mounted(Top), r) = {r.meant}
<1>1. Len(stack) \in Nat /\ DOMAIN stack = 1 .. Len(stack)
  BY LenProperties DEF Inv, StackOK
<1>2. FrameOK(files, Top) /\ Top.ns \in Dotted /\ Top.ns[1] # "__private"
  BY <1>1 DEF Inv, StackOK, Top
<1>3. /\ Keyed(Top.scenario.elements)
      /\ \A r \in Top.scenario.refs : DOMAIN r = {"owner", "field", "section", "to", "meant"}
  BY <1>2 DEF FrameOK
<1> SUFFICES ASSUME NEW m \in Mounted(Top).refs PROVE Denotes(Mounted(Top), m) = {m.meant}
  OBVIOUS
<1>4. PICK r \in Top.scenario.refs :
         m = [Rewritten(Top.scenario, Exports(files[Top.file]), Top.ns, r)
                EXCEPT !.owner = Moved(Top.ns, @), !.meant = Moved(Top.ns, @)]
  BY DEF Mounted
<1> QED  BY <1>2, <1>3, <1>4, MountedDenotes

-----------------------------------------------------------------------------
(***************************************************************************)
(* Where values come from.                                                 *)
(***************************************************************************)
\* The variables of what was imported have names of their own, of several parts.
SpecsOK(specs) ==
    /\ \A v \in specs : v.name \in Dotted /\ Len(v.name) > 1 /\ v.name[1] # "__private"
    /\ \A v, w \in specs : v.name = w.name => v.id = w.id

\* What uses a variable is there, and so is the variable: with those of the file,
\* or with those of what was imported.
UserThere(scenario, u) ==
    /\ "at" \in DOMAIN u.id /\ u.id.at \in Seq(Dotted)
    /\ \E e \in scenario.elements : e.section = "nodes" /\ e.name = u.node /\ e.id = u.id
Meant(variables, u) == \E v \in variables : v.name = u.variable /\ v.id = u.meant

Sourced(module, scenario) ==
    /\ SpecsOK(scenario.specs)
    /\ \A u \in scenario.uses :
        UserThere(scenario, u)
        /\ Meant(IF u.id.at = <<>> THEN module.variables ELSE scenario.specs, u)

PInv == \A i \in DOMAIN stack : Sourced(files[stack[i].file], stack[i].scenario)

\* Variables under their new names: those of the module and those below it.
LEMMA MovedSpecsOK ==
    ASSUME NEW module, NEW ns \in Dotted, ns[1] # "__private", NEW specs, SpecsOK(specs),
           VariablesOK(module)
    PROVE  SpecsOK(MovedSpecs(module, ns, specs))
<1> DEFINE own == {[name |-> Private(ns, v.name), id |-> Moved(ns, v.id)] : v \in module.variables}
           below == {[name |-> Prefixed(ns, v.name), id |-> Moved(ns, v.id)] : v \in specs}
<1>1. \A v \in own : \E o \in module.variables :
         v.name = Private(ns, o.name) /\ v.id = Moved(ns, o.id) /\ o.name \in Dotted
  BY DEF VariablesOK
<1>2. \A v \in below : \E b \in specs :
         /\ v.name = Prefixed(ns, b.name) /\ v.id = Moved(ns, b.id)
         /\ b.name \in Dotted /\ b.name[1] # "__private"
  BY DEF SpecsOK
<1>3. MovedSpecs(module, ns, specs) = own \cup below
  BY DEF MovedSpecs
<1> HIDE DEF own, below
<1>4. \A v \in own \cup below : v.name \in Dotted /\ Len(v.name) > 1 /\ v.name[1] # "__private"
  <2>1. \A s \in Dotted : /\ Prefixed(ns, s) \in Dotted /\ Private(ns, s) \in Dotted
                          /\ Prefixed(ns, s)[1] = ns[1] /\ Private(ns, s)[1] = ns[1]
                          /\ Len(Prefixed(ns, s)) > 1 /\ Len(Private(ns, s)) > 1
    BY NamesApart
  <2> QED  BY <1>1, <1>2, <2>1
<1>5. ASSUME NEW v \in own \cup below, NEW w \in own \cup below, v.name = w.name
      PROVE  v.id = w.id
  <2>1. CASE v \in own /\ w \in own
    <3>1. PICK a \in module.variables :
             v.name = Private(ns, a.name) /\ v.id = Moved(ns, a.id) /\ a.name \in Dotted
      BY <1>1, <2>1
    <3>2. PICK b \in module.variables :
             w.name = Private(ns, b.name) /\ w.id = Moved(ns, b.id) /\ b.name \in Dotted
      BY <1>1, <2>1
    <3>3. Private(ns, a.name) = Private(ns, b.name) => a.name = b.name
      BY <3>1, <3>2, NamesApart
    <3>4. a.name = b.name => a.id = b.id
      BY DEF VariablesOK
    <3> QED  BY <1>5, <3>1, <3>2, <3>3, <3>4
  <2>2. CASE v \in below /\ w \in below
    <3>1. PICK a \in specs :
             v.name = Prefixed(ns, a.name) /\ v.id = Moved(ns, a.id) /\ a.name \in Dotted
      BY <1>2, <2>2
    <3>2. PICK b \in specs :
             w.name = Prefixed(ns, b.name) /\ w.id = Moved(ns, b.id) /\ b.name \in Dotted
      BY <1>2, <2>2
    <3>3. Prefixed(ns, a.name) = Prefixed(ns, b.name) => a.name = b.name
      BY <3>1, <3>2, NamesApart
    <3>4. a.name = b.name => a.id = b.id
      BY DEF SpecsOK
    <3> QED  BY <1>5, <3>1, <3>2, <3>3, <3>4
  <2>3. ASSUME NEW x \in own, NEW y \in below PROVE x.name # y.name
    <3>1. PICK a \in module.variables : x.name = Private(ns, a.name) /\ a.name \in Dotted
      BY <1>1
    <3>2. PICK b \in specs : /\ y.name = Prefixed(ns, b.name)
                             /\ b.name \in Dotted /\ b.name[1] # "__private"
      BY <1>2
    <3>3. \A s, t \in Dotted : Private(ns, s) = Prefixed(ns, t) => t[1] = "__private"
      BY NamesApart
    <3>4. Private(ns, a.name) # Prefixed(ns, b.name)
      BY <3>1, <3>2, <3>3
    <3> QED  BY <3>1, <3>2, <3>4
  <2> QED  BY <1>5, <2>1, <2>2, <2>3
<1> QED  BY <1>3, <1>4, <1>5 DEF SpecsOK

\* A module that is mounted brings its users and variables along, under names
\* that are again those of each other.
LEMMA MountedSourced ==
    ASSUME NEW frame, NEW ns \in Dotted, ns = frame.ns, ns[1] # "__private",
           Keyed(frame.scenario.elements),
           NEW module, module = files[frame.file], Sourced(module, frame.scenario),
           VariablesOK(module), \A v \in module.variables : Len(v.name) = 1
    PROVE  /\ SpecsOK(Mounted(frame).specs)
           /\ \A u \in Mounted(frame).uses :
                /\ UserThere(Mounted(frame), u) /\ u.id.at # <<>>
                /\ Meant(Mounted(frame).specs, u)
<1> DEFINE scenario == frame.scenario
           exports == Exports(module)
           elements == Mounted(frame).elements
           specs == Mounted(frame).specs
<1>1. /\ elements = {MovedElement(exports, ns, e) : e \in scenario.elements}
      /\ specs = MovedSpecs(module, ns, scenario.specs)
      /\ Mounted(frame).uses = MovedUses(module, exports, ns, scenario.uses)
  BY DEF Mounted
<1>2. SpecsOK(scenario.specs)
  BY DEF Sourced
<1>3. SpecsOK(specs)
  BY <1>1, <1>2, MovedSpecsOK
<1>4. /\ \A v \in module.variables :
            \E m \in specs : m.name = Private(ns, v.name) /\ m.id = Moved(ns, v.id)
      /\ \A v \in scenario.specs :
            \E m \in specs : m.name = Prefixed(ns, v.name) /\ m.id = Moved(ns, v.id)
  <2>1. ASSUME NEW v \in module.variables
        PROVE  \E m \in specs : m.name = Private(ns, v.name) /\ m.id = Moved(ns, v.id)
    <3> DEFINE m == [name |-> Private(ns, v.name), id |-> Moved(ns, v.id)]
    <3>1. m \in specs
      BY <1>1 DEF MovedSpecs
    <3> QED  BY <3>1
  <2>2. ASSUME NEW v \in scenario.specs
        PROVE  \E m \in specs : m.name = Prefixed(ns, v.name) /\ m.id = Moved(ns, v.id)
    <3> DEFINE m == [name |-> Prefixed(ns, v.name), id |-> Moved(ns, v.id)]
    <3>1. m \in specs
      BY <1>1 DEF MovedSpecs
    <3> QED  BY <3>1
  <2> QED  BY <2>1, <2>2
<1>5. \A e \in scenario.elements : e.section = "nodes" =>
         \E m \in elements : /\ m.section = "nodes" /\ m.id = Moved(ns, e.id)
                             /\ m.name = Renamed(exports, ns, "nodes", e.name)
  <2> SUFFICES ASSUME NEW e \in scenario.elements, e.section = "nodes"
               PROVE  \E m \in elements :
                         /\ m.section = "nodes" /\ m.id = Moved(ns, e.id)
                         /\ m.name = Renamed(exports, ns, "nodes", e.name)
    OBVIOUS
  <2> DEFINE m == MovedElement(exports, ns, e)
  <2>1. MovedFrom(exports, ns, e, m)
    BY MovedElementFacts
  <2>2. e.name = e.top
    BY DEF Keyed, ElementsOK
  <2>3. m \in elements
    BY <1>1
  <2> HIDE DEF m
  <2>4. /\ m.section = "nodes" /\ m.id = Moved(ns, e.id)
        /\ m.name = Renamed(exports, ns, "nodes", e.name)
    BY <2>1, <2>2 DEF MovedFrom
  <2> QED  BY <2>3, <2>4
<1>6. ASSUME NEW m \in Mounted(frame).uses
      PROVE  UserThere(Mounted(frame), m) /\ m.id.at # <<>> /\ Meant(specs, m)
  <2>1. PICK u \in scenario.uses :
           /\ m.node = Renamed(exports, ns, "nodes", u.node)
           /\ m.variable = RenamedVariable(module, ns, u.variable)
           /\ m.id = Moved(ns, u.id) /\ m.meant = Moved(ns, u.meant)
    BY <1>1 DEF MovedUses
  <2>2. /\ UserThere(scenario, u)
        /\ Meant(IF u.id.at = <<>> THEN module.variables ELSE scenario.specs, u)
    BY DEF Sourced
  <2>3. "at" \in DOMAIN m.id /\ m.id.at \in Seq(Dotted) /\ m.id.at # <<>>
    <3>1. m.id = [u.id EXCEPT !.at = <<ns>> \o @]
      BY <2>1 DEF Moved
    <3>2. "at" \in DOMAIN u.id /\ u.id.at \in Seq(Dotted) /\ <<ns>> \in Seq(Dotted)
      BY <2>2 DEF UserThere
    <3>3. "at" \in DOMAIN m.id /\ m.id.at = <<ns>> \o u.id.at
      BY <3>1, <3>2
    <3>4. <<ns>> \o u.id.at \in Seq(Dotted)
      BY <3>2, ConcatProperties
    <3>5. <<ns>> \o u.id.at # <<>>
      <4>1. <<ns>> # <<>>
        OBVIOUS
      <4> QED  BY <3>2, <4>1, ConcatEqualIffEmpty
    <3> QED  BY <3>3, <3>4, <3>5
  <2>4. \E e \in elements : e.section = "nodes" /\ e.name = m.node /\ e.id = m.id
    BY <1>5, <2>1, <2>2 DEF UserThere
  <2>5. Meant(specs, m)
    <3>1. CASE u.id.at = <<>>
      <4>1. PICK v \in module.variables : v.name = u.variable /\ v.id = u.meant
        BY <2>2, <3>1 DEF Meant
      <4>2. m.variable = Private(ns, v.name)
        BY <2>1, <4>1 DEF RenamedVariable
      <4> QED  BY <1>4, <2>1, <4>1, <4>2 DEF Meant
    <3>2. CASE u.id.at # <<>>
      <4>1. PICK v \in scenario.specs : v.name = u.variable /\ v.id = u.meant
        BY <2>2, <3>2 DEF Meant
      <4>2. Len(v.name) > 1
        BY <1>2 DEF SpecsOK
      <4>3. \A w \in module.variables : w.name # u.variable
        <5> SUFFICES ASSUME NEW w \in module.variables, w.name = u.variable PROVE FALSE
          OBVIOUS
        <5>1. Len(w.name) = 1 /\ w.name = v.name
          BY <4>1
        <5> DEFINE k == Len(v.name)
        <5>2. k = 1 /\ k > 1
          BY <4>2, <5>1
        <5> HIDE DEF k
        <5> QED  BY <5>2
      <4>4. m.variable = Prefixed(ns, v.name)
        BY <2>1, <4>1, <4>3 DEF RenamedVariable
      <4> QED  BY <1>4, <2>1, <4>1, <4>4 DEF Meant
    <3> QED  BY <3>1, <3>2
  <2> QED  BY <2>3, <2>4, <2>5 DEF UserThere
<1> QED  BY <1>3, <1>6

\* What is merged keeps its sources.
LEMMA MergedSourced ==
    ASSUME NEW module, NEW into, NEW from, Sourced(module, into), ~Collides(into, from),
           SpecsOK(from.specs),
           \A u \in from.uses : /\ UserThere(from, u) /\ u.id.at # <<>>
                                /\ Meant(from.specs, u),
           NEW merged,
           /\ merged.elements = into.elements \cup from.elements
           /\ merged.specs = into.specs \cup from.specs
           /\ merged.uses = into.uses \cup from.uses
    PROVE  Sourced(module, merged)
<1>1. SpecsOK(merged.specs)
  <2>1. \A v \in into.specs, w \in from.specs : v.name # w.name
    BY DEF Collides, Names
  <2> QED  BY <2>1 DEF Sourced, SpecsOK
<1>2. \A u \in into.uses :
         /\ UserThere(merged, u)
         /\ Meant(IF u.id.at = <<>> THEN module.variables ELSE merged.specs, u)
  BY DEF Sourced, UserThere, Meant
<1>3. \A u \in from.uses :
         /\ UserThere(merged, u)
         /\ Meant(IF u.id.at = <<>> THEN module.variables ELSE merged.specs, u)
  BY DEF UserThere, Meant
<1> QED  BY <1>1, <1>2, <1>3 DEF Sourced

\* The invariant holds.
THEOREM KeysKept ==
    ASSUME \A fs \in FileSystems : Unreserved(fs)
    PROVE  Spec => []Inv
<1>1. Init => Inv
  <2> SUFFICES ASSUME Init PROVE Inv
    OBVIOUS
  <2>1. files \in FileSystems /\ Main \in DOMAIN files /\ stack = <<Frame(Main, <<>>)>>
    BY FilesOK DEF Init
  <2>2. FrameOK(files, Frame(Main, <<>>))
    BY <2>1, FrameFromFile
  <2> DEFINE frame == Frame(Main, <<>>)
  <2> HIDE DEF frame
  <2>3. stack = <<frame>> /\ FrameOK(files, frame)
    BY <2>1, <2>2 DEF frame
  <2>4. /\ stack \in Seq({frame}) /\ stack # <<>> /\ Len(stack) = 1 /\ stack[1] = frame
    BY <2>3
  <2>5. StackOK(files, stack)
    <3>1. \A i \in 1 .. Len(stack) : i = 1 /\ stack[i] = frame
      BY <2>4
    <3>2. \A i \in 1 .. Len(stack) :
             /\ FrameOK(files, stack[i])
             /\ i > 1 => stack[i].ns \in Dotted /\ stack[i].ns[1] # "__private"
      BY <2>3, <3>1
    <3> QED  BY <2>4, <3>2, StackFromFrames
  <2> QED  BY <2>1, <2>5 DEF Inv
<1>2. Inv /\ [Next]_vars => Inv'
  <2> SUFFICES ASSUME Inv, [Next]_vars PROVE Inv'
    OBVIOUS
  <2>1. files' = files
    BY DEF Next, Open, Mount, Finish, vars
  <2>2. StackOK(files, stack')
    <3>1. CASE Open
      BY <3>1, OpenKeeps DEF Inv
    <3>2. CASE Mount
      BY <3>2, MountKeeps
    <3>3. CASE Finish \/ UNCHANGED vars
      BY <3>3 DEF Finish, vars, Inv
    <3> QED  BY <3>1, <3>2, <3>3 DEF Next
  <2> QED  BY <2>1, <2>2 DEF Inv
<1> QED  BY <1>1, <1>2, PTL DEF Spec

(***************************************************************************)
(* Whatever is mounted in whatever, however often and how deep, no element *)
(* of an import takes the name of another one, if nobody uses the segment  *)
(* that is reserved for private names (composition.py 300-316, 420-478,    *)
(* _module_symbols.py 70-80). expand_sdl_modules only refuses namespaces   *)
(* in which another segment follows the reserved one (365).                *)
(***************************************************************************)
THEOREM NothingShadowedCorrect ==
    ASSUME \A fs \in FileSystems : Unreserved(fs)
    PROVE  Spec => []NothingShadowed
<1>1. Inv => NothingShadowed
  <2> SUFFICES ASSUME Inv, NEW i \in DOMAIN stack, NEW e \in stack[i].scenario.elements,
                      NEW f \in stack[i].scenario.elements,
                      e.section = f.section, e.name = f.name,
                      e.section = "entities" => e.top = f.top
               PROVE  e.id = f.id
    BY DEF NothingShadowed
  <2>1. ElementsOK(stack[i].scenario.elements)
    BY DEF Inv, StackOK, FrameOK, Keyed
  <2>2. e.top = f.top
    BY <2>1 DEF ElementsOK
  <2> QED  BY <2>1, <2>2 DEF ElementsOK
<1> QED  BY <1>1, KeysKept, PTL

(***************************************************************************)
(* A reference that denotes one element in its module denotes that element *)
(* and no other once the module is mounted, for every module that exports  *)
(* elements of one name together, under the same condition about reserved  *)
(* names (composition.py 73-113, _module_symbols.py 125-185, the           *)
(* validator's lookups).                                                   *)
(***************************************************************************)
THEOREM ReferencesSurviveCorrect ==
    ASSUME \A fs \in FileSystems : Unreserved(fs)
    PROVE  Spec => []ReferencesSurvive
<1>1. Inv => ReferencesSurvive
  BY MountedSurvives DEF ReferencesSurvive
<1> QED  BY <1>1, KeysKept, PTL

\* The sources of a step's scenarios.
LEMMA SourcesKept ==
    ASSUME Inv, PInv, Unreserved(files), PlainVariables(files), NEW frame, Derived(frame)
    PROVE  Sourced(files[frame.file], frame.scenario)
<1>1. CASE \E i \in DOMAIN stack : frame.file = stack[i].file /\ frame.scenario = stack[i].scenario
  BY <1>1 DEF PInv
<1>2. CASE frame.file \in DOMAIN files /\ frame.scenario = Scenario(files[frame.file])
  <2> DEFINE module == files[frame.file]
  <2>1. VariablesOK(module)
    BY <1>2, FilesOK DEF Inv, FileOK
  <2>2. /\ frame.scenario.specs = {} /\ frame.scenario.uses = module.uses
        /\ frame.scenario.elements = module.elements
    BY <1>2 DEF Scenario
  <2>3. <<>> \in Seq(Dotted)
    BY EmptySeq
  <2> HIDE DEF module
  <2>4. Sourced(module, frame.scenario)
    BY <2>1, <2>2, <2>3 DEF Sourced, SpecsOK, UserThere, Meant, VariablesOK
  <2> QED  BY <2>4 DEF module
<1>3. CASE /\ Len(stack) > 1 /\ Len(stack) - 1 \in DOMAIN stack
           /\ frame.file = stack[Len(stack) - 1].file
           /\ ~Collides(stack[Len(stack) - 1].scenario, Mounted(Top))
           /\ frame.scenario = [k \in DOMAIN stack[Len(stack) - 1].scenario |->
                                    stack[Len(stack) - 1].scenario[k] \cup Mounted(Top)[k]]
  <2> DEFINE below == stack[Len(stack) - 1]
             into == below.scenario
             from == Mounted(Top)
             merged == frame.scenario
             module == files[Top.file]
  <2>1. Len(stack) \in Nat /\ DOMAIN stack = 1 .. Len(stack)
    BY LenProperties DEF Inv, StackOK
  <2>2. Len(stack) \in DOMAIN stack
    BY <1>3, <2>1
  <2>3. FrameOK(files, Top) /\ Top.ns \in Dotted /\ Top.ns[1] # "__private"
    BY <1>3, <2>2 DEF Inv, StackOK, Top
  <2>4. /\ Keyed(Top.scenario.elements) /\ VariablesOK(module)
        /\ \A v \in module.variables : Len(v.name) = 1
    BY <2>3, FilesOK DEF FrameOK, Inv, FileOK, PlainVariables
  <2>5. Sourced(module, Top.scenario)
    BY <2>2 DEF PInv, Top
  <2>6. /\ SpecsOK(from.specs)
        /\ \A u \in from.uses : /\ UserThere(from, u) /\ u.id.at # <<>>
                                /\ Meant(from.specs, u)
    BY <2>3, <2>4, <2>5, MountedSourced
  <2>7. Sourced(files[below.file], into) /\ FrameOK(files, below)
    BY <1>3 DEF PInv, Inv, StackOK
  <2>8. DOMAIN into = {"elements", "refs", "specs", "uses"}
    BY <2>7 DEF FrameOK
  <2>9. ~Collides(into, from) /\ merged = [k \in DOMAIN into |-> into[k] \cup from[k]]
    BY <1>3
  <2> HIDE DEF into, from, merged
  <2>10. /\ merged.elements = into.elements \cup from.elements
         /\ merged.specs = into.specs \cup from.specs
         /\ merged.uses = into.uses \cup from.uses
    BY <2>8, <2>9
  <2>11. Sourced(files[below.file], merged)
    BY <2>6, <2>7, <2>9, <2>10, MergedSourced
  <2> QED  BY <1>3, <2>11 DEF merged
<1> QED  BY <1>1, <1>2, <1>3 DEF Derived

(***************************************************************************)
(* In what expansion ends with, every node that was written with a         *)
(* variable still has, under its new name, a reference to that variable,   *)
(* for any files whose variables a placeholder can name                    *)
(* (composition.py 420-478, instantiate.py 106-170).                       *)
(***************************************************************************)
THEOREM ProvenanceSurvivesCorrect ==
    ASSUME \A fs \in FileSystems : Unreserved(fs) /\ PlainVariables(fs)
    PROVE  Spec => []ProvenanceSurvives
<1>1. Inv /\ Init => PInv
  <2> SUFFICES ASSUME Inv, Init PROVE PInv
    OBVIOUS
  <2> DEFINE frame == Frame(Main, <<>>)
  <2>1. Main \in DOMAIN files /\ VariablesOK(files[Main])
    BY FilesOK DEF Init, FileOK
  <2>2. frame.file = Main /\ frame.scenario = Scenario(files[Main])
    BY DEF Frame
  <2>3. stack = <<frame>>
    BY DEF Init
  <2> HIDE DEF frame
  <2>4. \A i \in DOMAIN stack : stack[i] = frame
    BY <2>3
  <2>5. Sourced(files[Main], Scenario(files[Main]))
    <3> DEFINE module == files[Main]
               scenario == Scenario(module)
    <3>1. scenario.specs = {} /\ scenario.uses = module.uses /\ scenario.elements = module.elements
      BY DEF Scenario
    <3>2. VariablesOK(module) /\ <<>> \in Seq(Dotted)
      BY <2>1, EmptySeq
    <3> HIDE DEF module, scenario
    <3>3. Sourced(module, scenario)
      BY <3>1, <3>2 DEF Sourced, SpecsOK, UserThere, Meant, VariablesOK
    <3> QED  BY <3>3 DEF module, scenario
  <2> QED  BY <2>2, <2>4, <2>5 DEF PInv
<1>2. Inv /\ PInv /\ [Next]_vars => PInv'
  <2> SUFFICES ASSUME Inv, PInv, [Next]_vars PROVE PInv'
    OBVIOUS
  <2>1. files' = files /\ Unreserved(files) /\ PlainVariables(files)
    BY DEF Next, Open, Mount, Finish, vars, Inv
  <2>2. \A i \in DOMAIN stack' : Derived(stack'[i])
    <3>1. CASE Open
      BY <2>1, <3>1, OpenKeeps
    <3>2. CASE Mount
      BY <3>2, MountKeeps
    <3>3. CASE Finish \/ UNCHANGED vars
      BY <3>3 DEF Finish, vars, Derived
    <3> QED  BY <3>1, <3>2, <3>3 DEF Next
  <2>3. \A i \in DOMAIN stack' : Sourced(files[stack'[i].file], stack'[i].scenario)
    BY <2>1, <2>2, SourcesKept
  <2> QED  BY <2>1, <2>3 DEF PInv
<1>3. Inv /\ PInv => ProvenanceSurvives
  <2> SUFFICES ASSUME Inv, PInv, NEW u \in Top.scenario.uses
               PROVE  /\ {e.id : e \in {e \in Top.scenario.elements :
                                           e.section = "nodes" /\ e.name = u.node}} = {u.id}
                      /\ u.id.at # <<>> =>
                           {v.id : v \in {v \in Top.scenario.specs : v.name = u.variable}}
                              = {u.meant}
    BY DEF ProvenanceSurvives
  <2> DEFINE scenario == Top.scenario
  <2>1. Len(stack) \in DOMAIN stack
    BY EmptySeq, LenProperties DEF Inv, StackOK
  <2>2. Keyed(scenario.elements) /\ Sourced(files[Top.file], scenario)
    BY <2>1 DEF Inv, StackOK, FrameOK, PInv, Top
  <2>3. /\ \E e \in scenario.elements : e.section = "nodes" /\ e.name = u.node /\ e.id = u.id
        /\ u.id.at # <<>> =>
             \E v \in scenario.specs : v.name = u.variable /\ v.id = u.meant
    BY <2>2 DEF Sourced, UserThere, Meant
  <2>4. \A e, f \in scenario.elements :
           e.section = "nodes" /\ f.section = "nodes" /\ e.name = f.name => e.id = f.id
    BY <2>2, ZenonT(60) DEF Keyed, ElementsOK
  <2>5. \A v, w \in scenario.specs : v.name = w.name => v.id = w.id
    BY <2>2 DEF Sourced, SpecsOK
  <2> HIDE DEF scenario
  <2>6. {e.id : e \in {e \in scenario.elements : e.section = "nodes" /\ e.name = u.node}} = {u.id}
    BY <2>3, <2>4
  <2>7. u.id.at # <<>> =>
           {v.id : v \in {v \in scenario.specs : v.name = u.variable}} = {u.meant}
    BY <2>3, <2>5
  <2> QED  BY <2>6, <2>7 DEF scenario
<1>4. Spec => []Inv
  BY KeysKept
<1> QED  BY <1>1, <1>2, <1>3, <1>4, PTL DEF Spec
-----------------------------------------------------------------------------
(***************************************************************************)
(* Addresses and their places.                                             *)
(***************************************************************************)
LEMMA ElementFacts ==
    /\ IsFiniteSet(Everything)
    /\ \A e \in Everything : e = <<e[1], e[2]>> /\ e[2] \in Every(e[1])
    /\ \A sec : \A n \in Every(sec) : <<sec, n>> \in Everything
<1>1. \A e \in Everything : e = <<e[1], e[2]>>
  BY BodiesOK
<1>2. \A sec : \A n \in Every(sec) : <<sec, n>> \in Everything
  <2> SUFFICES ASSUME NEW sec, NEW n \in Every(sec) PROVE <<sec, n>> \in Everything
    OBVIOUS
  <2>1. PICK e \in Everything : e[1] = sec /\ n = e[2]
    BY DEF Every
  <2> QED  BY <1>1, <2>1
<1>3. \A e \in Everything : e[2] \in Every(e[1])
  BY DEF Every
<1> QED  BY <1>1, <1>2, <1>3, BodiesOK

LEMMA FiniteRange ==
    ASSUME NEW S, IsFiniteSet(S), NEW f, DOMAIN f = S
    PROVE  IsFiniteSet({f[x] : x \in S})
<1> DEFINE T == {f[x] : x \in S}
           g == [x \in S |-> f[x]]
<1>1. g \in Surjection(S, T)
  BY DEF Surjection
<1> HIDE DEF g, T
<1>2. IsFiniteSet(T)
  BY <1>1, FS_Surjection
<1> QED  BY <1>2 DEF T

LEMMA EveryFinite == ASSUME NEW sec PROVE IsFiniteSet(Every(sec))
<1> DEFINE E == {d \in Everything : d[1] = sec}
<1>1. IsFiniteSet(E)
  BY ElementFacts, FS_Subset
<1> HIDE DEF E
<1> DEFINE f == [e \in E |-> e[2]]
<1>2. IsFiniteSet({f[e] : e \in E})
  BY <1>1, FiniteRange
<1>3. {f[e] : e \in E} = {e[2] : e \in E}
  OBVIOUS
<1> QED  BY <1>2, <1>3 DEF Every, E

LEMMA AddressesFinite == IsFiniteSet(Addresses)
<1>1. \A sec : IsFiniteSet(Every(sec))
  BY EveryFinite
<1>2. IsFiniteSet({Plain(e[1], e[2]) : e \in {d \in Everything : d[1] \in DOMAIN Kinds}})
  <2> DEFINE E == {d \in Everything : d[1] \in DOMAIN Kinds}
  <2>1. IsFiniteSet(E)
    BY ElementFacts, FS_Subset
  <2> HIDE DEF E
  <2> DEFINE f == [e \in E |-> Plain(e[1], e[2])]
  <2>2. IsFiniteSet({f[e] : e \in E})
    BY <2>1, FiniteRange
  <2>3. {f[e] : e \in E} = {Plain(e[1], e[2]) : e \in E}
    OBVIOUS
  <2> QED  BY <2>2, <2>3 DEF E
<1>3. IsFiniteSet({Address(kind, Labels[n]) : kind \in {"network", "node"}, n \in Every("nodes")})
  <2> DEFINE N == Every("nodes")
  <2>1. IsFiniteSet(N)
    BY <1>1
  <2> HIDE DEF N
  <2>2. \A kind : IsFiniteSet({Address(kind, Labels[n]) : n \in N})
    <3> SUFFICES ASSUME NEW kind PROVE IsFiniteSet({Address(kind, Labels[n]) : n \in N})
      OBVIOUS
    <3> DEFINE f == [n \in N |-> Address(kind, Labels[n])]
    <3>1. IsFiniteSet({f[n] : n \in N})
      BY <2>1, FiniteRange
    <3>2. {f[n] : n \in N} = {Address(kind, Labels[n]) : n \in N}
      OBVIOUS
    <3> QED  BY <3>1, <3>2
  <2> DEFINE M(kind) == {Address(kind, Labels[n]) : n \in N}
  <2>3. {Address(kind, Labels[n]) : kind \in {"network", "node"}, n \in N}
        = M("network") \cup M("node")
    OBVIOUS
  <2>4. IsFiniteSet(M("network")) /\ IsFiniteSet(M("node"))
    BY <2>2
  <2> HIDE DEF M
  <2>5. IsFiniteSet(M("network") \cup M("node"))
    BY <2>4, FS_Union
  <2> QED  BY <2>3, <2>5 DEF N
<1>4. \A sec : IsFiniteSet({BindingAt(sec, b) : b \in Every("nodes") \X Every(sec)})
  <2> SUFFICES ASSUME NEW sec
               PROVE  IsFiniteSet({BindingAt(sec, b) : b \in Every("nodes") \X Every(sec)})
    OBVIOUS
  <2> DEFINE P == Every("nodes") \X Every(sec)
  <2>1. IsFiniteSet(P)
    BY <1>1, FS_Product
  <2> HIDE DEF P
  <2> DEFINE f == [b \in P |-> BindingAt(sec, b)]
  <2>2. IsFiniteSet({f[b] : b \in P})
    BY <2>1, FiniteRange
  <2>3. {f[b] : b \in P} = {BindingAt(sec, b) : b \in P}
    OBVIOUS
  <2> QED  BY <2>2, <2>3 DEF P
<1> DEFINE B(sec) == {BindingAt(sec, b) : b \in Every("nodes") \X Every(sec)}
<1>5. IsFiniteSet(UNION {B(sec) : sec \in DOMAIN Bindings})
  <2>1. DOMAIN Bindings = {"features", "conditions", "injects"}
    BY DEF Bindings
  <2>2. IsFiniteSet(B("features")) /\ IsFiniteSet(B("conditions")) /\ IsFiniteSet(B("injects"))
    BY <1>4
  <2> HIDE DEF B
  <2>3. UNION {B(sec) : sec \in DOMAIN Bindings} = B("features") \cup B("conditions") \cup B("injects")
    BY <2>1
  <2>4. IsFiniteSet(B("features") \cup B("conditions") \cup B("injects"))
    BY <2>2, FS_Union
  <2> QED  BY <2>3, <2>4
<1> QED
  <2> DEFINE A == {Plain(e[1], e[2]) : e \in {d \in Everything : d[1] \in DOMAIN Kinds}}
             N == {Address(kind, Labels[n]) : kind \in {"network", "node"}, n \in Every("nodes")}
             C == UNION {B(sec) : sec \in DOMAIN Bindings}
  <2>1. Addresses = A \cup N \cup C
    BY DEF Addresses
  <2>2. IsFiniteSet(A) /\ IsFiniteSet(N) /\ IsFiniteSet(C)
    BY <1>2, <1>3, <1>5
  <2> HIDE DEF A, N, C
  <2> QED  BY <2>1, <2>2, FS_Union

\* Every address has a place in the order.
LEMMA PlaceFacts ==
    ASSUME NEW a \in Addresses
    PROVE  Place[a] \in DOMAIN Canonical /\ Canonical[Place[a]] = a
<1> DEFINE S == Addresses
           pick(T) == CHOOSE x \in T : TRUE
           step == [x \in S \X Seq(S) |-> Append(x[2], x[1])]
           Lists(f) == f = [T \in SUBSET S |->
                              IF T = {} THEN <<>> ELSE Append(f[T \ {pick(T)}], pick(T))]
           f == CHOOSE g : Lists(g)
<1>1. Canonical = f[S]
  BY DEF Canonical, FoldSet, MapThenFoldSet
<1>2. Lists(f)
  <2>1. step \in [S \X Seq(S) -> Seq(S)]
    <3> SUFFICES ASSUME NEW x \in S \X Seq(S) PROVE Append(x[2], x[1]) \in Seq(S)
      OBVIOUS
    <3> QED  BY AppendProperties
  <2>2. <<>> \in Seq(S) /\ IsFiniteSet(S)
    BY EmptySeq, AddressesFinite
  <2> HIDE DEF step, S
  <2>3. PICK g \in [SUBSET S -> Seq(S)] : Folding(g, S, <<>>, step)
    BY <2>1, <2>2, Folded
  <2>4. Lists(g)
    <3>1. \A T \in SUBSET S : T # {} =>
             step[<<pick(T), g[T \ {pick(T)}]>>] = Append(g[T \ {pick(T)}], pick(T))
      <4> SUFFICES ASSUME NEW T \in SUBSET S, T # {}
                   PROVE  step[<<pick(T), g[T \ {pick(T)}]>>] = Append(g[T \ {pick(T)}], pick(T))
        OBVIOUS
      <4>1. pick(T) \in S /\ T \ {pick(T)} \in SUBSET S
        OBVIOUS
      <4> HIDE DEF pick
      <4>2. <<pick(T), g[T \ {pick(T)}]>> \in S \X Seq(S)
        BY <4>1
      <4> QED  BY <4>2 DEF step
    <3>2. g = [T \in SUBSET S |-> IF T = {} THEN <<>> ELSE step[<<pick(T), g[T \ {pick(T)}]>>]]
      BY <2>3 DEF Folding
    <3> QED  BY <3>1, <3>2
  <2> HIDE DEF Lists
  <2> QED  BY <2>4
<1> HIDE DEF f
<1>3. \A T \in SUBSET S : f[T] = IF T = {} THEN <<>> ELSE Append(f[T \ {pick(T)}], pick(T))
  BY <1>2
<1>4. \A T \in SUBSET S : T # {} =>
          /\ pick(T) \in T /\ T \ {pick(T)} \in SUBSET S
          /\ Cardinality(T \ {pick(T)}) = Cardinality(T) - 1 /\ Cardinality(T) \in Nat
  <2>1. \A T \in SUBSET S : IsFiniteSet(T)
    BY AddressesFinite, FS_Subset
  <2>2. \A T \in SUBSET S : T # {} => pick(T) \in T
    OBVIOUS
  <2> HIDE DEF pick
  <2> QED  BY <2>1, <2>2, FS_RemoveElement, FS_CardinalityType
<1> HIDE DEF pick, Lists
<1> DEFINE Has(T) == f[T] \in Seq(T) /\ \A x \in T : \E i \in DOMAIN f[T] : f[T][i] = x
           A == {k \in Nat : \A T \in SUBSET S : Cardinality(T) = k => Has(T)}
<1>5. 0 \in A
  <2> SUFFICES ASSUME NEW T \in SUBSET S, Cardinality(T) = 0 PROVE Has(T)
    OBVIOUS
  <2>1. T = {}
    BY AddressesFinite, FS_Subset, FS_EmptySet
  <2> QED  BY <1>3, <2>1, EmptySeq
<1>6. ASSUME NEW k \in Nat, k \in A PROVE k + 1 \in A
  <2> SUFFICES ASSUME NEW T \in SUBSET S, Cardinality(T) = k + 1 PROVE Has(T)
    OBVIOUS
  <2> DEFINE x == pick(T)
             U == T \ {x}
  <2>1. T # {}
    BY FS_EmptySet
  <2>2. x \in T /\ U \in SUBSET S /\ Cardinality(U) = k /\ f[T] = Append(f[U], x)
    <3>1. x \in T /\ U \in SUBSET S /\ f[T] = Append(f[U], x)
      BY <1>3, <1>4, <2>1
    <3>2. Cardinality(T \ {pick(T)}) = Cardinality(T) - 1
      BY <1>4, <2>1
    <3> QED  BY <3>1, <3>2
  <2>3. Has(U)
    BY <1>6, <2>2
  <2> HIDE DEF x
  <2>4. f[U] \in Seq(T)
    BY <2>3, SeqMonotonic
  <2>5. /\ f[T] \in Seq(T) /\ Len(f[T]) = Len(f[U]) + 1 /\ Len(f[U]) \in Nat
        /\ \A i \in 1 .. Len(f[U]) : f[T][i] = f[U][i]
        /\ f[T][Len(f[U]) + 1] = x
        /\ DOMAIN f[T] = 1 .. Len(f[T]) /\ DOMAIN f[U] = 1 .. Len(f[U])
    BY <2>2, <2>4, AppendProperties, LenProperties
  <2>6. ASSUME NEW y \in T PROVE \E i \in DOMAIN f[T] : f[T][i] = y
    <3>1. CASE y = x
      <4>1. Len(f[U]) + 1 \in DOMAIN f[T]
        BY <2>5
      <4> QED  BY <2>5, <3>1, <4>1
    <3>2. CASE y # x
      <4>1. PICK i \in DOMAIN f[U] : f[U][i] = y
        BY <2>3, <3>2
      <4>2. i \in 1 .. Len(f[U]) /\ i \in 1 .. Len(f[U]) + 1
        <5>1. i \in 1 .. Len(f[U])
          BY <2>5, <4>1
        <5> HIDE DEF Has, A
        <5> QED  BY <2>5, <5>1
      <4>3. i \in DOMAIN f[T] /\ f[T][i] = y
        <5> HIDE DEF Has, A, U
        <5> QED  BY <2>5, <4>1, <4>2
      <4> QED  BY <4>3
    <3> QED  BY <3>1, <3>2
  <2> QED  BY <2>5, <2>6
<1>7. Cardinality(S) \in A
  <2>1. Cardinality(S) \in Nat
    BY AddressesFinite, FS_CardinalityType
  <2> HIDE DEF A
  <2> QED  BY <1>5, <1>6, <2>1, SetInduction
<1>8. \E i \in DOMAIN Canonical : Canonical[i] = a
  BY <1>1, <1>7
<1> QED  BY <1>8 DEF Place
-----------------------------------------------------------------------------
(***************************************************************************)
(* Addresses by kind, and the domains they are planned in.                 *)
(***************************************************************************)
SectionDomain(sec) ==
    CASE sec \in {"content", "accounts", "features"} -> "provisioning"
      [] sec \in {"conditions", "metrics", "evaluations", "tlos", "goals", "objectives"} -> "evaluation"
      [] OTHER -> "orchestration"

LEMMA HeadOfAddress ==
    ASSUME NEW T, NEW labels \in Seq(T), NEW kind
    PROVE  Address(kind, labels)[1] = kind
<1> DEFINE S == T \cup {kind}
<1>1. <<kind>> \in Seq(S) /\ Len(<<kind>>) = 1 /\ <<kind>>[1] = kind
  OBVIOUS
<1>2. labels \in Seq(S) /\ Len(labels) \in Nat
  BY SeqMonotonic, LenProperties
<1> HIDE DEF S
<1>3. \A i \in 1 .. Len(<<kind>>) + Len(labels) :
         (<<kind>> \o labels)[i] = IF i <= Len(<<kind>>) THEN <<kind>>[i] ELSE labels[i - Len(<<kind>>)]
  BY <1>1, <1>2, ConcatProperties
<1>4. 1 \in 1 .. Len(<<kind>>) + Len(labels)
  BY <1>1, <1>2
<1> QED  BY <1>1, <1>3, <1>4 DEF Address

LEMMA LabelsFacts ==
    ASSUME NEW sec, NEW n \in Every(sec)
    PROVE  Labels[n] \in Seq(ToSet(Labels[n]))
<1>1. <<sec, n>> \in Everything
  BY ElementFacts
<1> QED  BY <1>1, BodiesOK

LEMMA PlainHead ==
    ASSUME NEW sec \in DOMAIN Kinds, NEW other, NEW n \in Every(other)
    PROVE  Plain(sec, n)[1] = Kinds[sec]
BY LabelsFacts, HeadOfAddress DEF Plain

LEMMA NodeHead ==
    ASSUME NEW s, NEW n \in Every("nodes")
    PROVE  NodeAt(s, n)[1] \in {"network", "node"}
<1>1. NodeAt(s, n)[1] = IF NodeIs(s, n, "switch") THEN "network" ELSE "node"
  BY LabelsFacts, HeadOfAddress DEF NodeAt
<1> QED  BY <1>1

LEMMA BindingHead ==
    ASSUME NEW sec \in DOMAIN Bindings, NEW b \in Every("nodes") \X Every(sec)
    PROVE  BindingAt(sec, b)[1] = Bindings[sec]
<1>1. b[1] \in Every("nodes") /\ b[2] \in Every(sec)
  OBVIOUS
<1> DEFINE m == Labels[b[1]]
           n == Labels[b[2]]
           T == ToSet(m) \cup ToSet(n)
<1>2. m \in Seq(ToSet(m)) /\ n \in Seq(ToSet(n))
  BY <1>1, LabelsFacts
<1>3. BindingAt(sec, b) = Address(Bindings[sec], m \o n)
  BY DEF BindingAt
<1> HIDE DEF m, n
<1>4. m \in Seq(T) /\ n \in Seq(T)
  BY <1>2, SeqMonotonic
<1> HIDE DEF T
<1>5. m \o n \in Seq(T)
  BY <1>4, ConcatProperties
<1> QED  BY <1>3, <1>5, HeadOfAddress

LEMMA PlainDomain ==
    ASSUME NEW sec \in DOMAIN Kinds, NEW n \in Every(sec)
    PROVE  DomainOf(Plain(sec, n)) = SectionDomain(sec)
BY PlainHead DEF DomainOf, SectionDomain, Kinds

LEMMA NodeDomain ==
    ASSUME NEW s, NEW n \in Every("nodes")
    PROVE  DomainOf(NodeAt(s, n)) = "provisioning"
BY NodeHead DEF DomainOf

LEMMA BindingDomain ==
    ASSUME NEW sec \in DOMAIN Bindings, NEW b \in Every("nodes") \X Every(sec)
    PROVE  DomainOf(BindingAt(sec, b)) = SectionDomain(sec)
<1>1. BindingAt(sec, b)[1] = Bindings[sec]
  BY BindingHead
<1> QED  BY <1>1 DEF DomainOf, SectionDomain, Bindings

-----------------------------------------------------------------------------
(***************************************************************************)
(* The elements of a scenario.                                             *)
(***************************************************************************)
Drawn(s) == DOMAIN s \subseteq Everything

LEMMA DefinedFacts ==
    ASSUME NEW s, Drawn(s)
    PROVE  /\ \A sec : \A n \in Defined(s, sec) : <<sec, n>> \in DOMAIN s /\ n \in Every(sec)
           /\ \A sec, n : <<sec, n>> \in DOMAIN s => n \in Defined(s, sec)
           /\ \A e \in DOMAIN s : e = <<e[1], e[2]>> /\ e[2] \in Defined(s, e[1]) /\ e[2] \in Every(e[1])
<1>1. \A e \in DOMAIN s : e = <<e[1], e[2]>> /\ e[2] \in Every(e[1]) /\ e[2] \in Defined(s, e[1])
  BY ElementFacts DEF Drawn, Defined
<1>2. \A sec : \A n \in Defined(s, sec) : <<sec, n>> \in DOMAIN s /\ n \in Every(sec)
  <2> SUFFICES ASSUME NEW sec, NEW n \in Defined(s, sec)
               PROVE  <<sec, n>> \in DOMAIN s /\ n \in Every(sec)
    OBVIOUS
  <2>1. PICK e \in DOMAIN s : e[1] = sec /\ n = e[2]
    BY DEF Defined
  <2> QED  BY <1>1, <2>1
<1>3. \A sec, n : <<sec, n>> \in DOMAIN s => n \in Defined(s, sec)
  <2> SUFFICES ASSUME NEW sec, NEW n, <<sec, n>> \in DOMAIN s PROVE n \in Defined(s, sec)
    OBVIOUS
  <2>1. <<sec, n>>[1] = sec /\ <<sec, n>>[2] = n
    OBVIOUS
  <2> QED  BY <2>1 DEF Defined
<1> QED  BY <1>1, <1>2, <1>3

\* No placeholder is among the names of a scenario without placeholders.
LEMMA NamesKnown ==
    ASSUME NEW s, Placeholders(s) = {}, NEW e, NEW role
    PROVE  Known(s, e, role) = Named(s, e, role)
<1>1. ASSUME NEW v \in Named(s, e, role), v \in Variables PROVE FALSE
  <2>1. e \in DOMAIN s /\ role \in DOMAIN s[e].refs /\ v \in s[e].refs[role]
    BY <1>1 DEF Named
  <2>2. v \in Placeholders(s)
    BY <1>1, <2>1 DEF Placeholders
  <2> QED  BY <2>2
<1> QED  BY <1>1 DEF Known

LEMMA NodeDefined ==
    ASSUME NEW s, Drawn(s), NEW n, NEW kind, NodeIs(s, n, kind)
    PROVE  n \in Defined(s, "nodes")
BY DefinedFacts DEF NodeIs

\* The names in a scenario that was accepted without placeholders are defined.
LEMMA NamesDefined ==
    ASSUME NEW s, Drawn(s), Placeholders(s) = {}, NamesResolve(s), NEW e \in DOMAIN s,
           NEW role \in RolesOf(e[1])
    PROVE  Named(s, e, role) \subseteq Defined(s, Refers[e[1]][role])
BY NamesKnown DEF NamesResolve

-----------------------------------------------------------------------------
(***************************************************************************)
(* What is compiled.                                                       *)
(***************************************************************************)
Ats(s) == {r.at : r \in Compiled(s)}

LEMMA NodePlanned ==
    ASSUME NEW s, NEW n \in Defined(s, "nodes")
    PROVE  NodeAt(s, n) \in Ats(s)
<1> DEFINE R(m) == Resource(NodeAt(s, m), {<<"nodes", m>>},
                            {s[e] : e \in {<<"nodes", m>>, <<"infrastructure", m>>} \cap DOMAIN s},
                            Neighbours(s, m), Neighbours(s, m))
<1>1. \E r \in Deployments(s) : r.at = NodeAt(s, n)
  <2>1. Deployments(s) = {R(m) : m \in Defined(s, "nodes")}
    BY Zenon DEF Deployments
  <2>2. R(n).at = NodeAt(s, n)
    BY DEF Resource
  <2> HIDE DEF R
  <2> QED  BY <2>1, <2>2
<1> QED  BY <1>1 DEF Ats, Compiled

LEMMA PlainPlanned ==
    ASSUME NEW s, Drawn(s), NEW sec \in DOMAIN Kinds \ DOMAIN PlacementRole, NEW n \in Defined(s, sec)
    PROVE  Plain(sec, n) \in Ats(s)
<1>1. <<sec, n>> \in DOMAIN s /\ <<sec, n>>[1] = sec /\ <<sec, n>>[2] = n
  BY DefinedFacts
<1> DEFINE R(e) == Resource(Plain(e[1], e[2]), {e}, {s[e]}, Ordering(s, e), Refresh(s, e))
           E == {d \in DOMAIN s : d[1] \in DOMAIN Kinds \ DOMAIN PlacementRole}
<1>2. \E r \in Programs(s) : r.at = Plain(sec, n)
  <2>1. Programs(s) = {R(e) : e \in E}
    BY Zenon DEF Programs
  <2>2. <<sec, n>> \in E
    BY <1>1
  <2>3. R(<<sec, n>>).at = Plain(sec, n)
    BY DEF Resource
  <2> HIDE DEF R, E
  <2> QED  BY <2>1, <2>2, <2>3
<1> QED  BY <1>2 DEF Ats, Compiled

LEMMA KeptFacts ==
    ASSUME NEW s, NEW sec, NEW b \in Kept(s, sec)
    PROVE  b \in Bound(s, sec)
BY DEF Kept

\* Some node of a set of bindings is the last.
LEMMA LastNode ==
    ASSUME NEW S, S # {}, \A b \in S : b[1] \in Every("nodes")
    PROVE  \E b \in S : \A c \in S : Position[c[1]] <= Position[b[1]]
<1> DEFINE N == Every("nodes")
           f == [n \in N |-> Position[n]]
           P == {f[b[1]] : b \in S}
<1>1. \A n \in N : f[n] = Position[n] /\ Position[n] \in Nat
  BY PositionsOK
<1>2. P # {} /\ P \in SUBSET {f[n] : n \in N} /\ IsFiniteSet({f[n] : n \in N})
  BY EveryFinite, FiniteRange
<1>3. \A b \in S : f[b[1]] \in P /\ f[b[1]] = Position[b[1]]
  BY <1>1
<1>4. \A k \in P : \E b \in S : k = Position[b[1]] /\ k \in Int
  <2> SUFFICES ASSUME NEW k \in P PROVE \E b \in S : k = Position[b[1]] /\ k \in Int
    OBVIOUS
  <2>1. PICK b \in S : k = f[b[1]]
    OBVIOUS
  <2> HIDE DEF f, P
  <2> QED  BY <1>1, <2>1
<1> HIDE DEF f, P
<1>5. P \in SUBSET Int /\ IsFiniteSet(P)
  BY <1>2, <1>4, FS_Subset
<1>6. PICK most \in P : \A k \in P : k <= most
  BY <1>2, <1>5, GreatestExists
<1>7. PICK b \in S : most = Position[b[1]]
  BY <1>4
<1> QED  BY <1>3, <1>6, <1>7

\* Of the bindings that share an address that of the last node is kept.
LEMMA LastKept ==
    ASSUME NEW s, Drawn(s), NEW sec, NEW b \in Bound(s, sec)
    PROVE  \E c \in Kept(s, sec) :
              BindingAt(sec, c) = BindingAt(sec, b) /\ Position[b[1]] <= Position[c[1]]
<1> DEFINE S == {c \in Bound(s, sec) : BindingAt(sec, c) = BindingAt(sec, b)}
<1>1. b \in S /\ \A c \in S : c[1] \in Every("nodes")
  BY DefinedFacts DEF Bound
<1>2. PICK c \in S : \A x \in S : Position[x[1]] <= Position[c[1]]
  <2> HIDE DEF S
  <2> QED  BY <1>1, LastNode
<1>3. c \in Kept(s, sec)
  BY <1>2 DEF Kept
<1> QED  BY <1>1, <1>2, <1>3

LEMMA BindingPlanned ==
    ASSUME NEW s, Drawn(s), NEW sec \in DOMAIN Bindings, NEW b \in Bound(s, sec)
    PROVE  BindingAt(sec, b) \in Ats(s)
<1>1. PICK c \in Kept(s, sec) : BindingAt(sec, c) = BindingAt(sec, b)
  BY LastKept
<1>2. sec \in {"features", "conditions", "injects"}
  BY DEF Bindings
<1>3. \E r \in BindingResources(s) : r.at = BindingAt(sec, c)
  <2> DEFINE F(x) == Resource(BindingAt("features", x), {<<"nodes", x[1]>>, <<"features", x[2]>>},
                              {s[<<"features", x[2]>>]}, FeatureDependencies(s, x),
                              FeatureDependencies(s, x))
             C(x) == Resource(BindingAt("conditions", x), {<<"nodes", x[1]>>, <<"conditions", x[2]>>},
                              {s[<<"conditions", x[2]>>]}, {}, {NodeAt(s, x[1])})
             I(x) == Resource(BindingAt("injects", x), {<<"nodes", x[1]>>, <<"injects", x[2]>>}, {},
                              {Plain("injects", x[2])}, {NodeAt(s, x[1]), Plain("injects", x[2])})
  <2>1. BindingResources(s) = {F(x) : x \in Kept(s, "features")}
            \cup {C(x) : x \in Kept(s, "conditions")} \cup {I(x) : x \in Kept(s, "injects")}
    BY Zenon DEF BindingResources
  <2>2. /\ F(c).at = BindingAt("features", c) /\ C(c).at = BindingAt("conditions", c)
        /\ I(c).at = BindingAt("injects", c)
    BY DEF Resource
  <2> HIDE DEF F, C, I
  <2>3. \/ sec = "features" /\ F(c) \in BindingResources(s)
        \/ sec = "conditions" /\ C(c) \in BindingResources(s)
        \/ sec = "injects" /\ I(c) \in BindingResources(s)
    BY <1>2, <2>1
  <2> QED  BY <2>2, <2>3
<1> QED  BY <1>1, <1>3 DEF Ats, Compiled
-----------------------------------------------------------------------------
(***************************************************************************)
(* What a resource waits for and is refreshed with is planned.             *)
(***************************************************************************)
PlannedIn(s, domain) == {a \in Ats(s) : DomainOf(a) = domain}
Sensible(s, r) == r.ordering \subseteq PlannedIn(s, DomainOf(r.at)) /\ r.refresh \subseteq Ats(s)
Sound(s) == Drawn(s) /\ Placeholders(s) = {} /\ NamesResolve(s)

LEMMA NodeIn ==
    ASSUME NEW s, Drawn(s), NEW n \in Defined(s, "nodes")
    PROVE  NodeAt(s, n) \in PlannedIn(s, "provisioning")
BY NodePlanned, DefinedFacts, NodeDomain DEF PlannedIn

LEMMA PlainIn ==
    ASSUME NEW s, Drawn(s), NEW sec \in DOMAIN Kinds \ DOMAIN PlacementRole, NEW n \in Defined(s, sec)
    PROVE  Plain(sec, n) \in PlannedIn(s, SectionDomain(sec))
BY PlainPlanned, DefinedFacts, PlainDomain DEF PlannedIn

LEMMA BindingIn ==
    ASSUME NEW s, Drawn(s), NEW sec \in DOMAIN Bindings, NEW b \in Bound(s, sec)
    PROVE  BindingAt(sec, b) \in PlannedIn(s, SectionDomain(sec))
<1>1. b \in Every("nodes") \X Every(sec)
  BY DefinedFacts DEF Bound
<1> QED  BY <1>1, BindingPlanned, BindingDomain DEF PlannedIn

LEMMA DeploymentSensible ==
    ASSUME NEW s, Drawn(s), NEW r \in Deployments(s)
    PROVE  Sensible(s, r)
<1> DEFINE R(m) == Resource(NodeAt(s, m), {<<"nodes", m>>},
                            {s[e] : e \in {<<"nodes", m>>, <<"infrastructure", m>>} \cap DOMAIN s},
                            Neighbours(s, m), Neighbours(s, m))
<1>1. Deployments(s) = {R(m) : m \in Defined(s, "nodes")}
  BY Zenon DEF Deployments
<1>2. \A m : R(m).at = NodeAt(s, m) /\ R(m).ordering = Neighbours(s, m) /\ R(m).refresh = Neighbours(s, m)
  BY DEF Resource
<1> HIDE DEF R
<1>3. PICK n \in Defined(s, "nodes") : r = R(n)
  BY <1>1
<1>4. Neighbours(s, n) \subseteq PlannedIn(s, "provisioning")
  <2> SUFFICES ASSUME NEW a \in Neighbours(s, n) PROVE a \in PlannedIn(s, "provisioning")
    OBVIOUS
  <2>1. PICK d : a = NodeAt(s, d) /\ (d \in Defined(s, "nodes") \/ NodeIs(s, d, "switch"))
    BY Zenon DEF Neighbours
  <2> QED  BY <2>1, NodeDefined, NodeIn
<1>5. DomainOf(NodeAt(s, n)) = "provisioning"
  BY NodeIn DEF PlannedIn
<1> QED  BY <1>2, <1>3, <1>4, <1>5 DEF Sensible, PlannedIn

LEMMA FeaturesIn ==
    ASSUME NEW s, Sound(s), NEW b \in Bound(s, "features")
    PROVE  FeatureDependencies(s, b) \subseteq PlannedIn(s, "provisioning")
<1>1. b[1] \in Defined(s, "nodes") /\ b[2] \in Defined(s, "features") /\ NodeIs(s, b[1], "vm") /\ Drawn(s)
  BY DEF Bound, Sound
<1>2. ASSUME NEW d \in Named(s, <<"features", b[2]>>, "dependencies") \cap Named(s, <<"nodes", b[1]>>, "features")
      PROVE  BindingAt("features", <<b[1], d>>) \in PlannedIn(s, "provisioning")
  <2> DEFINE e == <<"features", b[2]>>
  <2>1. e \in DOMAIN s /\ e[1] = "features"
    BY <1>1, DefinedFacts
  <2>2. "dependencies" \in RolesOf("features") /\ Refers["features"]["dependencies"] = "features"
    BY DEF RolesOf, Refers
  <2>3. d \in Named(s, e, "dependencies")
    BY <1>2
  <2> HIDE DEF e
  <2>4. Named(s, e, "dependencies") \subseteq Defined(s, Refers[e[1]]["dependencies"])
    BY <2>1, <2>2, NamesDefined DEF Sound
  <2>5. d \in Defined(s, "features")
    BY <2>1, <2>2, <2>3, <2>4
  <2>6. <<b[1], d>> \in Bound(s, "features")
    BY <1>1, <1>2, <2>5 DEF Bound
  <2>7. "features" \in DOMAIN Bindings /\ SectionDomain("features") = "provisioning"
    BY DEF Bindings, SectionDomain
  <2> QED  BY <1>1, <2>6, <2>7, BindingIn
<1>3. NodeAt(s, b[1]) \in PlannedIn(s, "provisioning")
  BY <1>1, NodeIn
<1> QED  BY <1>2, <1>3 DEF FeatureDependencies

LEMMA BindingSensible ==
    ASSUME NEW s, Sound(s), NEW r \in BindingResources(s)
    PROVE  Sensible(s, r)
<1> DEFINE F(x) == Resource(BindingAt("features", x), {<<"nodes", x[1]>>, <<"features", x[2]>>},
                            {s[<<"features", x[2]>>]}, FeatureDependencies(s, x),
                            FeatureDependencies(s, x))
           C(x) == Resource(BindingAt("conditions", x), {<<"nodes", x[1]>>, <<"conditions", x[2]>>},
                            {s[<<"conditions", x[2]>>]}, {}, {NodeAt(s, x[1])})
           I(x) == Resource(BindingAt("injects", x), {<<"nodes", x[1]>>, <<"injects", x[2]>>}, {},
                            {Plain("injects", x[2])}, {NodeAt(s, x[1]), Plain("injects", x[2])})
<1>1. BindingResources(s) = {F(x) : x \in Kept(s, "features")}
          \cup {C(x) : x \in Kept(s, "conditions")} \cup {I(x) : x \in Kept(s, "injects")}
  BY Zenon DEF BindingResources
<1>2. \A x : /\ F(x).at = BindingAt("features", x) /\ F(x).ordering = FeatureDependencies(s, x)
             /\ F(x).refresh = FeatureDependencies(s, x)
             /\ C(x).at = BindingAt("conditions", x) /\ C(x).ordering = {}
             /\ C(x).refresh = {NodeAt(s, x[1])}
             /\ I(x).at = BindingAt("injects", x) /\ I(x).ordering = {Plain("injects", x[2])}
             /\ I(x).refresh = {NodeAt(s, x[1]), Plain("injects", x[2])}
  BY DEF Resource
<1> HIDE DEF F, C, I
<1>3. \A sec : \A x \in Kept(s, sec) : x \in Bound(s, sec) /\ x[1] \in Defined(s, "nodes") /\ x[2] \in Defined(s, sec)
  <2> SUFFICES ASSUME NEW sec, NEW x \in Kept(s, sec)
               PROVE  x \in Bound(s, sec) /\ x[1] \in Defined(s, "nodes") /\ x[2] \in Defined(s, sec)
    OBVIOUS
  <2>1. x \in Bound(s, sec)
    BY KeptFacts
  <2> QED  BY <2>1 DEF Bound
<1>4. /\ "features" \in DOMAIN Bindings /\ SectionDomain("features") = "provisioning"
      /\ "injects" \in DOMAIN Bindings /\ SectionDomain("injects") = "orchestration"
      /\ "injects" \in DOMAIN Kinds \ DOMAIN PlacementRole
  BY DEF Bindings, SectionDomain, Kinds, PlacementRole
<1>5. Drawn(s) /\ \A x \in Defined(s, "nodes") : NodeAt(s, x) \in Ats(s)
  BY NodePlanned DEF Sound
<1>6. CASE \E x \in Kept(s, "features") : r = F(x)
  <2>1. PICK x \in Kept(s, "features") : r = F(x)
    BY <1>6
  <2>2. FeatureDependencies(s, x) \subseteq PlannedIn(s, "provisioning")
    BY <1>3, FeaturesIn
  <2>3. DomainOf(BindingAt("features", x)) = "provisioning"
    BY <1>3, <1>4, <1>5, BindingIn DEF PlannedIn
  <2> QED  BY <1>2, <2>1, <2>2, <2>3 DEF Sensible, PlannedIn
<1>7. CASE \E x \in Kept(s, "conditions") : r = C(x)
  BY <1>2, <1>3, <1>5, <1>7 DEF Sensible
<1>8. CASE \E x \in Kept(s, "injects") : r = I(x)
  <2>1. PICK x \in Kept(s, "injects") : r = I(x)
    BY <1>8
  <2>2. Plain("injects", x[2]) \in PlannedIn(s, "orchestration")
    BY <1>3, <1>4, <1>5, PlainIn
  <2>3. DomainOf(BindingAt("injects", x)) = "orchestration"
    BY <1>3, <1>4, <1>5, BindingIn DEF PlannedIn
  <2> QED  BY <1>2, <1>3, <1>5, <2>1, <2>2, <2>3 DEF Sensible, PlannedIn
<1> QED  BY <1>1, <1>6, <1>7, <1>8

LEMMA PlacementSensible ==
    ASSUME NEW s, Drawn(s), NEW r \in Placements(s)
    PROVE  Sensible(s, r)
<1> DEFINE R(e) == Resource(Plain(e[1], e[2]), {e}, {s[e]}, {NodeAt(s, n) : n \in Hosts(s, e)},
                            {NodeAt(s, n) : n \in Hosts(s, e)})
           E == {d \in DOMAIN s : d[1] \in DOMAIN PlacementRole /\ Hosts(s, d) # {}}
<1>1. Placements(s) = {R(e) : e \in E}
  BY Zenon DEF Placements
<1>2. \A e : /\ R(e).at = Plain(e[1], e[2]) /\ R(e).ordering = {NodeAt(s, n) : n \in Hosts(s, e)}
             /\ R(e).refresh = {NodeAt(s, n) : n \in Hosts(s, e)}
  BY DEF Resource
<1> HIDE DEF R
<1>3. PICK e \in E : r = R(e)
  BY <1>1
<1>4. \A n \in Hosts(s, e) : NodeAt(s, n) \in PlannedIn(s, "provisioning")
  BY NodeDefined, NodeIn DEF Hosts
<1>5. DomainOf(Plain(e[1], e[2])) = "provisioning"
  <2>1. e[1] \in DOMAIN Kinds /\ e[2] \in Every(e[1]) /\ SectionDomain(e[1]) = "provisioning"
    BY DefinedFacts DEF PlacementRole, Kinds, SectionDomain
  <2> QED  BY <2>1, PlainDomain
<1> QED  BY <1>2, <1>3, <1>4, <1>5 DEF Sensible, PlannedIn

-----------------------------------------------------------------------------
LEMMA UpstreamIn ==
    ASSUME NEW s, Drawn(s), NEW e
    PROVE  /\ Upstream(s, e) \subseteq Ats(s)
           /\ e[1] # "workflows" => Upstream(s, e) \subseteq PlannedIn(s, SectionDomain(e[1]))
<1>1. ASSUME e[1] \in DOMAIN Resolved, NEW role \in Resolved[e[1]]
      PROVE  /\ Refers[e[1]][role] \in DOMAIN Kinds \ DOMAIN PlacementRole
             /\ e[1] # "workflows" => SectionDomain(Refers[e[1]][role]) = SectionDomain(e[1])
  <2>1. e[1] \in {"events", "scripts", "stories", "evaluations", "tlos", "goals", "objectives", "workflows"}
    BY <1>1 DEF Resolved
  <2>2. CASE e[1] = "events"
    BY <1>1, <2>2 DEF Resolved, Refers, Kinds, PlacementRole, SectionDomain
  <2>3. CASE e[1] = "scripts"
    BY <1>1, <2>3 DEF Resolved, Refers, Kinds, PlacementRole, SectionDomain
  <2>4. CASE e[1] = "stories"
    BY <1>1, <2>4 DEF Resolved, Refers, Kinds, PlacementRole, SectionDomain
  <2>5. CASE e[1] = "evaluations"
    BY <1>1, <2>5 DEF Resolved, Refers, Kinds, PlacementRole, SectionDomain
  <2>6. CASE e[1] = "tlos"
    BY <1>1, <2>6 DEF Resolved, Refers, Kinds, PlacementRole, SectionDomain
  <2>7. CASE e[1] = "goals"
    BY <1>1, <2>7 DEF Resolved, Refers, Kinds, PlacementRole, SectionDomain
  <2>8. CASE e[1] = "objectives"
    BY <1>1, <2>8 DEF Resolved, Refers, Kinds, PlacementRole, SectionDomain
  <2>9. CASE e[1] = "workflows"
    BY <1>1, <2>9 DEF Resolved, Refers, Kinds, PlacementRole
  <2> QED  BY <2>1, <2>2, <2>3, <2>4, <2>5, <2>6, <2>7, <2>8, <2>9
<1>2. ASSUME NEW a \in Upstream(s, e)
      PROVE  a \in Ats(s) /\ (e[1] # "workflows" => a \in PlannedIn(s, SectionDomain(e[1])))
  <2> DEFINE U(role) == {Plain(Refers[e[1]][role], x) :
                           x \in Named(s, e, role) \cap Defined(s, Refers[e[1]][role])}
             roles == IF e[1] \in DOMAIN Resolved THEN Resolved[e[1]] ELSE {}
  <2>1. Upstream(s, e) = UNION {U(role) : role \in roles}
    BY Zenon DEF Upstream
  <2>2. PICK role \in roles : a \in U(role)
    <3> HIDE DEF U, roles
    <3> QED  BY <1>2, <2>1
  <2>3. PICK x \in Defined(s, Refers[e[1]][role]) : a = Plain(Refers[e[1]][role], x)
    BY <2>2
  <2>4. e[1] \in DOMAIN Resolved /\ role \in Resolved[e[1]]
    BY <2>2
  <2>5. a \in PlannedIn(s, SectionDomain(Refers[e[1]][role]))
    BY <1>1, <2>3, <2>4, PlainIn
  <2> QED  BY <1>1, <2>4, <2>5 DEF PlannedIn
<1> QED  BY <1>2

LEMMA ConditionsIn ==
    ASSUME NEW s, Drawn(s), NEW e
    PROVE  ConditionsOf(s, e) \subseteq PlannedIn(s, "evaluation")
<1> SUFFICES ASSUME NEW c, NEW a \in TheBinding(s, c) PROVE a \in PlannedIn(s, "evaluation")
  BY Zenon DEF ConditionsOf
<1>1. PICK b \in Kept(s, "conditions") : a = BindingAt("conditions", b)
  BY DEF TheBinding
<1>2. b \in Bound(s, "conditions") /\ "conditions" \in DOMAIN Bindings
      /\ SectionDomain("conditions") = "evaluation"
  BY KeptFacts DEF Bindings, SectionDomain
<1> QED  BY <1>1, <1>2, BindingIn

LEMMA InjectedIn ==
    ASSUME NEW s, Drawn(s), NEW e
    PROVE  InjectedBy(s, e) \subseteq PlannedIn(s, "orchestration")
<1> SUFFICES ASSUME NEW a \in InjectedBy(s, e) PROVE a \in PlannedIn(s, "orchestration")
  OBVIOUS
<1>1. PICK b \in Kept(s, "injects") : a = BindingAt("injects", b)
  BY DEF InjectedBy
<1>2. b \in Bound(s, "injects") /\ "injects" \in DOMAIN Bindings
      /\ SectionDomain("injects") = "orchestration"
  BY KeptFacts DEF Bindings, SectionDomain
<1> QED  BY <1>1, <1>2, BindingIn

LEMMA WindowIn ==
    ASSUME NEW s, Drawn(s), NEW o
    PROVE  WindowOf(s, o) \subseteq Ats(s)
<1>1. \A sec \in WindowSections : sec \in DOMAIN Kinds \ DOMAIN PlacementRole
  BY DEF WindowSections, Kinds, PlacementRole
<1>2. "workflows" \in WindowSections
  BY DEF WindowSections
<1>3. \A w \in Window(s, o).workflows : w \in Defined(s, "workflows")
  <2> SUFFICES ASSUME NEW w \in Window(s, o).workflows PROVE w \in Defined(s, "workflows")
    OBVIOUS
  <2>1. \/ w \in Defined(s, "workflows")
        \/ \E x : w = x[1] /\ x[2] \in Named(s, <<"workflows", x[1]>>, "steps")
    BY DEF Window
  <2>2. CASE \E x : w = x[1] /\ x[2] \in Named(s, <<"workflows", x[1]>>, "steps")
    <3>1. <<"workflows", w>> \in DOMAIN s
      BY <2>2 DEF Named
    <3> QED  BY <3>1, DefinedFacts
  <2> QED  BY <2>1, <2>2
<1>4. ASSUME NEW a \in WindowOf(s, o) PROVE a \in Ats(s)
  <2> DEFINE U(sec) == {Plain(sec, x) : x \in Named(s, <<"objectives", o>>, sec) \cap Defined(s, sec)}
  <2>1. WindowOf(s, o) = (UNION {U(sec) : sec \in WindowSections})
                         \cup {Plain("workflows", w) : w \in Window(s, o).workflows}
    BY Zenon DEF WindowOf
  <2>2. \/ \E sec \in WindowSections : a \in U(sec)
        \/ \E w \in Window(s, o).workflows : a = Plain("workflows", w)
    <3> HIDE DEF U
    <3> QED  BY <1>4, <2>1
  <2>3. \/ \E sec \in WindowSections : \E x \in Defined(s, sec) : a = Plain(sec, x)
        \/ \E w \in Defined(s, "workflows") : a = Plain("workflows", w)
    BY <1>3, <2>2
  <2> QED  BY <1>1, <1>2, <2>3, PlainPlanned
<1> QED  BY <1>4

LEMMA ProgramSensible ==
    ASSUME NEW s, Drawn(s), NEW r \in Programs(s)
    PROVE  Sensible(s, r)
<1> DEFINE R(e) == Resource(Plain(e[1], e[2]), {e}, {s[e]}, Ordering(s, e), Refresh(s, e))
           E == {d \in DOMAIN s : d[1] \in DOMAIN Kinds \ DOMAIN PlacementRole}
<1>1. Programs(s) = {R(e) : e \in E}
  BY Zenon DEF Programs
<1>2. \A e : R(e).at = Plain(e[1], e[2]) /\ R(e).ordering = Ordering(s, e) /\ R(e).refresh = Refresh(s, e)
  BY DEF Resource
<1> HIDE DEF R
<1>3. PICK e \in E : r = R(e)
  BY <1>1
<1>4. /\ e[1] \in DOMAIN Kinds \ DOMAIN PlacementRole /\ e[2] \in Defined(s, e[1])
      /\ e[2] \in Every(e[1])
  BY <1>3, DefinedFacts
<1> HIDE DEF E
<1>5. DomainOf(Plain(e[1], e[2])) = SectionDomain(e[1])
  BY <1>4, PlainDomain
<1>6. Ordering(s, e) \subseteq PlannedIn(s, SectionDomain(e[1]))
  <2>1. CASE e[1] = "workflows"
    BY <2>1 DEF Ordering
  <2>2. CASE e[1] = "events"
    <3>1. SectionDomain(e[1]) = "orchestration" /\ e[1] # "workflows"
      BY <2>2 DEF SectionDomain
    <3>2. Upstream(s, e) \subseteq PlannedIn(s, "orchestration")
      BY <3>1, UpstreamIn
    <3>3. InjectedBy(s, e) \subseteq PlannedIn(s, "orchestration")
      BY InjectedIn
    <3> QED  BY <2>2, <3>1, <3>2, <3>3 DEF Ordering
  <2>3. CASE e[1] \notin {"workflows", "events"}
    <3>1. Upstream(s, e) \subseteq PlannedIn(s, SectionDomain(e[1]))
      BY <2>3, UpstreamIn
    <3>2. ConditionsOf(s, e) \subseteq PlannedIn(s, SectionDomain(e[1]))
      <4>1. CASE e[1] \in {"metrics", "objectives"}
        <5>1. SectionDomain(e[1]) = "evaluation"
          BY <4>1 DEF SectionDomain
        <5> QED  BY <5>1, ConditionsIn
      <4>2. CASE e[1] \notin {"metrics", "objectives"}
        <5>1. e[1] \notin DOMAIN ConditionRole
          BY <2>3, <4>2 DEF ConditionRole
        <5>2. ConditionsOf(s, e) = {}
          BY <5>1 DEF ConditionsOf, Conditions
        <5> QED  BY <5>2
      <4> QED  BY <4>1, <4>2
    <3>3. Ordering(s, e) = Upstream(s, e) \cup ConditionsOf(s, e)
      BY <2>3 DEF Ordering
    <3> QED  BY <3>1, <3>2, <3>3
  <2> QED  BY <2>1, <2>2, <2>3
<1>7. Refresh(s, e) \subseteq Ats(s)
  <2>1. Upstream(s, e) \subseteq Ats(s)
    BY UpstreamIn
  <2>2. ConditionsOf(s, e) \subseteq Ats(s) /\ InjectedBy(s, e) \subseteq Ats(s)
    BY ConditionsIn, InjectedIn DEF PlannedIn
  <2>3. WindowOf(s, e[2]) \subseteq Ats(s)
    BY WindowIn
  <2> QED  BY <2>1, <2>2, <2>3 DEF Refresh
<1> QED  BY <1>2, <1>3, <1>5, <1>6, <1>7 DEF Sensible

LEMMA CompiledSensible ==
    ASSUME NEW s, Sound(s), NEW r \in Compiled(s)
    PROVE  Sensible(s, r)
<1>1. Drawn(s)
  BY DEF Sound
<1> QED  BY <1>1, DeploymentSensible, BindingSensible, PlacementSensible, ProgramSensible
         DEF Compiled

\* Compiled resources have addresses of the fixed order.
LEMMA Addressed ==
    ASSUME NEW s, Drawn(s)
    PROVE  Ats(s) \subseteq Addresses
<1> SUFFICES ASSUME NEW r \in Compiled(s) PROVE r.at \in Addresses
  BY DEF Ats
<1> DEFINE A == {Plain(e[1], e[2]) : e \in {d \in Everything : d[1] \in DOMAIN Kinds}}
           N == {Address(kind, Labels[n]) : kind \in {"network", "node"}, n \in Every("nodes")}
           B(sec) == {BindingAt(sec, b) : b \in Every("nodes") \X Every(sec)}
           C == UNION {B(sec) : sec \in DOMAIN Bindings}
<1>1. Addresses = A \cup N \cup C
  BY DEF Addresses
<1>2. \A e \in DOMAIN s : e[1] \in DOMAIN Kinds => Plain(e[1], e[2]) \in A
  BY DEF Drawn
<1>3. \A n \in Defined(s, "nodes") : NodeAt(s, n) \in N
  <2> SUFFICES ASSUME NEW n \in Defined(s, "nodes")
               PROVE  \E kind \in {"network", "node"} : \E m \in Every("nodes") :
                          NodeAt(s, n) = Address(kind, Labels[m])
    OBVIOUS
  <2>1. n \in Every("nodes")
    BY DefinedFacts
  <2>2. \E kind \in {"network", "node"} : NodeAt(s, n) = Address(kind, Labels[n])
    BY DEF NodeAt
  <2> QED  BY <2>1, <2>2
<1>4. \A sec \in DOMAIN Bindings : \A b \in Bound(s, sec) : BindingAt(sec, b) \in C
  <2> SUFFICES ASSUME NEW sec \in DOMAIN Bindings, NEW b \in Bound(s, sec)
               PROVE  BindingAt(sec, b) \in B(sec)
    <3> HIDE DEF B
    <3> QED  OBVIOUS
  <2>1. b \in Every("nodes") \X Every(sec)
    BY DefinedFacts DEF Bound
  <2> QED  BY <2>1
<1> HIDE DEF A, N, B, C
<1>5. CASE r \in Deployments(s)
  <2> DEFINE R(m) == Resource(NodeAt(s, m), {<<"nodes", m>>},
                              {s[e] : e \in {<<"nodes", m>>, <<"infrastructure", m>>} \cap DOMAIN s},
                              Neighbours(s, m), Neighbours(s, m))
  <2>1. Deployments(s) = {R(m) : m \in Defined(s, "nodes")}
    BY Zenon DEF Deployments
  <2>2. \A m : R(m).at = NodeAt(s, m)
    BY DEF Resource
  <2> HIDE DEF R
  <2> QED  BY <1>1, <1>3, <1>5, <2>1, <2>2
<1>6. CASE r \in BindingResources(s)
  <2> DEFINE F(x) == Resource(BindingAt("features", x), {<<"nodes", x[1]>>, <<"features", x[2]>>},
                              {s[<<"features", x[2]>>]}, FeatureDependencies(s, x),
                              FeatureDependencies(s, x))
             D(x) == Resource(BindingAt("conditions", x), {<<"nodes", x[1]>>, <<"conditions", x[2]>>},
                              {s[<<"conditions", x[2]>>]}, {}, {NodeAt(s, x[1])})
             I(x) == Resource(BindingAt("injects", x), {<<"nodes", x[1]>>, <<"injects", x[2]>>}, {},
                              {Plain("injects", x[2])}, {NodeAt(s, x[1]), Plain("injects", x[2])})
  <2>1. BindingResources(s) = {F(x) : x \in Kept(s, "features")}
            \cup {D(x) : x \in Kept(s, "conditions")} \cup {I(x) : x \in Kept(s, "injects")}
    BY Zenon DEF BindingResources
  <2>2. \A x : /\ F(x).at = BindingAt("features", x) /\ D(x).at = BindingAt("conditions", x)
               /\ I(x).at = BindingAt("injects", x)
    BY DEF Resource
  <2> HIDE DEF F, D, I
  <2>3. {"features", "conditions", "injects"} = DOMAIN Bindings
    BY DEF Bindings
  <2>4. \E sec \in DOMAIN Bindings : \E x \in Kept(s, sec) : r.at = BindingAt(sec, x)
    BY <1>6, <2>1, <2>2, <2>3
  <2>5. \A sec : Kept(s, sec) \subseteq Bound(s, sec)
    BY KeptFacts
  <2> QED  BY <1>1, <1>4, <2>4, <2>5
<1>7. CASE r \in Placements(s)
  <2> DEFINE R(e) == Resource(Plain(e[1], e[2]), {e}, {s[e]}, {NodeAt(s, n) : n \in Hosts(s, e)},
                              {NodeAt(s, n) : n \in Hosts(s, e)})
             E == {d \in DOMAIN s : d[1] \in DOMAIN PlacementRole /\ Hosts(s, d) # {}}
  <2>1. Placements(s) = {R(e) : e \in E}
    BY Zenon DEF Placements
  <2>2. \A e : R(e).at = Plain(e[1], e[2])
    BY DEF Resource
  <2>3. \A e \in E : e \in DOMAIN s /\ e[1] \in DOMAIN Kinds
    BY DEF PlacementRole, Kinds
  <2> HIDE DEF R, E
  <2> QED  BY <1>1, <1>2, <1>7, <2>1, <2>2, <2>3
<1>8. CASE r \in Programs(s)
  <2> DEFINE R(e) == Resource(Plain(e[1], e[2]), {e}, {s[e]}, Ordering(s, e), Refresh(s, e))
             E == {d \in DOMAIN s : d[1] \in DOMAIN Kinds \ DOMAIN PlacementRole}
  <2>1. Programs(s) = {R(e) : e \in E}
    BY Zenon DEF Programs
  <2>2. \A e : R(e).at = Plain(e[1], e[2])
    BY DEF Resource
  <2>3. \A e \in E : e \in DOMAIN s /\ e[1] \in DOMAIN Kinds
    OBVIOUS
  <2> HIDE DEF R, E
  <2> QED  BY <1>1, <1>2, <1>8, <2>1, <2>2, <2>3
<1> QED  BY <1>5, <1>6, <1>7, <1>8 DEF Compiled

-----------------------------------------------------------------------------
(***************************************************************************)
(* The planner's form of the compiled resources.                           *)
(***************************************************************************)
Places(as) == {Place[a] : a \in as}

\* A resource is at the place of its address, with the places of what it waits
\* for and is refreshed with.
FormOf(s, i) ==
    \E r \in Compiled(s) :
        /\ r.at = Canonical[i] /\ i = Place[r.at]
        /\ Resources(s)[i].payload = r.payload
        /\ Resources(s)[i].ordering = Places(r.ordering)
        /\ Resources(s)[i].refresh = Places(r.refresh)

LEMMA ResourcesFacts ==
    ASSUME NEW s, Drawn(s)
    PROVE  /\ DOMAIN Resources(s) = Places(Ats(s))
           /\ \A i \in DOMAIN Resources(s) : FormOf(s, i)
<1> DEFINE compiled == Compiled(s)
           at == {r.at : r \in compiled}
           the == [a \in at |-> CHOOSE r \in compiled : r.at = a]
           F(r) == [payload |-> r.payload, ordering |-> Places(r.ordering),
                    refresh |-> Places(r.refresh)]
<1>1. Resources(s) = [i \in Places(at) |-> F(the[Canonical[i]])]
  BY DEF Resources, Places
<1>2. at = Ats(s)
  BY DEF Ats
<1>3. \A a \in at : the[a] \in Compiled(s) /\ the[a].at = a
  <2> SUFFICES ASSUME NEW a \in at PROVE the[a] \in Compiled(s) /\ the[a].at = a
    OBVIOUS
  <2>1. \E r \in compiled : r.at = a
    OBVIOUS
  <2> QED  BY <2>1
<1>4. \A r : /\ F(r).payload = r.payload /\ F(r).ordering = Places(r.ordering)
             /\ F(r).refresh = Places(r.refresh)
  OBVIOUS
<1> HIDE DEF at, the, F
<1>5. ASSUME NEW i \in Places(at) PROVE FormOf(s, i)
  <2>1. PICK a \in at : i = Place[a]
    BY DEF Places
  <2>2. Canonical[i] = a
    BY <1>2, <2>1, Addressed, PlaceFacts
  <2>3. Resources(s)[i] = F(the[a])
    BY <1>1, <1>5, <2>2
  <2>4. the[a] \in Compiled(s) /\ the[a].at = a
    BY <1>3
  <2> QED  BY <1>4, <2>1, <2>2, <2>3, <2>4 DEF FormOf
<1> QED  BY <1>1, <1>2, <1>5

\* A plan's dependencies, for the resources of a sound scenario.
Answered(rs) ==
    \A i \in DOMAIN rs :
        /\ \A j \in rs[i].ordering :
              j \in DOMAIN rs /\ DomainOf(Canonical[j]) = DomainOf(Canonical[i])
        /\ rs[i].refresh \subseteq DOMAIN rs

LEMMA ResourcesAnswered ==
    ASSUME NEW s, Sound(s)
    PROVE  Answered(Resources(s))
<1> SUFFICES ASSUME NEW i \in DOMAIN Resources(s)
             PROVE  /\ \A j \in Resources(s)[i].ordering :
                          j \in DOMAIN Resources(s) /\ DomainOf(Canonical[j]) = DomainOf(Canonical[i])
                    /\ Resources(s)[i].refresh \subseteq DOMAIN Resources(s)
  BY DEF Answered
<1>1. Drawn(s) /\ DOMAIN Resources(s) = Places(Ats(s)) /\ FormOf(s, i)
  BY ResourcesFacts DEF Sound
<1>2. PICK r \in Compiled(s) :
          /\ r.at = Canonical[i]
          /\ Resources(s)[i].ordering = Places(r.ordering)
          /\ Resources(s)[i].refresh = Places(r.refresh)
  BY <1>1 DEF FormOf
<1>3. Sensible(s, r)
  BY CompiledSensible
<1>4. ASSUME NEW j \in Resources(s)[i].ordering
      PROVE  j \in DOMAIN Resources(s) /\ DomainOf(Canonical[j]) = DomainOf(Canonical[i])
  <2>1. PICK a \in r.ordering : j = Place[a]
    BY <1>2, <1>4 DEF Places
  <2>2. a \in Ats(s) /\ DomainOf(a) = DomainOf(r.at)
    BY <1>3, <2>1 DEF Sensible, PlannedIn
  <2>3. Canonical[j] = a
    BY <1>1, <2>1, <2>2, Addressed, PlaceFacts
  <2> QED  BY <1>1, <1>2, <2>1, <2>2, <2>3 DEF Places
<1>5. Resources(s)[i].refresh \subseteq DOMAIN Resources(s)
  BY <1>1, <1>2, <1>3 DEF Places, Sensible
<1> QED  BY <1>4, <1>5
-----------------------------------------------------------------------------
(***************************************************************************)
(* Substitution.                                                           *)
(***************************************************************************)
Given(d, p, x) == IF x \in DOMAIN ValuesOf(d, p) THEN ValuesOf(d, p)[x] ELSE x
WellFormed(d) == Drawn(d) /\ \A e \in DOMAIN d : d[e] \in Bodies(e)

LEMMA BodyChanged ==
    ASSUME NEW k, NEW v, NEW f, NEW b, b = [kind |-> k, value |-> v, refs |-> f], NEW w, NEW g
    PROVE  /\ [b EXCEPT !.value = w, !.refs = g].kind = k
           /\ [b EXCEPT !.value = w, !.refs = g].value = w
           /\ [b EXCEPT !.value = w, !.refs = g].refs = g
OBVIOUS

LEMMA ConcreteFacts ==
    ASSUME NEW d, NEW p
    PROVE  /\ DOMAIN Concrete(d, p) = DOMAIN d
           /\ WellFormed(d) => \A e \in DOMAIN d :
                 /\ Concrete(d, p)[e].kind = d[e].kind
                 /\ Concrete(d, p)[e].value = Given(d, p, d[e].value)
                 /\ DOMAIN Concrete(d, p)[e].refs = DOMAIN d[e].refs
                 /\ \A role \in DOMAIN d[e].refs :
                       Concrete(d, p)[e].refs[role] = {Given(d, p, x) : x \in d[e].refs[role]}
<1> DEFINE of(x) == IF x \in DOMAIN ValuesOf(d, p) THEN ValuesOf(d, p)[x] ELSE x
           B(e) == [d[e] EXCEPT !.value = of(@),
                                !.refs = [r \in DOMAIN @ |-> {of(x) : x \in @[r]}]]
<1>1. Concrete(d, p) = [e \in DOMAIN d |-> B(e)]
  BY Zenon DEF Concrete
<1>2. ASSUME WellFormed(d), NEW e \in DOMAIN d
      PROVE  /\ B(e).kind = d[e].kind
             /\ B(e).value = of(d[e].value)
             /\ DOMAIN B(e).refs = DOMAIN d[e].refs
             /\ \A role \in DOMAIN d[e].refs : B(e).refs[role] = {of(x) : x \in d[e].refs[role]}
  <2>1. d[e] = [kind |-> d[e].kind, value |-> d[e].value, refs |-> d[e].refs]
    BY <1>2, BodiesOK DEF WellFormed, Drawn
  <2> HIDE DEF of
  <2> DEFINE refs == [r \in DOMAIN d[e].refs |-> {of(x) : x \in d[e].refs[r]}]
  <2>2. B(e).kind = d[e].kind /\ B(e).value = of(d[e].value) /\ B(e).refs = refs
    <3> HIDE DEF refs
    <3>1. B(e) = [d[e] EXCEPT !.value = of(d[e].value), !.refs = refs]
      BY DEF refs
    <3> HIDE DEF B
    <3> QED  BY <2>1, <3>1, BodyChanged
  <2> HIDE DEF B
  <2> QED  BY <2>2
<1>3. \A x : of(x) = Given(d, p, x)
  BY DEF Given
<1> HIDE DEF B, of
<1> QED  BY <1>1, <1>2, <1>3

-----------------------------------------------------------------------------
(***************************************************************************)
(* The inductive invariant of the pipeline: the draft is made of the given *)
(* bodies, and in stage planned the concrete scenario is an accepted       *)
(* instance of the draft and the plan is its plan.                         *)
(***************************************************************************)
PlannedNow ==
    \E p \in Parameters :
        /\ Instantiates(draft, p)
        /\ concrete = Concrete(draft, p)
        /\ plan = PlanOf(draft, concrete)

PipelineInv ==
    manifest \in Manifests /\ WellFormed(draft) /\ (stage = "planned" => PlannedNow)

LEMMA PipelineInvHolds == PipelineSpec => []PipelineInv
<1>1. PipelineInit => PipelineInv
  <2> SUFFICES ASSUME PipelineInit PROVE PipelineInv
    OBVIOUS
  <2>1. stage # "planned" /\ draft \in FirstDrafts /\ manifest \in Manifests
    BY DEF PipelineInit
  <2>2. \A e \in DOMAIN draft : e \in Everything /\ draft[e] \in Bodies(e)
    BY <2>1 DEF Everything, Bodies
  <2> QED  BY <2>1, <2>2 DEF PipelineInv, WellFormed, Drawn
<1>2. PipelineInv /\ [PipelineNext]_pipelineVars => PipelineInv'
  <2> SUFFICES ASSUME PipelineInv, [PipelineNext]_pipelineVars PROVE PipelineInv'
    OBVIOUS
  <2> DEFINE Grown(s) == WellFormed(s) => PipelineInv'
  <2>1. ASSUME NEW s, WellFormed(s), Written(s) PROVE PipelineInv'
    BY <2>1 DEF Written, PipelineInv, WellFormed, Drawn
  <2>2. ASSUME NEW e \in DOMAIN Drafts, NEW body \in Drafts[e], Write(e, body) PROVE PipelineInv'
    <3> DEFINE s == [d \in DOMAIN draft \cup {e} |-> IF d = e THEN body ELSE draft[d]]
    <3>1. e \in Everything /\ body \in Bodies(e)
      BY <2>2 DEF Everything, Bodies
    <3>2. DOMAIN s = DOMAIN draft \cup {e} /\ Written(s)
      BY <2>2 DEF Write
    <3>3. \A d \in DOMAIN s : s[d] = IF d = e THEN body ELSE draft[d]
      OBVIOUS
    <3> HIDE DEF s
    <3>4. WellFormed(s)
      BY <3>1, <3>2, <3>3 DEF PipelineInv, WellFormed, Drawn
    <3> QED  BY <2>1, <3>2, <3>4
  <2>3. ASSUME NEW e \in DOMAIN Drafts, Erase(e) PROVE PipelineInv'
    <3> DEFINE s == [d \in DOMAIN draft \ {e} |-> draft[d]]
    <3>1. Written(s) /\ WellFormed(s)
      BY <2>3 DEF Erase, PipelineInv, WellFormed, Drawn
    <3> HIDE DEF s
    <3> QED  BY <2>1, <3>1
  <2>4. CASE Parse
    <3>1. stage' # "planned" /\ draft' = draft /\ manifest' = manifest
      BY <2>4 DEF Parse
    <3> QED  BY <3>1 DEF PipelineInv, WellFormed, Drawn
  <2>5. ASSUME NEW p \in Parameters, MakePlan(p) PROVE PipelineInv'
    <3>1. UNCHANGED <<manifest, draft, edits, entries, applied>>
      BY <2>5 DEF MakePlan
    <3>2. CASE Instantiates(draft, p)
      <4>1. concrete' = Concrete(draft, p) /\ plan' = PlanOf(draft, Concrete(draft, p))
        BY <2>5, <3>2 DEF MakePlan
      <4>2. PlanOf(draft, Concrete(draft, p))' = PlanOf(draft, Concrete(draft, p))
        BY <3>1 DEF PlanOf
      <4>3. plan' = PlanOf(draft, concrete)'
        <5>1. PlanOf(draft, concrete)' = PlanOf(draft, Concrete(draft, p))
          BY <3>1, <4>1 DEF PlanOf
        <5> QED  BY <4>1, <5>1
      <4>4. PlannedNow'
        BY <3>1, <3>2, <4>1, <4>3 DEF PlannedNow
      <4> QED  BY <3>1, <4>4 DEF PipelineInv, WellFormed, Drawn
    <3>3. CASE ~Instantiates(draft, p)
      <4>1. stage' # "planned"
        BY <2>5, <3>3 DEF MakePlan
      <4> QED  BY <3>1, <4>1 DEF PipelineInv, WellFormed, Drawn
    <3> QED  BY <3>2, <3>3
  <2>6. CASE Apply
    <3>1. stage' # "planned" /\ draft' = draft /\ manifest' = manifest
      BY <2>6 DEF Apply
    <3> QED  BY <3>1 DEF PipelineInv, WellFormed, Drawn
  <2>7. CASE UNCHANGED pipelineVars
    <3>1. /\ draft' = draft /\ stage' = stage /\ concrete' = concrete /\ plan' = plan
          /\ entries' = entries /\ manifest' = manifest
      BY <2>7 DEF pipelineVars
    <3>2. PlanOf(draft, concrete)' = PlanOf(draft, concrete)
      BY <3>1 DEF PlanOf
    <3>3. PlannedNow => PlannedNow'
      BY <3>1, <3>2 DEF PlannedNow
    <3> QED  BY <3>1, <3>3 DEF PipelineInv, WellFormed, Drawn
  <2> QED  BY <2>2, <2>3, <2>4, <2>5, <2>6, <2>7 DEF PipelineNext
<1> QED  BY <1>1, <1>2, PTL DEF PipelineSpec

LEMMA PlanFacts ==
    ASSUME NEW d, NEW s
    PROVE  /\ PlanOf(d, s).resources = Resources(s)
           /\ PlanOf(d, s).valid => Issues(s) = {} /\ Supported(d, s, manifest)
<1> DEFINE p == Planner!Plan(Resources(s), entries)
<1>1. p.resources = Resources(s) /\ p = [resources |-> p.resources, base |-> p.base,
                                        valid |-> p.valid, ops |-> p.ops]
  BY DEF Planner!Plan
<1>2. PlanOf(d, s) = [p EXCEPT !.valid = @ /\ Issues(s) = {} /\ Supported(d, s, manifest)]
  BY DEF PlanOf
<1> HIDE DEF p
<1>3. PlanOf(d, s) = [resources |-> p.resources, base |-> p.base,
                      valid |-> p.valid /\ Issues(s) = {} /\ Supported(d, s, manifest),
                      ops |-> p.ops]
  BY <1>1, <1>2
<1> DEFINE V == p.valid /\ Issues(s) = {} /\ Supported(d, s, manifest)
<1>4. V => Issues(s) = {} /\ Supported(d, s, manifest)
  OBVIOUS
<1>5. PlanOf(d, s) = [resources |-> p.resources, base |-> p.base, valid |-> V, ops |-> p.ops]
  BY <1>3
<1> HIDE DEF V
<1>6. PlanOf(d, s).resources = p.resources /\ PlanOf(d, s).valid = V
  BY <1>5
<1> QED  BY <1>1, <1>4, <1>6

LEMMA InstanceSound ==
    ASSUME NEW d, WellFormed(d), NEW p, Instantiates(d, p)
    PROVE  Sound(Concrete(d, p)) /\ Accepted(Concrete(d, p))
BY ConcreteFacts DEF Instantiates, Accepted, Sound, Drawn, WellFormed

(***************************************************************************)
(* No dependency of a valid plan is dropped: what a resource waits for is  *)
(* planned in its own domain (compiler.py keeps what crosses domains out   *)
(* of the ordering), and what it is refreshed with is planned.             *)
(***************************************************************************)
THEOREM DependenciesPlannedCorrect == PipelineSpec => []DependenciesPlanned
<1>1. PipelineInv => DependenciesPlanned
  <2> SUFFICES ASSUME PipelineInv, stage = "planned" PROVE DependenciesPlanned
    BY DEF DependenciesPlanned
  <2>1. PICK p \in Parameters : /\ Instantiates(draft, p) /\ concrete = Concrete(draft, p)
                                /\ plan = PlanOf(draft, concrete)
    BY DEF PipelineInv, PlannedNow
  <2>2. Answered(plan.resources)
    BY <2>1, InstanceSound, ResourcesAnswered, PlanFacts DEF PipelineInv
  <2> QED  BY <2>2 DEF DependenciesPlanned, Answered
<1> QED  BY <1>1, PipelineInvHolds, PTL
-----------------------------------------------------------------------------
(***************************************************************************)
(* What the compiler finds in an accepted instance.                        *)
(***************************************************************************)
Clean(s) == Sound(s) /\ Accepted(s)

LEMMA RolesNamed ==
    ASSUME NEW s, Clean(s), NEW e \in DOMAIN s, NEW role \in RolesOf(e[1])
    PROVE  Named(s, e, role) \ Defined(s, Refers[e[1]][role]) = {}
BY NamesDefined DEF Clean, Sound

LEMMA NodesFound ==
    ASSUME NEW s, Clean(s), NEW e \in DOMAIN s
    PROVE  /\ e[1] = "infrastructure" =>
                /\ Named(s, e, "dependencies") \ Defined(s, "nodes") = {}
                /\ \A l \in Named(s, e, "links") : NodeIs(s, l, "switch")
           /\ e[1] = "content" => \A n \in Named(s, e, "target") : NodeIs(s, n, "vm")
           /\ e[1] = "accounts" => \A n \in Named(s, e, "node") : NodeIs(s, n, "vm")
<1>1. /\ Drawn(s) /\ Placeholders(s) = {} /\ SwitchesLinked(s) /\ NodeTypesFit(s) /\ Deployable(s)
      /\ e = <<e[1], e[2]>> /\ e[2] \in Defined(s, e[1])
  BY DefinedFacts DEF Clean, Sound, Accepted, NodeTypesFit
<1>2. \A sec, role, kind : AllOf(s, sec, role, kind) /\ e[1] = sec =>
          \A n \in Named(s, e, role) : NodeIs(s, n, kind)
  <2> SUFFICES ASSUME NEW sec, NEW role, NEW kind, AllOf(s, sec, role, kind), e[1] = sec,
                      NEW n \in Named(s, e, role)
               PROVE  NodeIs(s, n, kind)
    OBVIOUS
  <2>1. n \in Known(s, <<sec, e[2]>>, role)
    BY <1>1, NamesKnown
  <2> QED  BY <1>1, <2>1 DEF AllOf
<1>3. ASSUME e[1] = "infrastructure"
      PROVE  /\ Named(s, e, "dependencies") \ Defined(s, "nodes") = {}
             /\ \A l \in Named(s, e, "links") : NodeIs(s, l, "switch")
  <2>1. AllOf(s, "infrastructure", "links", "switch")
    BY <1>1 DEF SwitchesLinked
  <2>2. "dependencies" \in RolesOf(e[1]) /\ Refers[e[1]]["dependencies"] = "infrastructure"
    BY <1>3 DEF RolesOf, Refers
  <2>3. Named(s, e, "dependencies") \subseteq Defined(s, "infrastructure")
    BY <2>2, RolesNamed
  <2>4. \A n \in Defined(s, "infrastructure") : n \in Defined(s, "nodes")
    BY <1>1, DefinedFacts DEF Deployable
  <2> QED  BY <1>2, <1>3, <2>1, <2>3, <2>4
<1>4. AllOf(s, "content", "target", "vm") /\ AllOf(s, "accounts", "node", "vm")
  BY <1>1 DEF NodeTypesFit
<1> QED  BY <1>2, <1>3, <1>4

LEMMA HostsFound ==
    ASSUME NEW d, WellFormed(d), NEW p, Instantiates(d, p), NEW e \in DOMAIN d,
           e[1] \in DOMAIN PlacementRole
    PROVE  Hosts(Concrete(d, p), e) # {}
<1> DEFINE s == Concrete(d, p)
           role == PlacementRole[e[1]]
<1>1. Clean(s)
  BY InstanceSound DEF Clean
<1>2. \/ e[1] = "content" /\ role = "target"
      \/ e[1] = "accounts" /\ role = "node"
  BY DEF PlacementRole
<1>3. role \in DOMAIN d[e].refs /\ d[e].refs[role] # {}
  BY PlacedOK DEF WellFormed, Drawn
<1>4. PICK x : x \in d[e].refs[role]
  BY <1>3
<1>5. /\ e \in DOMAIN s /\ role \in DOMAIN s[e].refs
      /\ s[e].refs[role] = {Given(d, p, y) : y \in d[e].refs[role]}
  BY <1>3, ConcreteFacts
<1> HIDE DEF s, role
<1>6. Given(d, p, x) \in Named(s, e, role)
  BY <1>4, <1>5 DEF Named
<1>7. NodeIs(s, Given(d, p, x), "vm")
  BY <1>1, <1>2, <1>5, <1>6, NodesFound
<1>8. Given(d, p, x) \in Hosts(s, e)
  BY <1>6, <1>7 DEF Hosts, role
<1> QED  BY <1>8 DEF s

LEMMA InstanceIssues ==
    ASSUME NEW d, WellFormed(d), NEW p, Instantiates(d, p)
    PROVE  Issues(Concrete(d, p)) \subseteq {"condition", "feature"}
<1> DEFINE s == Concrete(d, p)
<1>1. Clean(s) /\ DOMAIN s = DOMAIN d
  BY InstanceSound, ConcreteFacts DEF Clean
<1>2. \A e \in DOMAIN s : e[1] \in DOMAIN PlacementRole => Hosts(s, e) # {}
  BY <1>1, HostsFound
<1> HIDE DEF s
<1>3. Faults(s).dependency = {} /\ Faults(s).link = {}
  BY <1>1, NodesFound DEF Faults
<1>4. Faults(s).template = {}
  <2>1. \A sec \in DOMAIN Bindings : sec \in RolesOf("nodes") /\ Refers["nodes"][sec] = sec
    BY DEF Bindings, RolesOf, Refers
  <2>2. \A e \in DOMAIN s : e[1] = "nodes" =>
            \A sec \in DOMAIN Bindings : Named(s, e, sec) \ Defined(s, sec) = {}
    BY <1>1, <2>1, RolesNamed
  <2> QED  BY <2>2 DEF Faults
<1>5. Faults(s).placement = {}
  BY <1>2 DEF Faults
<1>6. Faults(s).name = {}
  BY <1>1, RolesNamed DEF Faults
<1>7. Faults(s).window = {}
  <2>1. \A e \in DOMAIN s : e[1] = "objectives" => WindowIssues(s, e[2]) = {}
    BY <1>1, DefinedFacts DEF Clean, Sound, Accepted, ObjectivesBound
  <2> QED  BY <2>1 DEF Faults
<1>8. DOMAIN Faults(s) = {"dependency", "link", "template", "feature", "placement", "condition",
                          "name", "window"}
  BY DEF Faults
<1> QED  BY <1>3, <1>4, <1>5, <1>6, <1>7, <1>8 DEF Issues, s

(***************************************************************************)
(* The compiler resolves every reference the validator accepted, also one  *)
(* that was a placeholder (instantiate.py validates what it substituted):  *)
(* its diagnostics for an accepted instance are of conditions without one  *)
(* binding and of features without a dependency beside them.               *)
(***************************************************************************)
THEOREM AcceptedCompilesCorrect == PipelineSpec => []AcceptedCompiles
<1>1. PipelineInv => AcceptedCompiles
  <2> SUFFICES ASSUME PipelineInv, stage = "planned" PROVE AcceptedCompiles
    BY DEF AcceptedCompiles
  <2>1. PICK p \in Parameters : Instantiates(draft, p) /\ concrete = Concrete(draft, p)
    BY DEF PipelineInv, PlannedNow
  <2>2. WellFormed(draft)
    BY DEF PipelineInv
  <2> QED  BY <2>1, <2>2, InstanceSound, InstanceIssues DEF AcceptedCompiles, Sound
<1> QED  BY <1>1, PipelineInvHolds, PTL

LEMMA GreatestOf ==
    ASSUME NEW S \in SUBSET Nat, IsFiniteSet(S), S # {}
    PROVE  Max(S) \in S /\ \A x \in S : x <= Max(S)
<1>1. \E most \in S : \A k \in S : most >= k
  <2>1. S \in SUBSET Int
    OBVIOUS
  <2>2. PICK most \in S : \A k \in S : k <= most
    BY <2>1, GreatestExists
  <2> QED  BY <2>2
<1>2. Max(S) \in S /\ \A y \in S : Max(S) >= y
  BY <1>1 DEF Max
<1> QED  BY <1>2
-----------------------------------------------------------------------------
(***************************************************************************)
(* What the planner checks of a draft holds for all its instances.         *)
(***************************************************************************)
LEMMA GivenFacts ==
    ASSUME NEW d, WellFormed(d), NEW p, Instantiates(d, p), NEW e \in DOMAIN d,
           NEW x, x = d[e].value
    PROVE  /\ x \in Variables =>
                /\ x \in Defined(d, "variables")
                /\ Allowed(d, x) # {} => Given(d, p, x) \in Allowed(d, x)
                /\ \/ x \in DOMAIN p /\ Given(d, p, x) = p[x]
                   \/ /\ Given(d, p, x) = d[<<"variables", x>>].value
                      /\ Given(d, p, x) # NoValue
           /\ x \notin Variables => Given(d, p, x) = x
<1> DEFINE values == ValuesOf(d, p)
           given == [v \in Defined(d, "variables") |->
                        IF v \in DOMAIN p THEN p[v] ELSE d[<<"variables", v>>].value]
<1>1. values = [v \in {w \in DOMAIN given : given[w] # NoValue} |-> given[v]]
  BY DEF ValuesOf
<1>2. /\ DOMAIN values \subseteq Defined(d, "variables")
      /\ \A v \in DOMAIN values :
            /\ values[v] = IF v \in DOMAIN p THEN p[v] ELSE d[<<"variables", v>>].value
            /\ values[v] # NoValue
  BY <1>1
<1>3. \A v \in Defined(d, "variables") : v \in DOMAIN values /\ Allowed(d, v) # {} => values[v] \in Allowed(d, v)
  BY DEF Instantiates, ParametersFit
<1>4. Given(d, p, x) = IF x \in DOMAIN values THEN values[x] ELSE x
  BY DEF Given
<1> HIDE DEF values, given
<1>5. ASSUME x \in Variables PROVE x \in DOMAIN values
  <2> SUFFICES ASSUME x \notin DOMAIN values PROVE FALSE
    OBVIOUS
  <2>1. e \in DOMAIN Concrete(d, p) /\ Concrete(d, p)[e].value = x
    BY <1>4, ConcreteFacts
  <2>2. x \in Placeholders(Concrete(d, p))
    BY <1>5, <2>1 DEF Placeholders
  <2> QED  BY <2>2 DEF Instantiates
<1>6. ASSUME x \in DOMAIN values PROVE x \in Variables
  <2>1. <<"variables", x>> \in Everything
    BY <1>2, <1>6, DefinedFacts DEF WellFormed, Drawn
  <2>2. <<"variables", x>>[1] = "variables" /\ <<"variables", x>>[2] = x
    OBVIOUS
  <2> QED  BY <2>1, <2>2, CountsOK
<1> QED  BY <1>2, <1>3, <1>4, <1>5, <1>6

\* Instances that agree on the placeholders without allowed values have the
\* values the planner checked one of them for.
Agree(d, s, t) ==
    \A e \in DOMAIN d :
        d[e].value \in {v \in Defined(d, "variables") : Allowed(d, v) = {}} =>
            s[e].value = t[e].value

LEMMA ValueChecked ==
    ASSUME NEW d, WellFormed(d), NEW p, Instantiates(d, p), NEW q, Instantiates(d, q),
           Agree(d, Concrete(d, q), Concrete(d, p)), NEW e \in DOMAIN d
    PROVE  Concrete(d, q)[e].value \in Checked(d, Concrete(d, p), e)
<1> DEFINE x == d[e].value
<1>1. Concrete(d, q)[e].value = Given(d, q, x) /\ Concrete(d, p)[e].value = Given(d, p, x)
  BY ConcreteFacts
<1>2. CASE x \in Variables /\ Allowed(d, x) # {}
  <2>1. Given(d, q, x) \in Allowed(d, x)
    BY <1>2, GivenFacts
  <2> QED  BY <1>1, <1>2, <2>1 DEF Checked
<1>3. CASE x \in Variables /\ Allowed(d, x) = {}
  <2>1. x \in Defined(d, "variables")
    BY <1>3, GivenFacts
  <2> QED  BY <1>3, <2>1 DEF Checked, Agree
<1>4. CASE x \notin Variables
  <2>1. Given(d, q, x) = x /\ Given(d, p, x) = x
    BY <1>4, GivenFacts
  <2> QED  BY <1>1, <1>4, <2>1 DEF Checked
<1> QED  BY <1>2, <1>3, <1>4

LEMMA CountsTyped ==
    ASSUME NEW d, WellFormed(d), NEW p \in Parameters, Instantiates(d, p), NEW e \in DOMAIN d,
           e[1] = "infrastructure"
    PROVE  /\ Concrete(d, p)[e].value \in Nat
           /\ Checked(d, Concrete(d, p), e) \subseteq Nat
           /\ IsFiniteSet(Checked(d, Concrete(d, p), e))
<1> DEFINE x == d[e].value
           v == <<"variables", x>>
<1>1. e \in Everything /\ d[e] \in Bodies(e)
  BY DEF WellFormed, Drawn
<1>2. /\ x \notin Variables => x \in Nat
      /\ \A b \in Bodies(v) :
            /\ b.value # NoValue => b.value \in Nat
            /\ "allowed_values" \in DOMAIN b.refs =>
                 IsFiniteSet(b.refs["allowed_values"]) /\ b.refs["allowed_values"] \subseteq Nat
      /\ x \in DOMAIN p => p[x] \in Nat
  BY <1>1, CountsOK
<1>3. Concrete(d, p)[e].value = Given(d, p, x)
  BY ConcreteFacts
<1>4. v \in DOMAIN d => d[v] \in Bodies(v)
  BY DEF WellFormed
<1>5. x \in Defined(d, "variables") => v \in DOMAIN d
  BY DefinedFacts DEF WellFormed
<1>6. Allowed(d, x) \subseteq Nat /\ IsFiniteSet(Allowed(d, x))
  <2>1. Allowed(d, x) = IF v \in DOMAIN d /\ "allowed_values" \in DOMAIN d[v].refs
                        THEN d[v].refs["allowed_values"] ELSE {}
    BY DEF Allowed, Named
  <2> QED  BY <1>2, <1>4, <2>1, FS_EmptySet
<1>7. Given(d, p, x) \in Nat
  <2>1. CASE x \in Variables
    BY <1>2, <1>4, <1>5, <2>1, GivenFacts
  <2>2. CASE x \notin Variables
    BY <1>2, <2>2, GivenFacts
  <2> QED  BY <2>1, <2>2
<1>8. Checked(d, Concrete(d, p), e) = Allowed(d, x) \/ Checked(d, Concrete(d, p), e) = {Given(d, p, x)}
  BY <1>3 DEF Checked
<1>9. {Given(d, p, x)} \subseteq Nat /\ IsFiniteSet({Given(d, p, x)})
  BY <1>7, FS_Singleton
<1>10. CASE Checked(d, Concrete(d, p), e) = Allowed(d, x)
  BY <1>3, <1>6, <1>7, <1>10
<1>11. CASE Checked(d, Concrete(d, p), e) = {Given(d, p, x)}
  BY <1>3, <1>7, <1>9, <1>11
<1> QED  BY <1>8, <1>10, <1>11
-----------------------------------------------------------------------------
\* The count a node has and the count the planner reckons with.
Counted(s) == [n \in Defined(s, "nodes") |->
                 IF <<"infrastructure", n>> \in DOMAIN s
                 THEN s[<<"infrastructure", n>>].value ELSE 1]
Reckoned(d, s) == [n \in Defined(s, "nodes") |->
                     IF <<"infrastructure", n>> \in DOMAIN s
                     THEN Max(Checked(d, s, <<"infrastructure", n>>)) ELSE 1]

LEMMA TotalFacts ==
    ASSUME NEW d, NEW s, IsFiniteSet(Defined(s, "nodes")),
           Reckoned(d, s) \in [Defined(s, "nodes") -> Nat]
    PROVE  \E f : Summing(f, Defined(s, "nodes"), Reckoned(d, s)) /\ Total(d, s) = f[Defined(s, "nodes")]
<1> DEFINE S == Defined(s, "nodes")
           c == Reckoned(d, s)
           pick(T) == CHOOSE x \in T : TRUE
           count(n) == IF <<"infrastructure", n>> \in DOMAIN s
                       THEN Max(Checked(d, s, <<"infrastructure", n>>)) ELSE 1
           Sums(g) == g = [T \in SUBSET S |->
                             IF T = {} THEN 0 ELSE count(pick(T)) + g[T \ {pick(T)}]]
           f == CHOOSE g : Sums(g)
<1>1. Total(d, s) = f[S]
  BY DEF Total, MapThenSumSet, MapThenFoldSet
<1>2. \A n \in S : c[n] = count(n)
  BY DEF Reckoned
<1>3. \A T \in SUBSET S : T # {} => c[pick(T)] = count(pick(T))
  <2> HIDE DEF count, S, c
  <2> QED  BY <1>2
<1> HIDE DEF count
<1>4. \A g : Summing(g, S, c) <=> Sums(g)
  <2> TAKE g
  <2> DEFINE A == [T \in SUBSET S |-> IF T = {} THEN 0 ELSE c[pick(T)] + g[T \ {pick(T)}]]
             B == [T \in SUBSET S |-> IF T = {} THEN 0 ELSE count(pick(T)) + g[T \ {pick(T)}]]
  <2>1. Summing(g, S, c) <=> g = A
    BY DEF Summing
  <2>2. Sums(g) <=> g = B
    OBVIOUS
  <2>3. A = B
    <3> HIDE DEF S, c, pick, Sums
    <3> QED  BY <1>3
  <2> HIDE DEF A, B, Sums
  <2> QED  BY <2>1, <2>2, <2>3
<1> HIDE DEF Sums, pick
<1>5. \E g : Sums(g)
  <2>1. \E g : Summing(g, S, c)
    BY SumExists
  <2> HIDE DEF S, c
  <2> QED  BY <1>4, <2>1
<1>6. Sums(f)
  BY <1>5
<1> HIDE DEF f
<1> QED  BY <1>1, <1>4, <1>6

LEMMA SumOfCounts ==
    ASSUME NEW s, IsFiniteSet(Defined(s, "nodes")),
           Counted(s) \in [Defined(s, "nodes") -> Nat], NEW m
    PROVE  \E f : /\ Summing(f, Defined(s, "nodes"), Counted(s))
                  /\ Fits(s, m) <=>
                        /\ \A n \in Defined(s, "nodes") :
                              NodeIs(s, n, "vm") => s[<<"nodes", n>>].value \in m.os \cup {NoValue}
                        /\ m.total # NoValue => f[Defined(s, "nodes")] <= m.total
<1> DEFINE S == Defined(s, "nodes")
           c == Counted(s)
           pick(T) == CHOOSE x \in T : TRUE
           count(n) == IF <<"infrastructure", n>> \in DOMAIN s
                       THEN s[<<"infrastructure", n>>].value ELSE 1
           Sums(g) == g = [T \in SUBSET S |->
                             IF T = {} THEN 0 ELSE count(pick(T)) + g[T \ {pick(T)}]]
           f == CHOOSE g : Sums(g)
           Placed == \A n \in Defined(s, "nodes") :
                        NodeIs(s, n, "vm") => s[<<"nodes", n>>].value \in m.os \cup {NoValue}
<1>1. Fits(s, m) <=> Placed /\ (m.total # NoValue => f[S] <= m.total)
  BY DEF Fits, MapThenSumSet, MapThenFoldSet
<1>2. \A n \in S : c[n] = count(n)
  BY DEF Counted
<1>3. \A T \in SUBSET S : T # {} => c[pick(T)] = count(pick(T))
  <2> HIDE DEF count, S, c
  <2> QED  BY <1>2
<1> HIDE DEF count
<1>4. \A g : Summing(g, S, c) <=> Sums(g)
  <2> TAKE g
  <2> DEFINE A == [T \in SUBSET S |-> IF T = {} THEN 0 ELSE c[pick(T)] + g[T \ {pick(T)}]]
             B == [T \in SUBSET S |-> IF T = {} THEN 0 ELSE count(pick(T)) + g[T \ {pick(T)}]]
  <2>1. Summing(g, S, c) <=> g = A
    BY DEF Summing
  <2>2. Sums(g) <=> g = B
    OBVIOUS
  <2>3. A = B
    <3> HIDE DEF S, c, pick, Sums
    <3> QED  BY <1>3
  <2> HIDE DEF A, B, Sums
  <2> QED  BY <2>1, <2>2, <2>3
<1> HIDE DEF Sums, pick
<1>5. \E g : Sums(g)
  <2>1. \E g : Summing(g, S, c)
    BY SumExists
  <2> HIDE DEF S, c
  <2> QED  BY <1>4, <2>1
<1>6. Sums(f)
  BY <1>5
<1> HIDE DEF f
<1>7. Summing(f, S, c)
  BY <1>4, <1>6
<1> HIDE DEF Placed
<1>8. Summing(f, S, c) /\ (Fits(s, m) <=> Placed /\ (m.total # NoValue => f[S] <= m.total))
  BY <1>1, <1>7
<1> QED  BY <1>8 DEF Placed
LEMMA InstancesFit ==
    ASSUME NEW d, WellFormed(d),
           NEW p \in Parameters, Instantiates(d, p), NEW q \in Parameters, Instantiates(d, q),
           Agree(d, Concrete(d, q), Concrete(d, p)), 
           NEW m \in Manifests, Supported(d, Concrete(d, p), m)
    PROVE  Fits(Concrete(d, q), m)
<1> DEFINE s == Concrete(d, p)
           t == Concrete(d, q)
           N == Defined(d, "nodes")
<1>1. /\ DOMAIN s = DOMAIN d /\ DOMAIN t = DOMAIN d
      /\ \A sec : Defined(s, sec) = Defined(d, sec) /\ Defined(t, sec) = Defined(d, sec)
  BY ConcreteFacts DEF Defined
<1>2. \A n : NodeIs(t, n, "vm") => NodeIs(s, n, "vm") /\ <<"nodes", n>> \in DOMAIN d
  <2> SUFFICES ASSUME NEW n, NodeIs(t, n, "vm") PROVE NodeIs(s, n, "vm") /\ <<"nodes", n>> \in DOMAIN d
    OBVIOUS
  <2>1. <<"nodes", n>> \in DOMAIN d
    BY <1>1 DEF NodeIs
  <2>2. s[<<"nodes", n>>].kind = t[<<"nodes", n>>].kind
    BY <2>1, ConcreteFacts
  <2> QED  BY <1>1, <2>1, <2>2 DEF NodeIs
<1>3. \A e \in DOMAIN d : t[e].value \in Checked(d, s, e)
  BY ValueChecked
<1>4. IsFiniteSet(N)
  <2>1. N \subseteq Every("nodes")
    BY DefinedFacts DEF WellFormed
  <2>2. IsFiniteSet(Every("nodes"))
    BY EveryFinite
  <2> QED  BY <2>1, <2>2, FS_Subset
<1>5. \A e \in DOMAIN d : e[1] = "infrastructure" =>
          /\ t[e].value \in Nat /\ Checked(d, s, e) \subseteq Nat /\ IsFiniteSet(Checked(d, s, e))
  BY CountsTyped
<1> HIDE DEF s, t, N
<1>6. \A e \in DOMAIN d : e[1] = "infrastructure" =>
          /\ t[e].value \in Nat /\ Max(Checked(d, s, e)) \in Nat
          /\ t[e].value <= Max(Checked(d, s, e))
  <2> SUFFICES ASSUME NEW e \in DOMAIN d, e[1] = "infrastructure"
               PROVE  /\ t[e].value \in Nat /\ Max(Checked(d, s, e)) \in Nat
                      /\ t[e].value <= Max(Checked(d, s, e))
    OBVIOUS
  <2>1. /\ t[e].value \in Checked(d, s, e) /\ t[e].value \in Nat
        /\ Checked(d, s, e) \in SUBSET Nat /\ IsFiniteSet(Checked(d, s, e))
    BY <1>3, <1>5
  <2>2. Max(Checked(d, s, e)) \in Checked(d, s, e) /\ \A x \in Checked(d, s, e) : x <= Max(Checked(d, s, e))
    BY <2>1, GreatestOf
  <2> QED  BY <2>1, <2>2
<1>7. /\ Counted(t) \in [N -> Nat] /\ Reckoned(d, s) \in [N -> Nat]
      /\ \A n \in N : Counted(t)[n] <= Reckoned(d, s)[n]
  <2>1. \A n : <<"infrastructure", n>>[1] = "infrastructure"
    OBVIOUS
  <2>2. Counted(t) = [n \in N |-> IF <<"infrastructure", n>> \in DOMAIN d
                                  THEN t[<<"infrastructure", n>>].value ELSE 1]
    BY <1>1 DEF Counted, N
  <2>3. Reckoned(d, s) = [n \in N |-> IF <<"infrastructure", n>> \in DOMAIN d
                                  THEN Max(Checked(d, s, <<"infrastructure", n>>)) ELSE 1]
    BY <1>1 DEF Reckoned, N
  <2> QED  BY <1>6, <2>1, <2>2, <2>3
<1>8. Defined(t, "nodes") = N /\ Defined(s, "nodes") = N
  BY <1>1 DEF N
<1>9. PICK f : /\ Summing(f, N, Counted(t))
               /\ Fits(t, m) <=>
                     /\ \A n \in N : NodeIs(t, n, "vm") => t[<<"nodes", n>>].value \in m.os \cup {NoValue}
                     /\ m.total # NoValue => f[N] <= m.total
  BY <1>4, <1>7, <1>8, SumOfCounts
<1>10. PICK g : Summing(g, N, Reckoned(d, s)) /\ Total(d, s) = g[N]
  BY <1>4, <1>7, <1>8, TotalFacts
<1>11. f[N] \in Nat /\ g[N] \in Nat /\ f[N] <= g[N]
  BY <1>4, <1>7, <1>9, <1>10, SumsOrdered
<1>12. \A n \in N : NodeIs(t, n, "vm") => t[<<"nodes", n>>].value \in m.os \cup {NoValue}
  <2> SUFFICES ASSUME NEW n \in N, NodeIs(t, n, "vm")
               PROVE  t[<<"nodes", n>>].value \in m.os \cup {NoValue}
    OBVIOUS
  <2>1. Checked(d, s, <<"nodes", n>>) \subseteq m.os \cup {NoValue}
    BY <1>2, <1>8 DEF Supported, SystemsFit, s
  <2> QED  BY <1>2, <1>3, <2>1
<1>13. m.total # NoValue => f[N] <= m.total
  <2> SUFFICES ASSUME m.total # NoValue PROVE f[N] <= m.total
    OBVIOUS
  <2>1. g[N] <= m.total /\ m.total \in Nat
    BY <1>10, ManifestsOK DEF Supported, s
  <2> QED  BY <1>11, <2>1
<1>14. Fits(t, m)
  BY <1>9, <1>12, <1>13
<1> QED  BY <1>14 DEF t

(***************************************************************************)
(* A backend a plan is valid for fits every instance that differs only in  *)
(* what limited placeholders stand for: the planner checks all allowed     *)
(* values of a placeholder, and instantiation takes no other.              *)
(***************************************************************************)
THEOREM PlanFitsCorrect == PipelineSpec => []PlanFits
<1>1. PipelineInv => PlanFits
  <2> SUFFICES ASSUME PipelineInv, stage = "planned", plan.valid PROVE PlanFits
    BY DEF PlanFits
  <2>1. PICK p \in Parameters : /\ Instantiates(draft, p) /\ concrete = Concrete(draft, p)
                                /\ plan = PlanOf(draft, concrete)
    BY DEF PipelineInv, PlannedNow
  <2>2. WellFormed(draft) /\ manifest \in Manifests
    BY DEF PipelineInv
  <2>3. Supported(draft, concrete, manifest)
    BY <2>1, PlanFacts
  <2>4. ASSUME NEW q \in Parameters, Instantiates(draft, q), Agree(draft, Concrete(draft, q), concrete)
        PROVE  Fits(Concrete(draft, q), manifest)
    BY <2>1, <2>2, <2>3, <2>4, InstancesFit
  <2> QED  BY <2>4 DEF PlanFits, Agree
<1> QED  BY <1>1, PipelineInvHolds, PTL
-----------------------------------------------------------------------------
(***************************************************************************)
(* Cycles: what the planner finds to be one, and what the validator finds  *)
(* to be none.                                                             *)
(***************************************************************************)
\* Every member of the set has a successor in it.
Circular(g, C) == C # {} /\ C \subseteq DOMAIN g /\ \A x \in C : g[x] \cap C # {}

\* The planner's module is an instance, and so is its Cardinality.
LEMMA SameCardinality == ASSUME NEW S PROVE Planner!Cardinality(S) = Cardinality(S)
BY DEF Cardinality, Planner!Cardinality

LEMMA DownstreamSteps ==
    ASSUME NEW g, IsFiniteSet(DOMAIN g), NEW from
    PROVE  /\ Planner!Reached(g, from)[0] = from
           /\ \A k \in 1 .. Cardinality(DOMAIN g) :
                Planner!Reached(g, from)[k] =
                  Planner!Reached(g, from)[k - 1]
                    \cup {x \in DOMAIN g : g[x] \cap Planner!Reached(g, from)[k - 1] # {}}
<1> DEFINE n == Cardinality(DOMAIN g)
           S == SUBSET (from \cup DOMAIN g)
           more(T) == T \cup {x \in DOMAIN g : g[x] \cap T # {}}
           step == [T \in S |-> more(T)]
           table(f) == [k \in 0 .. n |-> IF k = 0 THEN from ELSE more(f[k - 1])]
<1>1. n \in Nat
  BY FS_CardinalityType
<1>2. from \in S /\ step \in [S -> S]
  OBVIOUS
<1>3. \E f : f = table(f)
  <2> HIDE DEF step, S, n
  <2>1. PICK f : Repeats(f, S, from, step, n)
    BY <1>1, <1>2, Repeated, Zenon
  <2>2. f \in [0 .. n -> S] /\ f[0] = from /\ \A k \in 1 .. n : f[k] = step[f[k - 1]]
    BY <2>1 DEF Repeats
  <2>3. ASSUME NEW k \in 1 .. n PROVE f[k] = more(f[k - 1])
    <3>1. f[k - 1] \in S
      BY <1>1, <2>2
    <3> HIDE DEF more
    <3> QED  BY <2>2, <3>1 DEF step
  <2> HIDE DEF more
  <2>4. f = table(f)
    BY <1>1, <2>2, <2>3
  <2> QED  BY <2>4
<1>4. Planner!Reached(g, from) = CHOOSE f : f = table(f)
  <2>1. n = Planner!Cardinality(DOMAIN g)
    BY SameCardinality
  <2> HIDE DEF n
  <2> QED  BY <2>1 DEF Planner!Reached
<1>5. Planner!Reached(g, from) = table(Planner!Reached(g, from))
  <2> HIDE DEF table
  <2> QED  BY <1>3, <1>4, Zenon
<1> HIDE DEF n, more
<1>6. \A r : r = table(r) => r[0] = from /\ \A k \in 1 .. n : r[k] = more(r[k - 1])
  BY <1>1
<1>7. /\ Planner!Reached(g, from)[0] = from
      /\ \A k \in 1 .. n : Planner!Reached(g, from)[k] = more(Planner!Reached(g, from)[k - 1])
  BY <1>5, <1>6
<1> QED  BY <1>7 DEF more, n

\* What is downstream of a node on a cycle is circular: a node is added for a
\* node it depends on.
LEMMA CycleIsCircular ==
    ASSUME NEW g, IsFiniteSet(DOMAIN g), Planner!Cyclic(g)
    PROVE  \E C : Circular(g, C)
<1>1. PICK x \in DOMAIN g : \E m \in g[x] : m \in Planner!Downstream(g, {x})
  BY DEF Planner!Cyclic
<1>2. PICK m \in g[x] : m \in Planner!Downstream(g, {x})
  BY <1>1
<1> DEFINE n == Cardinality(DOMAIN g)
           r == Planner!Reached(g, {x})
           C == r[n]
<1>3. n \in Nat /\ m \in C
  BY <1>2, SameCardinality, FS_CardinalityType DEF Planner!Downstream
<1>4. /\ r[0] = {x}
      /\ \A k \in 1 .. n : r[k] = r[k - 1] \cup {y \in DOMAIN g : g[y] \cap r[k - 1] # {}}
  <2> DEFINE from == {x}
  <2> HIDE DEF from
  <2>1. /\ Planner!Reached(g, from)[0] = from
        /\ \A k \in 1 .. n :
             Planner!Reached(g, from)[k] =
               Planner!Reached(g, from)[k - 1]
                 \cup {y \in DOMAIN g : g[y] \cap Planner!Reached(g, from)[k - 1] # {}}
    BY DownstreamSteps
  <2> QED  BY <2>1 DEF from
<1> HIDE DEF r, n
<1> DEFINE Led(T) == /\ x \in T /\ T \subseteq DOMAIN g
                     /\ \A y \in T : y = x \/ g[y] \cap T # {}
           A == {k \in Nat : k <= n => Led(r[k])}
<1>5. 0 \in A
  BY <1>4
<1>6. ASSUME NEW k \in Nat, k \in A PROVE k + 1 \in A
  <2> SUFFICES ASSUME k + 1 <= n PROVE Led(r[k + 1])
    OBVIOUS
  <2>1. k + 1 \in 1 .. n /\ (k + 1) - 1 = k /\ k <= n
    BY <1>3
  <2>2. Led(r[k])
    BY <1>6, <2>1
  <2> DEFINE T == r[k]
             U == r[k + 1]
  <2>3. U = T \cup {y \in DOMAIN g : g[y] \cap T # {}}
    BY <1>4, <2>1
  <2> HIDE DEF T, U
  <2>4. Led(T)
    BY <2>2 DEF T
  <2>5. Led(U)
    BY <2>3, <2>4
  <2> QED  BY <2>5 DEF U
<1>7. Led(C)
  <2>1. n \in A
    <3> HIDE DEF A
    <3> QED  BY <1>3, <1>5, <1>6, SetInduction
  <2> QED  BY <1>3, <2>1
<1> HIDE DEF C
<1>8. Circular(g, C)
  BY <1>2, <1>3, <1>7 DEF Circular
<1> QED  BY <1>8

LEMMA AfterSteps ==
    ASSUME NEW D, IsFiniteSet(D), NEW g \in [D -> SUBSET D], NEW x \in D
    PROVE  \E r : /\ r[0] = g[x]
                  /\ \A k \in 1 .. Cardinality(D) :
                        r[k] = r[k - 1] \cup UNION {g[y] : y \in r[k - 1] \cap D}
                  /\ After(g, x) = r[Cardinality(D)]
<1> DEFINE n == Cardinality(D)
           next(T) == UNION {g[y] : y \in T \cap D}
           more(T) == T \cup next(T)
           step == [T \in SUBSET D |-> more(T)]
           start == next({x})
           table(f) == [k \in 0 .. n |-> IF k = 0 THEN start ELSE more(f[k - 1])]
           r == CHOOSE f : f = table(f)
<1>1. n \in Nat /\ DOMAIN g = D
  BY FS_CardinalityType
<1>2. start = g[x]
  <2>1. {x} \cap D = {x}
    OBVIOUS
  <2> QED  BY <2>1
<1>3. step \in [SUBSET D -> SUBSET D]
  <2> SUFFICES ASSUME NEW T \in SUBSET D PROVE next(T) \subseteq D
    OBVIOUS
  <2> QED  OBVIOUS
<1>4. After(g, x) = r[n]
  BY <1>1 DEF After
<1> HIDE DEF next, start
<1>5. \E f : f = table(f)
  <2> HIDE DEF step, n
  <2>1. start \in SUBSET D
    BY <1>2
  <2>2. PICK f : Repeats(f, SUBSET D, start, step, n)
    BY <1>1, <1>3, <2>1, Repeated, Zenon
  <2>3. f \in [0 .. n -> SUBSET D] /\ f[0] = start /\ \A k \in 1 .. n : f[k] = step[f[k - 1]]
    BY <2>2 DEF Repeats
  <2>4. ASSUME NEW k \in 1 .. n PROVE f[k] = more(f[k - 1])
    <3>1. f[k - 1] \in SUBSET D
      BY <1>1, <2>3
    <3> HIDE DEF more
    <3> QED  BY <2>3, <3>1 DEF step
  <2> HIDE DEF more
  <2>5. f = table(f)
    BY <1>1, <2>3, <2>4
  <2> QED  BY <2>5
<1>6. r = table(r)
  <2> HIDE DEF table
  <2> QED  BY <1>5, Zenon
<1> HIDE DEF n, more, r
<1>7. \A f : f = table(f) => f[0] = start /\ \A k \in 1 .. n : f[k] = more(f[k - 1])
  BY <1>1
<1>8. r[0] = g[x] /\ \A k \in 1 .. n : r[k] = more(r[k - 1])
  BY <1>2, <1>6, <1>7
<1>9. \A k \in 1 .. n : r[k] = r[k - 1] \cup UNION {g[y] : y \in r[k - 1] \cap D}
  BY <1>8 DEF more, next
<1> QED  BY <1>4, <1>8, <1>9 DEF n

\* One can go round in a circular set, and what one comes back to comes after
\* itself.
LEMMA AcyclicHasNoCircle ==
    ASSUME NEW D, IsFiniteSet(D), NEW g \in [D -> SUBSET D], Acyclic(g), NEW C
    PROVE  ~Circular(g, C)
<1> SUFFICES ASSUME Circular(g, C) PROVE FALSE
  OBVIOUS
<1> DEFINE n == Cardinality(D)
           step == [x \in C |-> CHOOSE y \in C : y \in g[x]]
<1>1. C \in SUBSET D /\ C # {} /\ \A x \in C : g[x] \cap C # {}
  BY DEF Circular
<1>2. n \in Nat
  BY FS_CardinalityType
<1>3. \A x \in C : step[x] \in C /\ step[x] \in g[x]
  BY <1>1
<1>4. step \in [C -> C]
  BY <1>3
<1> HIDE DEF step
<1>a. n = Cardinality(D)
  OBVIOUS
<1> HIDE DEF n
<1>b. PICK w : Returns(w, C, step, n)
  BY <1>1, <1>4, <1>a, WalkReturns
<1>5. /\ w \in [0 .. n -> C] /\ \A k \in 1 .. n : w[k] = step[w[k - 1]]
      /\ \E i, j \in 0 .. n : i < j /\ w[i] = w[j]
  BY <1>b DEF Returns
<1>6. \A k \in 1 .. n : w[k] \in g[w[k - 1]] /\ w[k - 1] \in D
  <2> SUFFICES ASSUME NEW k \in 1 .. n PROVE w[k] \in g[w[k - 1]] /\ w[k - 1] \in D
    OBVIOUS
  <2>1. w[k - 1] \in C
    BY <1>2, <1>5
  <2> QED  BY <1>1, <1>3, <1>5, <2>1
<1>7. PICK i \in 0 .. n, j \in 0 .. n : i < j /\ w[i] = w[j]
  BY <1>5
<1>8. w[i] \in D
  BY <1>1, <1>5
<1>9. PICK r : /\ r[0] = g[w[i]]
               /\ \A k \in 1 .. n : r[k] = r[k - 1] \cup UNION {g[y] : y \in r[k - 1] \cap D}
               /\ After(g, w[i]) = r[n]
  BY <1>8, <1>a, AfterSteps
<1> DEFINE A == {k \in Nat : k <= n => \A m \in i + 1 .. n : m <= i + k + 1 => w[m] \in r[k]}
<1>10. 0 \in A
  <2> SUFFICES ASSUME NEW m \in i + 1 .. n, m <= i + 0 + 1 PROVE w[m] \in r[0]
    OBVIOUS
  <2>1. m \in 1 .. n /\ m - 1 = i
    BY <1>2, <1>7
  <2> QED  BY <1>6, <1>9, <2>1
<1>11. ASSUME NEW k \in Nat, k \in A PROVE k + 1 \in A
  <2> SUFFICES ASSUME k + 1 <= n, NEW m \in i + 1 .. n, m <= i + (k + 1) + 1
               PROVE  w[m] \in r[k + 1]
    OBVIOUS
  <2>1. k + 1 \in 1 .. n /\ (k + 1) - 1 = k /\ k <= n
    BY <1>2
  <2>2. r[k + 1] = r[k] \cup UNION {g[y] : y \in r[k] \cap D}
    BY <1>9, <2>1
  <2>3. CASE m <= i + k + 1
    <3>1. w[m] \in r[k]
      BY <1>11, <2>1, <2>3
    <3> QED  BY <2>2, <3>1
  <2>4. CASE m = i + (k + 1) + 1
    <3>1. m - 1 \in i + 1 .. n /\ m - 1 <= i + k + 1 /\ m \in 1 .. n
      BY <1>2, <2>4
    <3>2. w[m - 1] \in r[k]
      BY <1>11, <2>1, <3>1
    <3>3. w[m] \in g[w[m - 1]] /\ w[m - 1] \in D
      BY <1>6, <3>1
    <3> QED  BY <2>2, <3>2, <3>3
  <2> QED  BY <1>2, <2>3, <2>4
<1>12. n \in A
  <2> HIDE DEF A
  <2> QED  BY <1>2, <1>10, <1>11, SetInduction
<1>13. w[j] \in r[n]
  <2>1. j \in i + 1 .. n /\ j <= i + n + 1
    BY <1>2, <1>7
  <2> QED  BY <1>2, <1>12, <2>1
<1> QED  BY <1>7, <1>8, <1>9, <1>13 DEF Acyclic
-----------------------------------------------------------------------------
(***************************************************************************)
(* What an address tells.                                                  *)
(***************************************************************************)
LEMMA AddressTells ==
    ASSUME NEW S, NEW l \in Seq(S), NEW T, NEW m \in Seq(T), NEW kind, NEW other,
           Address(kind, l) = Address(other, m)
    PROVE  kind = other /\ l = m
<1>1. kind = other
  BY HeadOfAddress
<1> DEFINE U == S \cup T \cup {kind}
<1>2. l \in Seq(U) /\ m \in Seq(U)
  BY SeqMonotonic
<1>3. <<kind>> \in Seq(U)
  OBVIOUS
<1> HIDE DEF U
<1>4. /\ SubSeq(<<kind>> \o l, Len(<<kind>>) + 1, Len(<<kind>> \o l)) = l
      /\ SubSeq(<<kind>> \o m, Len(<<kind>>) + 1, Len(<<kind>> \o m)) = m
  BY <1>2, <1>3, SuffixOfConcat
<1>5. <<kind>> \o l = <<kind>> \o m
  BY <1>1 DEF Address
<1> QED  BY <1>1, <1>4, <1>5

LEMMA SameName ==
    ASSUME NEW sec, NEW n \in Every(sec), NEW m \in Every(sec), NEW kind, NEW other,
           Address(kind, Labels[n]) = Address(other, Labels[m])
    PROVE  n = m
<1>1. Labels[n] = Labels[m]
  BY LabelsFacts, AddressTells
<1>2. <<sec, n>> \in Everything /\ <<sec, m>> \in Everything
  BY ElementFacts
<1> QED  BY <1>1, <1>2, LabelsOK

LEMMA SameNode ==
    ASSUME NEW s, NEW n \in Every("nodes"), NEW m \in Every("nodes"), NodeAt(s, n) = NodeAt(s, m)
    PROVE  n = m
BY SameName DEF NodeAt

LEMMA SamePlain ==
    ASSUME NEW sec, NEW n \in Every(sec), NEW m \in Every(sec), Plain(sec, n) = Plain(sec, m)
    PROVE  n = m
BY SameName DEF Plain

LEMMA SameBinding ==
    ASSUME NEW sec, NEW n \in Every("nodes"), NEW x \in Every(sec), NEW y \in Every(sec),
           BindingAt(sec, <<n, x>>) = BindingAt(sec, <<n, y>>)
    PROVE  x = y
<1> DEFINE l == Labels[n]
           k == Labels[x]
           m == Labels[y]
           T == ToSet(l) \cup ToSet(k) \cup ToSet(m)
<1>1. l \in Seq(ToSet(l)) /\ k \in Seq(ToSet(k)) /\ m \in Seq(ToSet(m))
  BY LabelsFacts
<1>2. Address(Bindings[sec], l \o k) = Address(Bindings[sec], l \o m)
  BY DEF BindingAt
<1> HIDE DEF l, k, m
<1>3. l \in Seq(T) /\ k \in Seq(T) /\ m \in Seq(T)
  BY <1>1, SeqMonotonic
<1> HIDE DEF T
<1>4. l \o k \in Seq(T) /\ l \o m \in Seq(T)
  BY <1>3, ConcatProperties
<1>5. l \o k = l \o m
  BY <1>2, <1>4, AddressTells
<1>6. k = m
  <2>1. SubSeq(l \o k, Len(l) + 1, Len(l \o k)) = k
    BY <1>3, SuffixOfConcat
  <2>2. SubSeq(l \o m, Len(l) + 1, Len(l \o m)) = m
    BY <1>3, SuffixOfConcat
  <2> QED  BY <1>5, <2>1, <2>2
<1>7. <<sec, x>> \in Everything /\ <<sec, y>> \in Everything
  BY ElementFacts
<1> QED  BY <1>6, <1>7, LabelsOK DEF k, m

\* What is kept at an address is one binding.
LEMMA KeptOnce ==
    ASSUME NEW s, Drawn(s), NEW sec, NEW b \in Kept(s, sec), NEW c \in Kept(s, sec),
           BindingAt(sec, b) = BindingAt(sec, c)
    PROVE  b = c
<1>1. b \in Bound(s, sec) /\ c \in Bound(s, sec)
  BY KeptFacts
<1>2. /\ b = <<b[1], b[2]>> /\ b[1] \in Every("nodes") /\ b[2] \in Every(sec)
      /\ c = <<c[1], c[2]>> /\ c[1] \in Every("nodes") /\ c[2] \in Every(sec)
  <2>1. \A x \in Bound(s, sec) : x = <<x[1], x[2]>> /\ x[1] \in Defined(s, "nodes")
                                                 /\ x[2] \in Defined(s, sec)
    BY DEF Bound
  <2>2. Defined(s, "nodes") \subseteq Every("nodes") /\ Defined(s, sec) \subseteq Every(sec)
    BY DefinedFacts
  <2> QED  BY <1>1, <2>1, <2>2
<1>3. Position[b[1]] <= Position[c[1]] /\ Position[c[1]] <= Position[b[1]]
  BY <1>1 DEF Kept
<1>4. b[1] = c[1]
  BY <1>2, <1>3, PositionsOK
<1>5. b[2] = c[2]
  <2>1. BindingAt(sec, <<b[1], b[2]>>) = BindingAt(sec, <<b[1], c[2]>>)
    BY <1>2, <1>4
  <2> QED  BY <1>2, <2>1, SameBinding
<1> QED  BY <1>2, <1>4, <1>5
-----------------------------------------------------------------------------
(***************************************************************************)
(* What a resource waits for is of a kind that comes earlier, or it is     *)
(* another deployment, feature of the same node or objective.              *)
(***************************************************************************)
Level(kind) ==
    CASE kind \in {"network", "node"} -> 0
      [] kind = "feature" -> 1
      [] kind \in {"content", "account", "condition", "inject", "workflow"} -> 2
      [] kind \in {"inject-binding", "metric"} -> 3
      [] kind \in {"event", "evaluation"} -> 4
      [] kind \in {"script", "tlo"} -> 5
      [] kind \in {"story", "goal"} -> 6
      [] OTHER -> 7

DeploymentGraph(s) ==
    [n \in Defined(s, "nodes") |-> Named(s, <<"infrastructure", n>>, "dependencies")
                                   \cup Named(s, <<"infrastructure", n>>, "links")]

Deploys(s, a, b) ==
    \E n, m \in Defined(s, "nodes") :
        a = NodeAt(s, n) /\ b = NodeAt(s, m) /\ m \in DeploymentGraph(s)[n]
Features(s, a, b) ==
    \E x \in Kept(s, "features") : \E d \in Graph(s, "features", "dependencies")[x[2]] :
        /\ <<x[1], d>> \in Bound(s, "features")
        /\ a = BindingAt("features", x) /\ b = BindingAt("features", <<x[1], d>>)
Objectives(s, a, b) ==
    \E o, p \in Defined(s, "objectives") :
        /\ a = Plain("objectives", o) /\ b = Plain("objectives", p)
        /\ p \in Graph(s, "objectives", "depends_on")[o]

Descends(s, a, b) ==
    Level(b[1]) < Level(a[1]) \/ Deploys(s, a, b) \/ Features(s, a, b) \/ Objectives(s, a, b)

LEMMA LevelFacts ==
    /\ \A kind : Level(kind) \in 0 .. 7
    /\ Level("network") = 0 /\ Level("node") = 0 /\ Level("feature") = 1
    /\ Level("objective") = 7
    /\ \A kind : Level(kind) = 0 <=> kind \in {"network", "node"}
BY DEF Level

LEMMA DeploymentDescends ==
    ASSUME NEW s, Clean(s), NEW r \in Deployments(s), NEW b \in r.ordering
    PROVE  Descends(s, r.at, b)
<1> DEFINE R(m) == Resource(NodeAt(s, m), {<<"nodes", m>>},
                            {s[e] : e \in {<<"nodes", m>>, <<"infrastructure", m>>} \cap DOMAIN s},
                            Neighbours(s, m), Neighbours(s, m))
<1>1. Deployments(s) = {R(m) : m \in Defined(s, "nodes")}
  BY Zenon DEF Deployments
<1>2. \A m : R(m).at = NodeAt(s, m) /\ R(m).ordering = Neighbours(s, m)
  BY DEF Resource
<1> HIDE DEF R
<1>3. PICK n \in Defined(s, "nodes") : r = R(n)
  BY <1>1
<1>4. b \in Neighbours(s, n) /\ r.at = NodeAt(s, n)
  BY <1>2, <1>3
<1>5. PICK d : /\ b = NodeAt(s, d) /\ (d \in Defined(s, "nodes") \/ NodeIs(s, d, "switch"))
               /\ \/ d \in Named(s, <<"infrastructure", n>>, "dependencies")
                  \/ d \in Named(s, <<"infrastructure", n>>, "links")
  BY <1>4, Zenon DEF Neighbours
<1>6. d \in Defined(s, "nodes")
  BY <1>5, NodeDefined DEF Clean, Sound
<1>7. d \in DeploymentGraph(s)[n]
  BY <1>5 DEF DeploymentGraph
<1>8. Deploys(s, r.at, b)
  BY <1>4, <1>5, <1>6, <1>7 DEF Deploys
<1> QED  BY <1>8 DEF Descends

LEMMA BindingDescends ==
    ASSUME NEW s, Clean(s), NEW r \in BindingResources(s), NEW b \in r.ordering
    PROVE  Descends(s, r.at, b)
<1> DEFINE F(x) == Resource(BindingAt("features", x), {<<"nodes", x[1]>>, <<"features", x[2]>>},
                            {s[<<"features", x[2]>>]}, FeatureDependencies(s, x),
                            FeatureDependencies(s, x))
           C(x) == Resource(BindingAt("conditions", x), {<<"nodes", x[1]>>, <<"conditions", x[2]>>},
                            {s[<<"conditions", x[2]>>]}, {}, {NodeAt(s, x[1])})
           I(x) == Resource(BindingAt("injects", x), {<<"nodes", x[1]>>, <<"injects", x[2]>>}, {},
                            {Plain("injects", x[2])}, {NodeAt(s, x[1]), Plain("injects", x[2])})
<1>1. BindingResources(s) = {F(x) : x \in Kept(s, "features")}
          \cup {C(x) : x \in Kept(s, "conditions")} \cup {I(x) : x \in Kept(s, "injects")}
  BY Zenon DEF BindingResources
<1>2. \A x : /\ F(x).at = BindingAt("features", x) /\ F(x).ordering = FeatureDependencies(s, x)
             /\ C(x).at = BindingAt("conditions", x) /\ C(x).ordering = {}
             /\ I(x).at = BindingAt("injects", x) /\ I(x).ordering = {Plain("injects", x[2])}
  BY DEF Resource
<1> HIDE DEF F, C, I
<1>3. \A sec : \A x \in Kept(s, sec) : x \in Bound(s, sec)
  BY KeptFacts
<1>4. Drawn(s) /\ Sound(s)
  BY DEF Clean, Sound
<1>5. \A sec : \A x \in Bound(s, sec) :
          /\ x[1] \in Defined(s, "nodes") /\ x[2] \in Defined(s, sec) /\ NodeIs(s, x[1], "vm")
          /\ x[1] \in Every("nodes") /\ x[2] \in Every(sec) /\ x \in Every("nodes") \X Every(sec)
  BY <1>4, DefinedFacts DEF Bound
<1>6. /\ "features" \in DOMAIN Bindings /\ Bindings["features"] = "feature"
      /\ "injects" \in DOMAIN Bindings /\ Bindings["injects"] = "inject-binding"
      /\ "injects" \in DOMAIN Kinds /\ Kinds["injects"] = "inject"
  BY DEF Bindings, Kinds
<1>7. CASE \E x \in Kept(s, "features") : r = F(x)
  <2>1. PICK x \in Kept(s, "features") : r = F(x)
    BY <1>7
  <2>2. x \in Bound(s, "features") /\ r.at = BindingAt("features", x) /\ b \in FeatureDependencies(s, x)
    BY <1>2, <1>3, <2>1
  <2>3. CASE b = NodeAt(s, x[1])
    <3>1. b[1] \in {"network", "node"}
      BY <1>5, <2>2, <2>3, NodeHead
    <3>2. r.at[1] = "feature"
      BY <1>5, <1>6, <2>2, BindingHead
    <3>3. Level(b[1]) = 0 /\ Level(r.at[1]) = 1
      BY <3>1, <3>2, LevelFacts
    <3> QED  BY <3>3 DEF Descends
  <2>4. ASSUME NEW d \in Named(s, <<"features", x[2]>>, "dependencies") \cap Named(s, <<"nodes", x[1]>>, "features"),
               b = BindingAt("features", <<x[1], d>>)
        PROVE  Features(s, r.at, b)
    <3> DEFINE e == <<"features", x[2]>>
    <3>1. e \in DOMAIN s /\ e[1] = "features" /\ Placeholders(s) = {}
      BY <1>4, <1>5, <2>2, DefinedFacts DEF Sound
    <3>2. "dependencies" \in RolesOf("features") /\ Refers["features"]["dependencies"] = "features"
      BY DEF RolesOf, Refers
    <3>3. d \in Named(s, e, "dependencies")
      BY <2>4
    <3>4. d \in Known(s, e, "dependencies")
      BY <3>1, <3>3, NamesKnown
    <3> HIDE DEF e
    <3>5. d \in Defined(s, "features")
      BY <3>1, <3>2, <3>3, RolesNamed
    <3>6. <<x[1], d>> \in Bound(s, "features") /\ <<x[1], d>>[2] = d
      BY <1>5, <2>2, <2>4, <3>5 DEF Bound
    <3>7. d \in Graph(s, "features", "dependencies")[x[2]]
      BY <1>5, <2>2, <3>4, <3>5 DEF Graph, e
    <3> QED  BY <2>1, <2>2, <2>4, <3>6, <3>7 DEF Features
  <2> QED  BY <2>2, <2>3, <2>4 DEF FeatureDependencies, Descends
<1>8. CASE \E x \in Kept(s, "conditions") : r = C(x)
  BY <1>2, <1>8
<1>9. CASE \E x \in Kept(s, "injects") : r = I(x)
  <2>1. PICK x \in Kept(s, "injects") : r = I(x)
    BY <1>9
  <2>2. x \in Bound(s, "injects") /\ r.at = BindingAt("injects", x) /\ b = Plain("injects", x[2])
    BY <1>2, <1>3, <2>1
  <2>3. b[1] = "inject" /\ r.at[1] = "inject-binding"
    BY <1>5, <1>6, <2>2, PlainHead, BindingHead
  <2>4. Level(b[1]) < Level(r.at[1])
    BY <2>3 DEF Level
  <2> QED  BY <2>4 DEF Descends
<1> QED  BY <1>1, <1>7, <1>8, <1>9

LEMMA PlacementDescends ==
    ASSUME NEW s, Clean(s), NEW r \in Placements(s), NEW b \in r.ordering
    PROVE  Descends(s, r.at, b)
<1> DEFINE R(e) == Resource(Plain(e[1], e[2]), {e}, {s[e]}, {NodeAt(s, n) : n \in Hosts(s, e)},
                            {NodeAt(s, n) : n \in Hosts(s, e)})
           E == {d \in DOMAIN s : d[1] \in DOMAIN PlacementRole /\ Hosts(s, d) # {}}
<1>1. Placements(s) = {R(e) : e \in E}
  BY Zenon DEF Placements
<1>2. \A e : R(e).at = Plain(e[1], e[2]) /\ R(e).ordering = {NodeAt(s, n) : n \in Hosts(s, e)}
  BY DEF Resource
<1> HIDE DEF R
<1>3. PICK e \in E : r = R(e)
  BY <1>1
<1>4. PICK n \in Hosts(s, e) : b = NodeAt(s, n)
  BY <1>2, <1>3
<1>5. Drawn(s)
  BY DEF Clean, Sound
<1>6. b[1] \in {"network", "node"}
  <2>1. n \in Every("nodes")
    BY <1>4, <1>5, NodeDefined, DefinedFacts DEF Hosts
  <2> QED  BY <1>4, <2>1, NodeHead
<1>7. r.at[1] \in {"content", "account"}
  <2>1. /\ e[1] \in {"content", "accounts"} /\ e[1] \in DOMAIN Kinds /\ e[2] \in Every(e[1])
        /\ Kinds[e[1]] \in {"content", "account"}
    BY <1>5, DefinedFacts DEF PlacementRole, Kinds
  <2> QED  BY <1>2, <1>3, <2>1, PlainHead
<1>8. Level(b[1]) < Level(r.at[1])
  BY <1>6, <1>7 DEF Level
<1> QED  BY <1>8 DEF Descends

LEMMA UpstreamDescends ==
    ASSUME NEW s, Clean(s), NEW e \in DOMAIN s, e[1] \in DOMAIN Kinds, e[1] # "workflows",
           NEW b \in Upstream(s, e)
    PROVE  Descends(s, Plain(e[1], e[2]), b)
<1> DEFINE U(role) == {Plain(Refers[e[1]][role], x) :
                         x \in Named(s, e, role) \cap Defined(s, Refers[e[1]][role])}
           roles == IF e[1] \in DOMAIN Resolved THEN Resolved[e[1]] ELSE {}
<1>1. Upstream(s, e) = UNION {U(role) : role \in roles}
  BY Zenon DEF Upstream
<1>2. PICK role \in roles : b \in U(role)
  <2> HIDE DEF U, roles
  <2> QED  BY <1>1
<1> DEFINE sec == Refers[e[1]][role]
<1>3. e[1] \in DOMAIN Resolved /\ role \in Resolved[e[1]]
  BY <1>2
<1>4. PICK x \in Named(s, e, role) \cap Defined(s, sec) : b = Plain(sec, x)
  BY <1>2
<1>5. \/ e[1] = "objectives" /\ role = "depends_on"
      \/ sec \in DOMAIN Kinds /\ Level(Kinds[sec]) < Level(Kinds[e[1]])
  <2>1. e[1] \in {"events", "scripts", "stories", "evaluations", "tlos", "goals", "objectives"}
    BY <1>3 DEF Resolved
  <2>2. CASE e[1] = "events"
    BY <1>3, <2>2 DEF Resolved, Refers, Kinds, Level
  <2>3. CASE e[1] = "scripts"
    BY <1>3, <2>3 DEF Resolved, Refers, Kinds, Level
  <2>4. CASE e[1] = "stories"
    BY <1>3, <2>4 DEF Resolved, Refers, Kinds, Level
  <2>5. CASE e[1] = "evaluations"
    BY <1>3, <2>5 DEF Resolved, Refers, Kinds, Level
  <2>6. CASE e[1] = "tlos"
    BY <1>3, <2>6 DEF Resolved, Refers, Kinds, Level
  <2>7. CASE e[1] = "goals"
    BY <1>3, <2>7 DEF Resolved, Refers, Kinds, Level
  <2>8. CASE e[1] = "objectives"
    BY <1>3, <2>8 DEF Resolved, Refers, Kinds, Level
  <2> QED  BY <2>1, <2>2, <2>3, <2>4, <2>5, <2>6, <2>7, <2>8
<1>6. Drawn(s) /\ e = <<e[1], e[2]>> /\ e[2] \in Defined(s, e[1]) /\ e[2] \in Every(e[1])
  BY DefinedFacts DEF Clean, Sound
<1> HIDE DEF sec
<1>7. CASE e[1] = "objectives" /\ role = "depends_on"
  <2>1. sec = "objectives"
    BY <1>7 DEF sec, Refers
  <2>2. x \in Known(s, e, "depends_on") /\ e = <<"objectives", e[2]>>
    BY <1>4, <1>6, <1>7, NamesKnown DEF Clean, Sound
  <2>3. x \in Graph(s, "objectives", "depends_on")[e[2]]
    BY <1>4, <1>6, <1>7, <2>1, <2>2 DEF Graph
  <2>4. Objectives(s, Plain(e[1], e[2]), b)
    BY <1>4, <1>6, <1>7, <2>1, <2>3 DEF Objectives
  <2> QED  BY <2>4 DEF Descends
<1>8. CASE sec \in DOMAIN Kinds /\ Level(Kinds[sec]) < Level(Kinds[e[1]])
  <2>1. x \in Every(sec)
    BY <1>4, <1>6, DefinedFacts
  <2>2. b[1] = Kinds[sec] /\ Plain(e[1], e[2])[1] = Kinds[e[1]]
    BY <1>4, <1>6, <1>8, <2>1, PlainHead
  <2> QED  BY <1>8, <2>2 DEF Descends
<1> QED  BY <1>5, <1>7, <1>8 DEF sec

LEMMA ConditionsDescend ==
    ASSUME NEW s, Clean(s), NEW e \in DOMAIN s, e[1] \in {"metrics", "objectives"},
           NEW b \in ConditionsOf(s, e)
    PROVE  Descends(s, Plain(e[1], e[2]), b)
<1>1. PICK c : b \in TheBinding(s, c)
  BY Zenon DEF ConditionsOf
<1>2. PICK x \in Kept(s, "conditions") : b = BindingAt("conditions", x)
  BY <1>1 DEF TheBinding
<1>3. Drawn(s) /\ x \in Bound(s, "conditions")
  BY KeptFacts DEF Clean, Sound
<1>4. x \in Every("nodes") \X Every("conditions")
  BY <1>3, DefinedFacts DEF Bound
<1>5. "conditions" \in DOMAIN Bindings /\ Bindings["conditions"] = "condition"
  BY DEF Bindings
<1>6. b[1] = "condition"
  BY <1>2, <1>4, <1>5, BindingHead
<1>7. Plain(e[1], e[2])[1] \in {"metric", "objective"}
  <2>1. e[1] \in DOMAIN Kinds /\ Kinds[e[1]] \in {"metric", "objective"} /\ e[2] \in Every(e[1])
    BY <1>3, DefinedFacts DEF Kinds
  <2> QED  BY <2>1, PlainHead
<1>8. Level(b[1]) < Level(Plain(e[1], e[2])[1])
  BY <1>6, <1>7 DEF Level
<1> QED  BY <1>8 DEF Descends

LEMMA InjectionsDescend ==
    ASSUME NEW s, Clean(s), NEW e \in DOMAIN s, e[1] = "events", NEW b \in InjectedBy(s, e)
    PROVE  Descends(s, Plain(e[1], e[2]), b)
<1>1. PICK x \in Kept(s, "injects") : b = BindingAt("injects", x)
  BY DEF InjectedBy
<1>2. Drawn(s) /\ x \in Bound(s, "injects")
  BY KeptFacts DEF Clean, Sound
<1>3. x \in Every("nodes") \X Every("injects")
  BY <1>2, DefinedFacts DEF Bound
<1>4. "injects" \in DOMAIN Bindings /\ Bindings["injects"] = "inject-binding"
  BY DEF Bindings
<1>5. b[1] = "inject-binding"
  BY <1>1, <1>3, <1>4, BindingHead
<1>6. Plain(e[1], e[2])[1] = "event"
  <2>1. e[1] \in DOMAIN Kinds /\ Kinds[e[1]] = "event" /\ e[2] \in Every(e[1])
    BY <1>2, DefinedFacts DEF Kinds
  <2> QED  BY <2>1, PlainHead
<1>7. Level(b[1]) < Level(Plain(e[1], e[2])[1])
  BY <1>5, <1>6 DEF Level
<1> QED  BY <1>7 DEF Descends

LEMMA ProgramDescends ==
    ASSUME NEW s, Clean(s), NEW r \in Programs(s), NEW b \in r.ordering
    PROVE  Descends(s, r.at, b)
<1> DEFINE R(e) == Resource(Plain(e[1], e[2]), {e}, {s[e]}, Ordering(s, e), Refresh(s, e))
           E == {d \in DOMAIN s : d[1] \in DOMAIN Kinds \ DOMAIN PlacementRole}
<1>1. Programs(s) = {R(e) : e \in E}
  BY Zenon DEF Programs
<1>2. \A e : R(e).at = Plain(e[1], e[2]) /\ R(e).ordering = Ordering(s, e)
  BY DEF Resource
<1> HIDE DEF R
<1>3. PICK e \in E : r = R(e)
  BY <1>1
<1>4. e \in DOMAIN s /\ e[1] \in DOMAIN Kinds /\ r.at = Plain(e[1], e[2]) /\ b \in Ordering(s, e)
  BY <1>2, <1>3
<1> HIDE DEF E
<1>5. CASE e[1] = "workflows"
  BY <1>4, <1>5 DEF Ordering
<1>6. CASE e[1] = "events"
  <2>1. e[1] # "workflows" /\ b \in Upstream(s, e) \cup InjectedBy(s, e)
    BY <1>4, <1>6 DEF Ordering
  <2> QED  BY <1>4, <1>6, <2>1, UpstreamDescends, InjectionsDescend
<1>7. CASE e[1] \notin {"workflows", "events"}
  <2>1. b \in Upstream(s, e) \cup ConditionsOf(s, e)
    BY <1>4, <1>7 DEF Ordering
  <2>2. CASE b \in Upstream(s, e)
    BY <1>4, <1>7, <2>2, UpstreamDescends
  <2>3. CASE b \in ConditionsOf(s, e)
    <3>1. e[1] \in DOMAIN ConditionRole
      BY <2>3 DEF ConditionsOf, Conditions
    <3>2. e[1] \in {"metrics", "objectives"}
      BY <1>7, <3>1 DEF ConditionRole
    <3> QED  BY <1>4, <2>3, <3>2, ConditionsDescend
  <2> QED  BY <2>1, <2>2, <2>3
<1> QED  BY <1>5, <1>6, <1>7

LEMMA OrderingDescends ==
    ASSUME NEW s, Clean(s), NEW r \in Compiled(s), NEW b \in r.ordering
    PROVE  Descends(s, r.at, b)
BY DeploymentDescends, BindingDescends, PlacementDescends, ProgramDescends DEF Compiled
-----------------------------------------------------------------------------
(***************************************************************************)
(* No addresses wait for each other in a circle, other than deployments:   *)
(* of a circle's resources those of the least level would be features or   *)
(* objectives that the validator has found to be in a cycle.               *)
(***************************************************************************)
Circle(s, A) ==
    A # {} /\ \A a \in A : \E r \in Compiled(s) : r.at = a /\ r.ordering \cap A # {}

LEMMA GraphFacts ==
    ASSUME NEW s, Drawn(s), NEW sec, NEW role
    PROVE  /\ IsFiniteSet(Defined(s, sec))
           /\ Graph(s, sec, role) \in [Defined(s, sec) -> SUBSET Defined(s, sec)]
<1>1. Defined(s, sec) \subseteq Every(sec)
  BY DefinedFacts
<1>2. IsFiniteSet(Defined(s, sec))
  BY <1>1, EveryFinite, FS_Subset
<1> QED  BY <1>2 DEF Graph

LEMMA DeploymentGraphFacts ==
    ASSUME NEW s, Clean(s)
    PROVE  DeploymentGraph(s) \in [Defined(s, "nodes") -> SUBSET Defined(s, "nodes")]
<1> SUFFICES ASSUME NEW n \in Defined(s, "nodes"),
                    NEW m \in Named(s, <<"infrastructure", n>>, "dependencies")
                              \cup Named(s, <<"infrastructure", n>>, "links")
             PROVE  m \in Defined(s, "nodes")
  BY DEF DeploymentGraph
<1> DEFINE e == <<"infrastructure", n>>
<1>1. e \in DOMAIN s /\ e[1] = "infrastructure" /\ Drawn(s)
  BY DEF Named, Clean, Sound
<1> HIDE DEF e
<1>2. /\ Named(s, e, "dependencies") \ Defined(s, "nodes") = {}
      /\ \A l \in Named(s, e, "links") : NodeIs(s, l, "switch")
  BY <1>1, NodesFound
<1> QED  BY <1>1, <1>2, NodeDefined DEF e

LEMMA NoCircle ==
    ASSUME NEW s, Clean(s), Acyclic(DeploymentGraph(s)), NEW A
    PROVE  ~Circle(s, A)
<1> SUFFICES ASSUME Circle(s, A) PROVE FALSE
  OBVIOUS
<1> DEFINE levels == {Level(a[1]) : a \in A}
           B == {a \in A : Level(a[1]) = Min(levels)}
<1>0. Drawn(s) /\ FeaturesAcyclic(s) /\ ObjectivesAcyclic(s)
  BY DEF Clean, Sound, Accepted
<1>1. B # {} /\ \A a \in A : Min(levels) <= Level(a[1])
  <2>1. levels \in SUBSET Nat /\ levels # {}
    BY LevelFacts DEF Circle
  <2>2. Min(levels) \in levels /\ \A k \in levels : Min(levels) <= k
    <3> HIDE DEF levels
    <3> QED  BY <2>1, MinIsLeast
  <2> QED  BY <2>2
<1>2. \A sec : \A n \in Defined(s, sec) : n \in Every(sec)
  BY <1>0, DefinedFacts
<1>3. \A a, b : Deploys(s, a, b) => Level(a[1]) = 0 /\ Level(b[1]) = 0
  BY <1>2, NodeHead, LevelFacts DEF Deploys
<1>4. \A b \in Bound(s, "features") : b \in Every("nodes") \X Every("features")
  BY <1>2 DEF Bound
<1>5. \A a, b : Features(s, a, b) => Level(a[1]) = 1 /\ Level(b[1]) = 1
  <2>1. "features" \in DOMAIN Bindings /\ Bindings["features"] = "feature"
    BY DEF Bindings
  <2>2. \A x \in Bound(s, "features") : BindingAt("features", x)[1] = "feature"
    BY <1>4, <2>1, BindingHead
  <2> QED  BY <2>2, KeptFacts, LevelFacts DEF Features
<1>6. \A a, b : Objectives(s, a, b) => Level(a[1]) = 7 /\ Level(b[1]) = 7
  <2>1. "objectives" \in DOMAIN Kinds /\ Kinds["objectives"] = "objective"
    BY DEF Kinds
  <2> QED  BY <1>2, <2>1, PlainHead, LevelFacts DEF Objectives
<1>7. \A a \in B : \E b \in B : Deploys(s, a, b) \/ Features(s, a, b) \/ Objectives(s, a, b)
  <2> SUFFICES ASSUME NEW a \in B
               PROVE  \E b \in B : Deploys(s, a, b) \/ Features(s, a, b) \/ Objectives(s, a, b)
    OBVIOUS
  <2>1. PICK r \in Compiled(s) : r.at = a /\ r.ordering \cap A # {}
    BY DEF Circle
  <2>2. PICK b \in A : b \in r.ordering
    BY <2>1
  <2>3. Descends(s, a, b)
    BY <2>1, <2>2, OrderingDescends
  <2>4. ~(Level(b[1]) < Level(a[1]))
    <3>1. Level(a[1]) = Min(levels) /\ Min(levels) <= Level(b[1])
      BY <1>1
    <3>2. Level(a[1]) \in 0 .. 7 /\ Level(b[1]) \in 0 .. 7
      BY LevelFacts
    <3> HIDE DEF levels
    <3> QED  BY <3>1, <3>2
  <2>5. Deploys(s, a, b) \/ Features(s, a, b) \/ Objectives(s, a, b)
    BY <2>3, <2>4 DEF Descends
  <2>6. Level(b[1]) = Level(a[1])
    BY <1>3, <1>5, <1>6, <2>5
  <2> QED  BY <2>5, <2>6
<1> HIDE DEF B
<1>8. PICK a \in B : TRUE
  BY <1>1
<1>9. PICK b \in B : Deploys(s, a, b) \/ Features(s, a, b) \/ Objectives(s, a, b)
  BY <1>7
<1>l. \A c, d \in B : Level(c[1]) = Level(d[1])
  BY DEF B
<1>10. CASE Deploys(s, a, b)
  <2> DEFINE N == {n \in Defined(s, "nodes") : NodeAt(s, n) \in B}
             g == DeploymentGraph(s)
  <2>1. N # {}
    BY <1>10 DEF Deploys
  <2>2. g \in [Defined(s, "nodes") -> SUBSET Defined(s, "nodes")] /\ IsFiniteSet(Defined(s, "nodes"))
    BY <1>0, DeploymentGraphFacts, GraphFacts
  <2>3. ASSUME NEW n \in N PROVE g[n] \cap N # {}
    <3>1. PICK c \in B : \/ Deploys(s, NodeAt(s, n), c) \/ Features(s, NodeAt(s, n), c)
                         \/ Objectives(s, NodeAt(s, n), c)
      BY <1>7
    <3>2. Level(NodeAt(s, n)[1]) = 0
      BY <1>3, <1>8, <1>10, <1>l
    <3>3. Deploys(s, NodeAt(s, n), c)
      BY <1>5, <1>6, <3>1, <3>2
    <3>4. PICK o \in Defined(s, "nodes"), m \in Defined(s, "nodes") :
              NodeAt(s, n) = NodeAt(s, o) /\ c = NodeAt(s, m) /\ m \in g[o]
      BY <3>3 DEF Deploys
    <3>5. n = o
      BY <1>2, <3>4, SameNode
    <3> QED  BY <3>4, <3>5
  <2> HIDE DEF N, g
  <2>4. Circular(g, N)
    BY <2>1, <2>2, <2>3 DEF Circular, N
  <2> QED  BY <2>2, <2>4, AcyclicHasNoCircle DEF g
<1>11. CASE Features(s, a, b)
  <2> DEFINE at(x) == BindingAt("features", x)
             K == {x \in Kept(s, "features") : at(x) \in B}
             g == Graph(s, "features", "dependencies")
  <2>1. K # {} /\ \A x \in K : x \in Bound(s, "features") /\ x[1] \in Every("nodes")
    BY <1>4, <1>11, KeptFacts DEF Features
  <2>2. PICK t \in K : \A x \in K : Position[x[1]] <= Position[t[1]]
    <3> HIDE DEF K
    <3> QED  BY <2>1, LastNode
  <2> DEFINE N == {n \in Defined(s, "features") : <<t[1], n>> \in K}
  <2>3. N # {}
    <3>1. t \in Bound(s, "features")
      BY <2>1
    <3>2. t = <<t[1], t[2]>> /\ t[2] \in Defined(s, "features")
      BY <3>1 DEF Bound
    <3> HIDE DEF K
    <3> QED  BY <2>2, <3>2
  <2>4. g \in [Defined(s, "features") -> SUBSET Defined(s, "features")] /\ IsFiniteSet(Defined(s, "features"))
    BY <1>0, GraphFacts
  <2>5. ASSUME NEW n \in N PROVE g[n] \cap N # {}
    <3> DEFINE x == <<t[1], n>>
    <3>1. x \in K /\ x \in Kept(s, "features") /\ at(x) \in B /\ x[1] = t[1] /\ x[2] = n
      OBVIOUS
    <3> HIDE DEF x, at, N
    <3>2. PICK c \in B : Deploys(s, at(x), c) \/ Features(s, at(x), c) \/ Objectives(s, at(x), c)
      BY <1>7, <3>1
    <3>3. Level(at(x)[1]) = 1
      BY <1>5, <1>8, <1>11, <1>l, <3>1
    <3>4. Features(s, at(x), c)
      BY <1>3, <1>6, <3>2, <3>3
    <3>5. PICK y \in Kept(s, "features") : \E d \in g[y[2]] :
              <<y[1], d>> \in Bound(s, "features") /\ at(x) = at(y) /\ c = at(<<y[1], d>>)
      BY <3>4 DEF Features, at
    <3>6. y = x
      BY <1>0, <3>1, <3>5, KeptOnce DEF at
    <3>7. PICK d \in g[n] : <<t[1], d>> \in Bound(s, "features") /\ c = at(<<t[1], d>>)
      BY <3>1, <3>5, <3>6
    <3>8. PICK z \in Kept(s, "features") :
              at(z) = at(<<t[1], d>>) /\ Position[<<t[1], d>>[1]] <= Position[z[1]]
      BY <1>0, <3>7, LastKept DEF at
    <3>9. z \in K /\ z \in Bound(s, "features") /\ z \in Every("nodes") \X Every("features")
          /\ <<t[1], d>> \in Every("nodes") \X Every("features") /\ d \in Defined(s, "features")
      <4>1. z \in K
        BY <3>7, <3>8
      <4>2. d \in Defined(s, "features")
        BY <3>7 DEF Bound
      <4> HIDE DEF K
      <4> QED  BY <1>4, <2>1, <3>7, <4>1, <4>2
    <3>10. z[1] = t[1]
      <4>1. Position[z[1]] <= Position[t[1]] /\ Position[t[1]] <= Position[z[1]]
        BY <2>2, <3>8, <3>9
      <4>2. z[1] \in Every("nodes") /\ t[1] \in Every("nodes")
        BY <3>9
      <4> HIDE DEF K
      <4> QED  BY <4>1, <4>2, PositionsOK
    <3>11. z = <<t[1], d>>
      <4>1. z = <<t[1], z[2]>> /\ z[2] \in Every("features") /\ d \in Every("features")
            /\ t[1] \in Every("nodes")
        BY <3>9, <3>10
      <4>2. BindingAt("features", <<t[1], z[2]>>) = BindingAt("features", <<t[1], d>>)
        BY <3>8, <4>1 DEF at
      <4> HIDE DEF K
      <4>3. z[2] = d
        BY <4>1, <4>2, SameBinding
      <4> QED  BY <4>1, <4>3
    <3>12. d \in N
      BY <3>9, <3>11 DEF N
    <3> QED  BY <3>7, <3>12
  <2> HIDE DEF N, g
  <2>6. Circular(g, N)
    BY <2>3, <2>4, <2>5 DEF Circular, N
  <2> QED  BY <1>0, <2>4, <2>6, AcyclicHasNoCircle DEF g, FeaturesAcyclic
<1>12. CASE Objectives(s, a, b)
  <2> DEFINE N == {n \in Defined(s, "objectives") : Plain("objectives", n) \in B}
             g == Graph(s, "objectives", "depends_on")
  <2>1. N # {}
    BY <1>12 DEF Objectives
  <2>2. g \in [Defined(s, "objectives") -> SUBSET Defined(s, "objectives")]
        /\ IsFiniteSet(Defined(s, "objectives"))
    BY <1>0, GraphFacts
  <2>3. ASSUME NEW n \in N PROVE g[n] \cap N # {}
    <3> DEFINE at == Plain("objectives", n)
    <3> HIDE DEF at
    <3>1. PICK c \in B : Deploys(s, at, c) \/ Features(s, at, c) \/ Objectives(s, at, c)
      BY <1>7 DEF at
    <3>2. Level(at[1]) = 7
      BY <1>6, <1>8, <1>12, <1>l DEF at
    <3>3. Objectives(s, at, c)
      BY <1>3, <1>5, <3>1, <3>2
    <3>4. PICK o \in Defined(s, "objectives"), m \in Defined(s, "objectives") :
              at = Plain("objectives", o) /\ c = Plain("objectives", m) /\ m \in g[o]
      BY <3>3 DEF Objectives
    <3>5. n = o
      BY <1>2, <3>4, SamePlain DEF at
    <3> QED  BY <3>4, <3>5
  <2> HIDE DEF N, g
  <2>4. Circular(g, N)
    BY <2>1, <2>2, <2>3 DEF Circular, N
  <2> QED  BY <1>0, <2>2, <2>4, AcyclicHasNoCircle DEF g, ObjectivesAcyclic
<1> QED  BY <1>9, <1>10, <1>11, <1>12

\* A cycle of the planner's numbers is a circle of the compiler's addresses.
LEMMA CycleIsCircle ==
    ASSUME NEW s, Sound(s), NEW d,
           Planner!Cyclic(Planner!OrderingGraph(Planner!Part(Resources(s), Planner!Of(d))))
    PROVE  \E A : Circle(s, A)
<1> DEFINE rs == Resources(s)
           g == Planner!OrderingGraph(Planner!Part(rs, Planner!Of(d)))
<1>1. /\ DOMAIN g \subseteq DOMAIN rs
      /\ \A i \in DOMAIN g : g[i] \subseteq rs[i].ordering
  BY DEF Planner!OrderingGraph, Planner!Known, Planner!Part
<1>2. DOMAIN rs = Places(Ats(s)) /\ \A i \in DOMAIN rs : FormOf(s, i)
  BY ResourcesFacts DEF Sound
<1>3. Ats(s) \subseteq Addresses
  BY Addressed DEF Sound
<1>4. IsFiniteSet(DOMAIN g)
  <2> DEFINE f == [a \in Addresses |-> Place[a]]
  <2>1. IsFiniteSet({f[a] : a \in Addresses})
    BY AddressesFinite, FiniteRange
  <2>2. DOMAIN g \in SUBSET {f[a] : a \in Addresses}
    <3> HIDE DEF g, rs
    <3> QED  BY <1>1, <1>2, <1>3 DEF Places
  <2> HIDE DEF f, g
  <2> QED  BY <2>1, <2>2, FS_Subset
<1>5. PICK C : Circular(g, C)
  <2>1. Planner!Cyclic(g)
    OBVIOUS
  <2> HIDE DEF g
  <2> QED  BY <1>4, <2>1, CycleIsCircular
<1> HIDE DEF g
<1> DEFINE A == {Canonical[i] : i \in C}
<1>6. \A i \in C : FormOf(s, i) /\ i \in DOMAIN g /\ g[i] \cap C # {}
  BY <1>1, <1>2, <1>5 DEF Circular
<1>7. ASSUME NEW i \in C
      PROVE  \E r \in Compiled(s) : r.at = Canonical[i] /\ r.ordering \cap A # {}
  <2>1. PICK r \in Compiled(s) : r.at = Canonical[i] /\ rs[i].ordering = Places(r.ordering)
    BY <1>6 DEF FormOf
  <2>2. PICK j \in C : j \in g[i]
    BY <1>6
  <2>3. j \in Places(r.ordering)
    BY <1>1, <1>6, <2>1, <2>2
  <2>4. PICK b \in r.ordering : j = Place[b]
    BY <2>3 DEF Places
  <2>5. b \in Ats(s)
    BY <2>1, <2>4, CompiledSensible DEF Sensible, PlannedIn
  <2>6. Canonical[j] = b
    BY <1>3, <2>4, <2>5, PlaceFacts
  <2> QED  BY <2>1, <2>2, <2>4, <2>6
<1>8. Circle(s, A)
  BY <1>5, <1>7 DEF Circle, Circular
<1> QED  BY <1>8

(***************************************************************************)
(* Nothing the validator accepts makes the planner find an ordering cycle  *)
(* except deployments that wait for each other, whose cycles the validator *)
(* never looks for (validator.py 331-380). That bindings of several nodes  *)
(* may share an address makes none: the last node's are kept.              *)
(***************************************************************************)
THEOREM OnlyDeploymentsCycleCorrect == PipelineSpec => []OnlyDeploymentsCycle
<1>1. PipelineInv => OnlyDeploymentsCycle
  <2> SUFFICES ASSUME PipelineInv, stage = "planned", Acyclic(DeploymentGraph(concrete)),
                      NEW d \in Planner!Domains,
                      Planner!Cyclic(Planner!OrderingGraph(
                          Planner!Part(plan.resources, Planner!Of(d))))
               PROVE  FALSE
    BY DEF OnlyDeploymentsCycle, DeploymentGraph
  <2>1. PICK p \in Parameters : /\ Instantiates(draft, p) /\ concrete = Concrete(draft, p)
                                /\ plan = PlanOf(draft, concrete)
    BY DEF PipelineInv, PlannedNow
  <2>2. Clean(concrete) /\ plan.resources = Resources(concrete)
    BY <2>1, InstanceSound, PlanFacts DEF PipelineInv, Clean
  <2>3. \E A : Circle(concrete, A)
    BY <2>2, CycleIsCircle DEF Clean
  <2> QED  BY <2>2, <2>3, NoCircle
<1> QED  BY <1>1, PipelineInvHolds, PTL
=============================================================================
