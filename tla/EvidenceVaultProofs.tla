------------------------ MODULE EvidenceVaultProofs ------------------------
(***************************************************************************)
(* What a continuous chain says of how it came about, for any number of    *)
(* sealers that take no lock, any dates and reports, and appends that are  *)
(* cut short anywhere.                                                     *)
(***************************************************************************)
EXTENDS EvidenceVault, SequenceTheorems, FiniteSetTheorems, TLAPS

IsSeq(c) == \E S : c \in Seq(S)

LEMMA SeqHasLength ==
    ASSUME NEW c, IsSeq(c)
    PROVE  Len(c) \in Nat /\ DOMAIN c = 1 .. Len(c)
    BY DEF IsSeq

LEMMA NoBlocks == IsSeq(<<>>) /\ Len(<<>>) = 0 /\ DOMAIN <<>> = {}
<1>1. <<>> \in Seq({})
    BY EmptySeq
<1> QED
    BY <1>1 DEF IsSeq

LEMMA AppendIsSeq ==
    ASSUME NEW c, IsSeq(c), NEW x
    PROVE  /\ IsSeq(Append(c, x)) /\ Len(Append(c, x)) = Len(c) + 1
           /\ \A i \in 1 .. Len(c) : Append(c, x)[i] = c[i]
           /\ Append(c, x)[Len(c) + 1] = x
<1>1. PICK S : c \in Seq(S)
    BY DEF IsSeq
<1>2. c \in Seq(S \cup {x})
    BY <1>1
<1>3. Append(c, x) \in Seq(S \cup {x})
    BY <1>2
<1> QED
    BY <1>2, <1>3 DEF IsSeq

(* What is left when the last blocks are gone, if any are. *)
Shortens(c, d) ==
    /\ IsSeq(d) /\ Len(d) <= Len(c)
    /\ \A i \in 1 .. Len(d) : d[i] = c[i]

LEMMA FrontIs ==
    ASSUME NEW c, IsSeq(c), c # <<>>
    PROVE  /\ Len(c) \in Nat /\ Len(c) >= 1 /\ IsSeq(SubSeq(c, 1, Len(c) - 1))
           /\ Len(SubSeq(c, 1, Len(c) - 1)) = Len(c) - 1
           /\ \A i \in 1 .. Len(c) - 1 : SubSeq(c, 1, Len(c) - 1)[i] = c[i]
<1>1. PICK S : c \in Seq(S)
    BY DEF IsSeq
<1>2. Len(c) \in Nat /\ Len(c) >= 1
    BY <1>1, EmptySeq
<1>3. /\ SubSeq(c, 1, Len(c) - 1) \in Seq(S)
      /\ Len(SubSeq(c, 1, Len(c) - 1)) = Len(c) - 1
      /\ \A i \in 1 .. Len(c) - 1 : SubSeq(c, 1, Len(c) - 1)[i] = c[i]
    BY <1>1, <1>2, SubSeqProperties
<1> QED
    BY <1>2, <1>3 DEF IsSeq

LEMMA FrontShortens ==
    ASSUME NEW c, IsSeq(c), c # <<>>
    PROVE  Shortens(c, SubSeq(c, 1, Len(c) - 1))
    BY FrontIs DEF Shortens

-----------------------------------------------------------------------------
(***************************************************************************)
(* A block is made of the hashes its sealer had read, and a call's number  *)
(* is in nothing that was written or read before the call appends.  So     *)
(* who has read the hash that the chain shows in its n-th place has read   *)
(* all of the chain up to there: a lost block never comes back, and only   *)
(* the last one can be lost.                                               *)
(***************************************************************************)
Typed ==
    /\ IsSeq(chain) /\ (tail = "bare" => chain # <<>>)
    /\ seals \in Nat
    /\ step = [r \in Reader |-> step[r]] /\ view = [r \in Reader |-> view[r]]
    /\ call = [s \in Sealer |-> call[s]]
    /\ \A s \in Sealer : call[s] \in Nat /\ call[s] <= seals /\ IsSeq(view[s])

(* A number that one of the first n calls has written, or may yet write. *)
Issued(n, h) == h \in Nat /\ h <= n

WellMade(n, b) ==
    /\ b.index \in Nat
    /\ b.basis = [j \in 1 .. b.index |-> b.basis[j]]
    /\ b.prev = IF b.index = 0 THEN Genesis ELSE b.basis[b.index]
    /\ Issued(n, b.hash) /\ \A j \in 1 .. b.index : Issued(n, b.basis[j])

Agrees(c, n, read) ==
    n \in 1 .. Len(c) /\ c[n].hash = read[n] => \A j \in 1 .. n : read[j] = c[j].hash

HashesOf(c) == [i \in DOMAIN c |-> c[i].hash]

SoundBlock(c, n, b) == WellMade(n, b) /\ Agrees(c, b.index, b.basis)

SoundView(c, n, v) ==
    /\ \A i \in 1 .. Len(v) : Issued(n, v[i].hash)
    /\ Agrees(c, Len(v), HashesOf(v))

ChainAgrees == \A i \in 1 .. Len(chain) : SoundBlock(chain, seals, chain[i])

ViewsAgree == \A s \in Sealer : SoundView(chain, seals, view[s])

LEMMA NothingSeen == \A c, n : SoundView(c, n, <<>>)
    BY NoBlocks DEF SoundView, Agrees

(* Nobody has seen the block that s is going to append. *)
Unseen(s) ==
    /\ \A i \in 1 .. Len(chain) :
           /\ chain[i].hash # call[s]
           /\ \A j \in 1 .. chain[i].index : chain[i].basis[j] # call[s]
    /\ \A t \in Sealer :
           /\ \A i \in 1 .. Len(view[t]) : view[t][i].hash # call[s]
           /\ t # s /\ step[t] # "idle" => call[t] # call[s]

NewIsUnseen == \A s \in Sealer : step[s] # "idle" => Unseen(s)

IInv == Typed /\ ChainAgrees /\ ViewsAgree /\ NewIsUnseen

LEMMA Initially == Init => IInv
<1> SUFFICES ASSUME Init PROVE IInv
    OBVIOUS
<1>1. Typed
    BY NoBlocks DEF Init, Typed, Reader
<1> QED
    BY <1>1, NoBlocks, NothingSeen DEF Init, IInv, ChainAgrees, ViewsAgree, NewIsUnseen, Reader

(* A step that seals nothing: blocks may be lost and readers may leave. *)
LEMMA OtherStep ==
    ASSUME IInv, Shortens(chain, chain'), tail' = "bare" => chain' # <<>>,
           UNCHANGED <<seals, call>>,
           step' = [r \in Reader |-> step'[r]], view' = [r \in Reader |-> view'[r]],
           \A s \in Sealer : /\ view'[s] = view[s] \/ view'[s] = <<>>
                             /\ step'[s] # "idle" => step[s] # "idle"
    PROVE  IInv'
<1>0. Typed /\ ChainAgrees /\ ViewsAgree /\ NewIsUnseen
    BY DEF IInv
<1>1. /\ Len(chain) \in Nat /\ Len(chain') \in Nat /\ Len(chain') <= Len(chain)
      /\ \A i \in 1 .. Len(chain') : i \in 1 .. Len(chain) /\ chain'[i] = chain[i]
    BY <1>0, SeqHasLength DEF Typed, Shortens
<1>2. Typed'
    BY <1>0, NoBlocks DEF Typed, Shortens
<1>3. ASSUME NEW n, NEW read, Agrees(chain, n, read) PROVE Agrees(chain', n, read)
    <2> SUFFICES ASSUME n \in 1 .. Len(chain'), chain'[n].hash = read[n]
                 PROVE  \A j \in 1 .. n : read[j] = chain'[j].hash
        BY DEF Agrees
    <2>1. \A j \in 1 .. n : read[j] = chain[j].hash
        BY <1>1, <1>3 DEF Agrees
    <2> QED
        BY <1>1, <2>1
<1>4. ChainAgrees'
    BY <1>0, <1>1, <1>3 DEF ChainAgrees, SoundBlock
<1>5. ViewsAgree'
    BY <1>0, <1>3, NothingSeen DEF ViewsAgree, SoundView
<1>6. NewIsUnseen'
    <2> SUFFICES ASSUME NEW s \in Sealer, step'[s] # "idle" PROVE Unseen(s)'
        BY DEF NewIsUnseen
    <2>1. Unseen(s)
        BY <1>0 DEF NewIsUnseen
    <2>2. \A i \in 1 .. Len(chain') :
              /\ chain'[i].hash # call[s]
              /\ \A j \in 1 .. chain'[i].index : chain'[i].basis[j] # call[s]
        BY <1>1, <2>1 DEF Unseen
    <2>3. ASSUME NEW t \in Sealer
          PROVE  /\ \A i \in 1 .. Len(view'[t]) : view'[t][i].hash # call[s]
                 /\ t # s /\ step'[t] # "idle" => call[t] # call[s]
        BY <2>1, NoBlocks DEF Unseen
    <2> QED
        BY <2>2, <2>3 DEF Unseen
<1> QED
    BY <1>2, <1>4, <1>5, <1>6 DEF IInv

LEMMA BeginSealStep ==
    ASSUME IInv, NEW s \in Sealer, NEW d \in Date, BeginSeal(s, d)
    PROVE  IInv'
<1>0. Typed /\ ChainAgrees /\ ViewsAgree /\ NewIsUnseen
    BY DEF IInv
<1>1. /\ step' = [step EXCEPT ![s] = "scanning"] /\ view' = [view EXCEPT ![s] = chain]
      /\ seals' = seals + 1 /\ call' = [call EXCEPT ![s] = seals + 1]
      /\ UNCHANGED <<chain, tail>>
    BY DEF BeginSeal, diskVars
<1>2. Typed'
    <2>1. \A t \in Sealer :
              /\ call'[t] \in Nat /\ call'[t] <= seals'
              /\ IsSeq(view'[t])
        BY <1>0, <1>1 DEF Typed, Reader
    <2> QED
        BY <1>0, <1>1, <2>1 DEF Typed
<1>3. /\ Len(chain) \in Nat /\ DOMAIN chain = 1 .. Len(chain)
      /\ view'[s] = chain /\ \A t \in Sealer : t # s => view'[t] = view[t]
    BY <1>0, <1>1, SeqHasLength DEF Typed, Reader
<1>4. \A h : Issued(seals, h) => Issued(seals', h) /\ h # seals + 1
    BY <1>0, <1>1 DEF Issued, Typed
<1>5. ChainAgrees'
    BY <1>0, <1>1, <1>4 DEF ChainAgrees, SoundBlock, WellMade
<1>6. \A i \in 1 .. Len(chain) : Issued(seals, chain[i].hash)
    BY <1>0 DEF ChainAgrees, SoundBlock, WellMade
<1>7. ViewsAgree'
    <2> SUFFICES ASSUME NEW t \in Sealer PROVE SoundView(chain', seals', view'[t])
        BY DEF ViewsAgree
    <2>1. CASE t = s
        <3>1. Agrees(chain, Len(chain), HashesOf(chain))
            BY <1>3 DEF Agrees, HashesOf
        <3> QED
            BY <1>1, <1>3, <1>4, <1>6, <2>1, <3>1 DEF SoundView
    <2>2. CASE t # s
        BY <1>0, <1>1, <1>3, <1>4, <2>2 DEF ViewsAgree, SoundView
    <2> QED
        BY <2>1, <2>2
<1>8. NewIsUnseen'
    <2> SUFFICES ASSUME NEW t \in Sealer, step'[t] # "idle" PROVE Unseen(t)'
        BY DEF NewIsUnseen
    <2>1. CASE t = s
        <3>1. call'[t] = seals + 1
            BY <1>0, <1>1, <2>1 DEF Typed
        <3>2. \A i \in 1 .. Len(chain) :
                  /\ chain[i].hash # seals + 1
                  /\ \A j \in 1 .. chain[i].index : chain[i].basis[j] # seals + 1
            BY <1>0, <1>4 DEF ChainAgrees, SoundBlock, WellMade
        <3>3. ASSUME NEW u \in Sealer
              PROVE  /\ \A i \in 1 .. Len(view'[u]) : view'[u][i].hash # seals + 1
                     /\ u # t => call'[u] # seals + 1
            <4>1. u # t => call'[u] = call[u] /\ call[u] <= seals /\ call[u] \in Nat
                BY <1>0, <1>1, <2>1 DEF Typed
            <4>2. \A i \in 1 .. Len(view'[u]) : view'[u][i].hash # seals + 1
                BY <1>0, <1>3, <1>4, <1>6 DEF ViewsAgree, SoundView
            <4> QED
                BY <1>0, <4>1, <4>2 DEF Typed
        <3> QED
            BY <1>1, <3>1, <3>2, <3>3 DEF Unseen
    <2>2. CASE t # s
        <3>1. step[t] # "idle" /\ call'[t] = call[t] /\ call[t] <= seals /\ call[t] \in Nat
            BY <1>0, <1>1, <2>2 DEF Typed, Reader
        <3>2. Unseen(t)
            BY <1>0, <3>1 DEF NewIsUnseen
        <3>3. ASSUME NEW u \in Sealer
              PROVE  /\ \A i \in 1 .. Len(view'[u]) : view'[u][i].hash # call[t]
                     /\ u # t /\ step'[u] # "idle" => call'[u] # call[t]
            <4>1. CASE u = s
                <5>1. call'[u] = seals + 1
                    BY <1>0, <1>1, <4>1 DEF Typed
                <5> QED
                    BY <1>0, <1>3, <3>1, <3>2, <4>1, <5>1 DEF Unseen, Typed
            <4>2. CASE u # s
                <5>1. call'[u] = call[u] /\ step'[u] = step[u]
                    BY <1>0, <1>1, <4>2 DEF Typed, Reader
                <5> QED
                    BY <1>3, <3>2, <4>2, <5>1 DEF Unseen
            <4> QED
                BY <4>1, <4>2
        <3> QED
            BY <1>1, <3>1, <3>2, <3>3 DEF Unseen
    <2> QED
        BY <2>1, <2>2
<1> QED
    BY <1>2, <1>5, <1>7, <1>8 DEF IInv

(* The block of s reaches the chain, and s leaves. *)
LEMMA GrowStep ==
    ASSUME IInv, NEW s \in Sealer, step[s] # "idle",
           chain' = Append(chain, NewBlock(s)),
           step' = [step EXCEPT ![s] = "idle"], view' = [view EXCEPT ![s] = <<>>],
           UNCHANGED <<seals, call>>
    PROVE  IInv'
<1> DEFINE b == NewBlock(s)
<1>0. Typed /\ ChainAgrees /\ ViewsAgree /\ NewIsUnseen /\ Unseen(s)
    BY DEF IInv, NewIsUnseen
<1>1. /\ IsSeq(chain') /\ Len(chain') = Len(chain) + 1 /\ Len(chain) \in Nat
      /\ \A i \in 1 .. Len(chain) : chain'[i] = chain[i]
      /\ chain'[Len(chain) + 1] = b
    BY <1>0, AppendIsSeq, SeqHasLength DEF Typed
<1>2. /\ b.hash = call[s] /\ b.index = Len(view[s]) /\ b.basis = HashesOf(view[s])
      /\ b.prev = LastHash(view[s])
    BY DEF NewBlock, HashesOf
<1>3. Len(view[s]) \in Nat /\ DOMAIN view[s] = 1 .. Len(view[s]) /\ IsSeq(view[s])
    BY <1>0, SeqHasLength DEF Typed
<1>4. \A t \in Sealer : view'[t] = IF t = s THEN <<>> ELSE view[t]
    BY <1>0 DEF Typed, Reader
<1>5. Typed'
    <2>1. chain' # <<>>
        BY <1>1, NoBlocks
    <2> QED
        BY <1>0, <1>1, <1>4, <2>1, NoBlocks DEF Typed
<1>6. WellMade(seals, b)
    <2>1. \A j \in 1 .. b.index : b.basis[j] = view[s][j].hash
        BY <1>2, <1>3 DEF HashesOf
    <2>2. b.basis = [j \in 1 .. b.index |-> b.basis[j]]
        BY <1>2, <1>3 DEF HashesOf
    <2>3. b.prev = IF b.index = 0 THEN Genesis ELSE b.basis[b.index]
        <3>1. CASE view[s] = <<>>
            BY <1>2, <3>1, NoBlocks DEF LastHash
        <3>2. CASE view[s] # <<>>
            <4>1. Len(view[s]) # 0
                BY <1>3, <3>2, EmptySeq DEF IsSeq
            <4> QED
                BY <1>2, <1>3, <2>1, <3>2, <4>1 DEF LastHash
        <3> QED
            BY <3>1, <3>2
    <2>4. Issued(seals, b.hash) /\ \A j \in 1 .. b.index : Issued(seals, b.basis[j])
        BY <1>0, <1>2, <2>1 DEF Typed, Issued, ViewsAgree, SoundView
    <2> QED
        BY <1>2, <1>3, <2>2, <2>3, <2>4 DEF WellMade
<1>7. ASSUME NEW n, NEW read, Agrees(chain, n, read), n \in Nat /\ n > 0 => read[n] # call[s]
      PROVE  Agrees(chain', n, read)
    <2> SUFFICES ASSUME n \in 1 .. Len(chain'), chain'[n].hash = read[n]
                 PROVE  \A j \in 1 .. n : read[j] = chain'[j].hash
        BY DEF Agrees
    <2>1. n # Len(chain) + 1
        BY <1>1, <1>2, <1>7
    <2>2. n \in 1 .. Len(chain)
        BY <1>1, <2>1
    <2>3. \A j \in 1 .. n : read[j] = chain[j].hash
        BY <1>1, <1>7, <2>2 DEF Agrees
    <2> QED
        BY <1>1, <2>2, <2>3
<1>8. ASSUME NEW t \in Sealer PROVE SoundView(chain', seals', view[t])
    <2>1. Len(view[t]) \in Nat /\ DOMAIN view[t] = 1 .. Len(view[t])
        BY <1>0, SeqHasLength DEF Typed
    <2>2. Len(view[t]) > 0 => HashesOf(view[t])[Len(view[t])] # call[s]
        BY <1>0, <2>1 DEF Unseen, HashesOf
    <2>3. SoundView(chain, seals, view[t])
        BY <1>0 DEF ViewsAgree
    <2>4. Agrees(chain', Len(view[t]), HashesOf(view[t]))
        BY <1>7, <2>1, <2>2, <2>3 DEF SoundView
    <2> QED
        BY <2>3, <2>4 DEF SoundView
<1>9. ChainAgrees'
    <2> SUFFICES ASSUME NEW i \in 1 .. Len(chain') PROVE SoundBlock(chain', seals', chain'[i])
        BY DEF ChainAgrees
    <2>1. CASE i \in 1 .. Len(chain)
        <3>1. SoundBlock(chain, seals, chain[i]) /\ chain'[i] = chain[i]
            BY <1>0, <1>1, <2>1 DEF ChainAgrees
        <3>2. chain[i].index \in Nat /\ chain[i].index > 0
                 => chain[i].basis[chain[i].index] # call[s]
            <4> SUFFICES ASSUME NEW k \in Nat, k > 0, k = chain[i].index
                         PROVE  chain[i].basis[k] # call[s]
                OBVIOUS
            <4>1. k \in 1 .. chain[i].index
                OBVIOUS
            <4> QED
                BY <1>0, <2>1, <4>1 DEF Unseen
        <3> QED
            BY <1>7, <3>1, <3>2 DEF SoundBlock
    <2>2. CASE i = Len(chain) + 1
        <3>1. Agrees(chain', Len(view[s]), HashesOf(view[s]))
            BY <1>8 DEF SoundView
        <3> QED
            BY <1>1, <1>2, <1>6, <2>2, <3>1 DEF SoundBlock, WellMade
    <2> QED
        BY <1>1, <2>1, <2>2
<1>10. ViewsAgree'
    BY <1>4, <1>8, NothingSeen DEF ViewsAgree
<1>11. NewIsUnseen'
    <2> SUFFICES ASSUME NEW t \in Sealer, step'[t] # "idle" PROVE Unseen(t)'
        BY DEF NewIsUnseen
    <2>1. t # s /\ step[t] # "idle"
        BY <1>0 DEF Typed, Reader
    <2>2. Unseen(t)
        BY <1>0, <2>1 DEF NewIsUnseen
    <2>3. call[s] # call[t]
        BY <2>1, <2>2 DEF Unseen
    <2>4. \A j \in 1 .. b.index : b.basis[j] # call[t]
        BY <1>2, <1>3, <2>2 DEF Unseen, HashesOf
    <2>5. ASSUME NEW i \in 1 .. Len(chain')
          PROVE  /\ chain'[i].hash # call[t]
                 /\ \A j \in 1 .. chain'[i].index : chain'[i].basis[j] # call[t]
        <3>1. CASE i \in 1 .. Len(chain)
            BY <1>1, <2>2, <3>1 DEF Unseen
        <3>2. CASE i = Len(chain) + 1
            BY <1>1, <1>2, <2>3, <2>4, <3>2
        <3> QED
            BY <1>1, <3>1, <3>2
    <2>6. ASSUME NEW u \in Sealer
          PROVE  /\ \A i \in 1 .. Len(view'[u]) : view'[u][i].hash # call[t]
                 /\ u # t /\ step'[u] # "idle" => call[u] # call[t]
        <3>1. step'[u] # "idle" => step[u] # "idle"
            BY <1>0 DEF Typed, Reader
        <3> QED
            BY <1>4, <2>2, <3>1, NoBlocks DEF Unseen
    <2> QED
        BY <2>5, <2>6 DEF Unseen
<1> QED
    BY <1>5, <1>9, <1>10, <1>11 DEF IInv

LEMMA AppendStep ==
    ASSUME IInv, NEW s \in Sealer, NEW end \in {"ended", "torn", "bare"},
           step[s] = "scanning", Write(NewBlock(s), end), Leave(s, "idle"),
           UNCHANGED <<seals, call>>
    PROVE  IInv'
<1>0. Typed
    BY DEF IInv
<1>1. step' = [step EXCEPT ![s] = "idle"] /\ view' = [view EXCEPT ![s] = <<>>]
    BY DEF Leave
<1>2. CASE tail = "ended" /\ end # "torn"
    <2>1. chain' = Append(chain, NewBlock(s))
        BY <1>2 DEF Write
    <2> QED
        BY <1>1, <2>1, GrowStep
<1>3. CASE ~(tail = "ended" /\ end # "torn")
    <2>1. Shortens(chain, chain')
        <3>1. CASE tail = "bare"
            BY <1>0, <1>3, <3>1, FrontShortens DEF Write, Typed
        <3>2. CASE tail # "bare"
            <4>1. chain' = chain
                BY <1>3, <3>2 DEF Write
            <4> QED
                BY <1>0, <4>1, SeqHasLength DEF Shortens, Typed
        <3> QED
            BY <3>1, <3>2
    <2>2. tail' # "bare"
        BY <1>3 DEF Write
    <2> QED
        BY <1>0, <1>1, <2>1, <2>2, OtherStep DEF Typed, Reader
<1> QED
    BY <1>2, <1>3

LEMMA Step == IInv /\ [Next]_vars => IInv'
<1> SUFFICES ASSUME IInv, [Next]_vars PROVE IInv'
    OBVIOUS
<1>0. Typed /\ Shortens(chain, chain) /\ (tail = "bare" => chain # <<>>)
    <2>1. Typed
        BY DEF IInv
    <2>2. Len(chain) \in Nat /\ IsSeq(chain)
        BY <2>1, SeqHasLength DEF Typed
    <2>3. Shortens(chain, chain)
        BY <2>2 DEF Shortens
    <2>4. tail = "bare" => chain # <<>>
        BY <2>1 DEF Typed
    <2> QED
        BY <2>1, <2>3, <2>4
<1>1. ASSUME NEW d \in Date, NEW c \in Control, Collect(d, c) \/ Clear(d, c) PROVE IInv'
    BY <1>0, <1>1, OtherStep DEF Collect, Clear, SetReport, Typed
<1>2. ASSUME NEW r \in Reader, ReadReport(r) \/ LookAgain(r) PROVE IInv'
    BY <1>0, <1>2, OtherStep DEF ReadReport, LookAgain, Typed, diskVars
<1>3. ASSUME NEW r \in Reader, Abort(r) PROVE IInv'
    BY <1>0, <1>3, OtherStep DEF Abort, Leave, Typed, Reader, diskVars
<1>4. ASSUME NEW s \in Sealer, NEW d \in Date, BeginSeal(s, d) PROVE IInv'
    BY <1>4, BeginSealStep
<1>5. ASSUME NEW s \in Sealer, RefuseSeal(s) PROVE IInv'
    BY <1>0, <1>5, OtherStep DEF RefuseSeal, Leave, Typed, Reader, diskVars
<1>6. ASSUME NEW s \in Sealer, AppendBlock(s) PROVE IInv'
    BY <1>6, AppendStep DEF AppendBlock, Scanned, FirstPass
<1>7. ASSUME NEW s \in Sealer, NEW end \in {"torn", "bare"}, AppendCut(s, end) PROVE IInv'
    BY <1>7, AppendStep DEF AppendCut, Scanned, FirstPass
<1>8. CASE BeginVerify \/ CheckLink \/ CheckRoot \/ EndVerify
    <2>1. /\ UNCHANGED <<chain, tail, seals, call>>
          /\ \E v, p : /\ view' = [view EXCEPT ![Auditor] = v] \/ UNCHANGED view
                       /\ step' = [step EXCEPT ![Auditor] = p]
        BY <1>8 DEF BeginVerify, CheckLink, CheckRoot, EndVerify, Leave, diskVars
    <2>2. /\ step' = [r \in Reader |-> step'[r]] /\ view' = [r \in Reader |-> view'[r]]
          /\ \A s \in Sealer : view'[s] = view[s] /\ step'[s] = step[s]
        BY <1>0, <2>1, VaultAssumption DEF Typed, Reader
    <2> QED
        BY <1>0, <2>1, <2>2, OtherStep
<1>9. CASE UNCHANGED vars
    BY <1>0, <1>9, OtherStep DEF vars, diskVars, Typed
<1> QED
    BY <1>1, <1>2, <1>3, <1>4, <1>5, <1>6, <1>7, <1>8, <1>9 DEF Next

(***************************************************************************)
(* A chain whose links hold was sealed block after block, by calls that    *)
(* each had read exactly the readable blocks before theirs (vault.py:159,  *)
(* the read, and vault.py:205, the append).                                *)
(***************************************************************************)
THEOREM SealedInSeries == Spec => []SerialWhenLinked
<1>1. ASSUME IInv PROVE SerialWhenLinked
    <2>1. Len(chain) \in Nat /\ DOMAIN chain = 1 .. Len(chain) /\ ChainAgrees
        BY <1>1, SeqHasLength DEF IInv, Typed
    <2> SUFFICES ASSUME Linked(chain), NEW i \in 1 .. Len(chain)
                 PROVE  chain[i].basis = [j \in 1 .. i - 1 |-> chain[j].hash]
        BY <2>1 DEF SerialWhenLinked
    <2>2. /\ chain[i].index = i - 1
          /\ chain[i].prev = IF i = 1 THEN Genesis ELSE chain[i - 1].hash
          /\ WellMade(seals, chain[i]) /\ Agrees(chain, i - 1, chain[i].basis)
        BY <2>1 DEF Linked, LinksAt, ChainAgrees, SoundBlock
    <2>3. \A j \in 1 .. i - 1 : chain[i].basis[j] = chain[j].hash
        <3>1. CASE i = 1
            BY <3>1
        <3>2. CASE i # 1
            <4>1. i - 1 \in 1 .. Len(chain) /\ i - 1 # 0
                BY <2>1, <3>2
            <4>2. chain[i - 1].hash = chain[i].basis[i - 1]
                BY <2>2, <3>2, <4>1 DEF WellMade
            <4> QED
                BY <2>2, <4>1, <4>2 DEF Agrees
        <3> QED
            BY <3>1, <3>2
    <2>4. chain[i].basis = [j \in 1 .. i - 1 |-> chain[i].basis[j]]
        BY <2>2 DEF WellMade
    <2> QED
        BY <2>3, <2>4
<1> QED
    BY <1>1, Initially, Step, PTL DEF Spec

LEMMA AlwaysAgrees == Spec => []IInv
    BY Initially, Step, PTL DEF Spec

-----------------------------------------------------------------------------
(***************************************************************************)
(* Types.  That a chain, a view and the number of cut appends stay below   *)
(* the number of calls is counted: a call that is under way has not spent  *)
(* its block or its cut yet.                                               *)
(***************************************************************************)
Busy == {s \in Sealer : step[s] # "idle"}

Counts ==
    /\ IsFiniteSet(Busy) /\ cuts \in Nat /\ seals <= MaxSeals
    /\ Len(chain) + Cardinality(Busy) <= seals
    /\ cuts + Cardinality(Busy) <= seals

IsChain(c) == IsSeq(c) /\ Len(c) <= MaxSeals /\ \A i \in 1 .. Len(c) : IsBlock(c[i])

Kinds ==
    /\ report \in [Date -> [Control -> {0} \cup Version]] /\ versions \in {0} \cup Version
    /\ tail \in {"ended", "torn", "bare"}
    /\ step \in [Reader -> {"idle", "scanning", "block", "done"}]
    /\ \A s \in Sealer : step[s] \in {"idle", "scanning"}
    /\ scan \in [Reader -> Scan]
    /\ \A r \in Reader : step[r] = "scanning" => scan[r].date \in Date
    /\ call \in [Sealer -> {0} \cup Hash]
    /\ \A s \in Sealer : step[s] # "idle" => call[s] \in Hash
    /\ returned \subseteq Hash
    /\ faults \in BOOLEAN /\ calm \in BOOLEAN /\ still \in BOOLEAN

Chains == IsChain(chain) /\ \A r \in Reader : IsChain(view[r])

(* The auditor's place in the chain it has read. *)
Placed ==
    /\ step[Auditor] = "idle" => position = 1
    /\ step[Auditor] \in {"block", "scanning"} => position \in 1 .. Len(view[Auditor])
    /\ step[Auditor] = "done" => position = Len(view[Auditor]) + 1

Types == IInv /\ Counts /\ Kinds /\ Chains /\ Placed

LEMMA InitTypes == Init => Types
<1> SUFFICES ASSUME Init PROVE Types
    OBVIOUS
<1>1. IInv
    BY Initially
<1>2. Busy = {}
    BY DEF Init, Busy, Reader
<1>3. Counts
    BY <1>2, FS_EmptySet, NoBlocks, VaultAssumption DEF Init, Counts
<1>4. Kinds
    <2>1. NoScan \in Scan
        BY VaultAssumption DEF NoScan, Scan
    <2> QED
        BY <2>1, VaultAssumption DEF Init, Kinds, Reader
<1>5. Chains
    BY NoBlocks, VaultAssumption DEF Init, Chains, IsChain
<1> QED
    BY <1>1, <1>3, <1>4, <1>5 DEF Types, Placed, Init, Reader

(* An append adds the block, or loses what was behind the last newline. *)
LEMMA WriteIs ==
    ASSUME Typed, NEW b, NEW end \in {"ended", "torn", "bare"}, Write(b, end)
    PROVE  \/ /\ tail = "ended" /\ end # "torn" /\ chain' = Append(chain, b)
              /\ tail' = end
           \/ /\ ~(tail = "ended" /\ end # "torn") /\ tail' # "bare"
              /\ Shortens(chain, chain')
<1>1. CASE tail = "ended" /\ end # "torn"
    BY <1>1 DEF Write
<1>2. CASE ~(tail = "ended" /\ end # "torn")
    <2>1. tail' # "bare"
        BY <1>2 DEF Write
    <2>2. CASE tail = "bare"
        BY <1>2, <2>1, <2>2, FrontShortens DEF Write, Typed
    <2>3. CASE tail # "bare"
        <3>1. chain' = chain
            BY <1>2, <2>3 DEF Write
        <3>2. Shortens(chain, chain)
            BY SeqHasLength DEF Shortens, Typed
        <3> QED
            BY <1>2, <2>1, <3>1, <3>2
    <2> QED
        BY <2>2, <2>3
<1> QED
    BY <1>1, <1>2

(* What every end of a seal that appends has in common. *)
Appends(s, end) ==
    /\ Scanned(s) /\ scan[s].leaves # {} /\ Write(NewBlock(s), end) /\ Leave(s, "idle")
    /\ UNCHANGED <<report, versions, auditVars, call, seals>>

LEMMA AppendsIs ==
    ASSUME NEW s \in Sealer,
           AppendBlock(s) \/ \E end \in {"torn", "bare"} : AppendCut(s, end)
    PROVE  \E end \in {"ended", "torn", "bare"} : Appends(s, end)
<1>1. ASSUME AppendBlock(s) PROVE Appends(s, "ended")
    BY <1>1 DEF AppendBlock, Appends
<1>2. ASSUME NEW end \in {"torn", "bare"}, AppendCut(s, end) PROVE Appends(s, end)
    BY <1>2 DEF AppendCut, Appends
<1> QED
    BY <1>1, <1>2

(* Steps that begin no seal and end none that appends. *)
LEMMA CountsKept ==
    ASSUME Types, UNCHANGED <<chain, seals, cuts>>,
           \A s \in Sealer : step'[s] # "idle" => step[s] # "idle"
    PROVE  Counts'
<1>1. Busy' \in SUBSET Busy
    BY DEF Busy
<1>2. IsFiniteSet(Busy') /\ Cardinality(Busy') <= Cardinality(Busy)
    BY <1>1, FS_Subset DEF Types, Counts
<1>3. /\ Len(chain) \in Nat /\ Cardinality(Busy) \in Nat /\ Cardinality(Busy') \in Nat
      /\ seals \in Nat
    BY <1>2, SeqHasLength, FS_CardinalityType DEF Types, Counts, IInv, Typed
<1> QED
    BY <1>2, <1>3 DEF Types, Counts

LEMMA CountsStep == Types /\ [Next]_vars => Counts'
<1> SUFFICES ASSUME Types, [Next]_vars PROVE Counts'
    OBVIOUS
<1>0. /\ Typed /\ Counts /\ Len(chain) \in Nat /\ Cardinality(Busy) \in Nat /\ seals \in Nat
      /\ step \in [Reader -> {"idle", "scanning", "block", "done"}] /\ MaxSeals \in Nat
    BY SeqHasLength, FS_CardinalityType, VaultAssumption DEF Types, Counts, Kinds, IInv, Typed
<1>1. ASSUME NEW d \in Date, NEW c \in Control, Collect(d, c) \/ Clear(d, c) PROVE Counts'
    BY <1>1, CountsKept DEF Collect, Clear, SetReport
<1>2. ASSUME NEW r \in Reader, ReadReport(r) \/ LookAgain(r) PROVE Counts'
    BY <1>2, CountsKept DEF ReadReport, LookAgain, diskVars, historyVars
<1>3. ASSUME NEW r \in Reader, Abort(r) PROVE Counts'
    BY <1>0, <1>3, CountsKept DEF Abort, Leave, Reader, diskVars, historyVars
<1>4. ASSUME NEW s \in Sealer, NEW d \in Date, BeginSeal(s, d) PROVE Counts'
    <2>1. /\ step[s] = "idle" /\ step' = [step EXCEPT ![s] = "scanning"]
          /\ seals' = seals + 1 /\ seals < MaxSeals /\ UNCHANGED <<chain, cuts>>
        BY <1>4 DEF BeginSeal, diskVars
    <2>2. Busy' = Busy \cup {s} /\ s \notin Busy
        BY <1>0, <2>1 DEF Busy, Reader
    <2>3. IsFiniteSet(Busy') /\ Cardinality(Busy') = Cardinality(Busy) + 1
        BY <1>0, <2>2, FS_AddElement DEF Counts
    <2> QED
        BY <1>0, <2>1, <2>3 DEF Counts
<1>5. ASSUME NEW s \in Sealer, RefuseSeal(s) PROVE Counts'
    BY <1>0, <1>5, CountsKept DEF RefuseSeal, Leave, Reader, diskVars, historyVars
<1>6. ASSUME NEW s \in Sealer,
             AppendBlock(s) \/ \E end \in {"torn", "bare"} : AppendCut(s, end)
      PROVE  Counts'
    <2>1. PICK end \in {"ended", "torn", "bare"} : Appends(s, end)
        BY <1>6, AppendsIs
    <2>2. /\ step[s] = "scanning" /\ step' = [step EXCEPT ![s] = "idle"]
          /\ Write(NewBlock(s), end) /\ UNCHANGED seals
        BY <2>1 DEF Appends, Scanned, FirstPass, Leave
    <2>3. cuts' = cuts \/ cuts' = cuts + 1
        BY <1>6 DEF AppendBlock, AppendCut
    <2>4. Busy' = Busy \ {s} /\ s \in Busy
        BY <1>0, <2>2 DEF Busy, Reader
    <2>5. IsFiniteSet(Busy') /\ Cardinality(Busy') = Cardinality(Busy) - 1
        BY <1>0, <2>4, FS_RemoveElement DEF Counts
    <2>6. Len(chain') \in Nat /\ Len(chain') <= Len(chain) + 1
        <3>1. CASE chain' = Append(chain, NewBlock(s))
            BY <1>0, <3>1, AppendIsSeq DEF Typed
        <3>2. CASE Shortens(chain, chain')
            <4>1. IsSeq(chain') /\ Len(chain') <= Len(chain)
                BY <3>2 DEF Shortens
            <4>2. Len(chain') \in Nat
                BY <4>1, SeqHasLength
            <4> QED
                BY <1>0, <4>1, <4>2
        <3> QED
            BY <1>0, <2>2, <3>1, <3>2, WriteIs
    <2> QED
        BY <1>0, <2>2, <2>3, <2>5, <2>6 DEF Counts
<1>7. CASE BeginVerify \/ CheckLink \/ CheckRoot \/ EndVerify
    BY <1>0, <1>7, CountsKept, VaultAssumption
    DEF BeginVerify, CheckLink, CheckRoot, EndVerify, Leave, Reader, diskVars, historyVars
<1>8. CASE UNCHANGED vars
    BY <1>8, CountsKept DEF vars, diskVars, historyVars
<1> QED
    BY <1>1, <1>2, <1>3, <1>4, <1>5, <1>6, <1>7, <1>8 DEF Next

LEMMA KindsStep == Types /\ [Next]_vars => Kinds'
<1> SUFFICES ASSUME Types, [Next]_vars PROVE Kinds'
    OBVIOUS
<1>0. /\ Kinds /\ Auditor \notin Sealer /\ seals \in Nat /\ seals <= MaxSeals
      /\ Controls \in Nat \ {0} /\ MaxVersions \in Nat /\ MaxSeals \in Nat
    BY VaultAssumption DEF Types, Counts, IInv, Typed
<1>a. /\ NoScan \in Scan
      /\ \A d \in Date : /\ [NoScan EXCEPT !.date = d] \in Scan
                         /\ [NoScan EXCEPT !.date = d].date = d
    <2>1. NoScan \in Scan
        BY <1>0 DEF NoScan, Scan
    <2>2. ASSUME NEW d \in Date
          PROVE  /\ [NoScan EXCEPT !.date = d] \in Scan
                 /\ [NoScan EXCEPT !.date = d].date = d
        <3>1. [NoScan EXCEPT !.date = d].date = d
            BY DEF NoScan
        <3>2. [NoScan EXCEPT !.date = d] \in Scan
            BY <2>1 DEF Scan
        <3> QED
            BY <3>1, <3>2
    <2> QED
        BY <2>1, <2>2
<1>1. ASSUME NEW d \in Date, NEW c \in Control, Collect(d, c) \/ Clear(d, c) PROVE Kinds'
    <2>1. /\ UNCHANGED <<tail, step, scan, call, seals, returned, faults>>
          /\ calm' \in BOOLEAN /\ still' \in BOOLEAN
        BY <1>0, <1>1 DEF Collect, Clear, SetReport, auditVars, Kinds
    <2>2. \E v \in {0} \cup Version : report' = [report EXCEPT ![d][c] = v]
        <3>1. CASE Collect(d, c)
            <4>1. versions + 1 \in Version
                BY <1>0, <3>1 DEF Collect, Kinds, Version
            <4> QED
                BY <3>1, <4>1 DEF Collect, SetReport
        <3>2. CASE Clear(d, c)
            BY <3>2 DEF Clear, SetReport
        <3> QED
            BY <1>1, <3>1, <3>2
    <2>3. report' \in [Date -> [Control -> {0} \cup Version]]
        <3>1. PICK v \in {0} \cup Version : report' = [report EXCEPT ![d][c] = v]
            BY <2>2
        <3> QED
            BY <1>0, <3>1 DEF Kinds
    <2>4. versions' \in {0} \cup Version
        <3>1. versions' = versions \/ (versions < MaxVersions /\ versions' = versions + 1)
            BY <1>1 DEF Collect, Clear
        <3> QED
            BY <1>0, <3>1 DEF Kinds, Version
    <2> QED
        BY <1>0, <2>1, <2>3, <2>4 DEF Kinds
<1>2. ASSUME NEW r \in Reader, ReadReport(r) PROVE Kinds'
    <2>1. /\ step[r] = "scanning" /\ scan[r].next \in Control
          /\ UNCHANGED <<diskVars, step, view, auditVars, call, seals, historyVars>>
          /\ scan' = [scan EXCEPT ![r].next = @ + 1,
                        ![r].leaves = @ \cup ({report[scan[r].date][scan[r].next]} \ {0})]
        BY <1>2 DEF ReadReport
    <2>2. report[scan[r].date][scan[r].next] \in {0} \cup Version /\ scan[r] \in Scan
        BY <1>0, <2>1 DEF Kinds
    <2>3. /\ scan[r].next + 1 \in 1 .. Controls + 1
          /\ scan[r].leaves \cup ({report[scan[r].date][scan[r].next]} \ {0}) \in SUBSET Version
        BY <1>0, <2>1, <2>2 DEF Scan, Control
    <2>4. scan' \in [Reader -> Scan] /\ \A q \in Reader : scan'[q].date = scan[q].date
        BY <1>0, <2>1, <2>2, <2>3 DEF Scan, Kinds
    <2> QED
        BY <1>0, <2>1, <2>4 DEF Kinds, diskVars, auditVars, historyVars
<1>3. ASSUME NEW r \in Reader, LookAgain(r) PROVE Kinds'
    <2>1. scan' \in [Reader -> Scan] /\ \A q \in Reader : scan'[q].date = scan[q].date
        BY <1>0, <1>3 DEF LookAgain, Scan, Kinds
    <2> QED
        BY <1>0, <1>3, <2>1 DEF LookAgain, Kinds, diskVars, auditVars, historyVars
<1>4. ASSUME NEW r \in Reader, Abort(r) PROVE Kinds'
    BY <1>0, <1>a, <1>4 DEF Abort, Leave, Kinds, Reader, diskVars, historyVars
<1>5. ASSUME NEW s \in Sealer, NEW d \in Date, BeginSeal(s, d) PROVE Kinds'
    <2>1. seals + 1 \in Hash
        BY <1>0, <1>5 DEF BeginSeal, Hash
    <2>2. /\ step' = [step EXCEPT ![s] = "scanning"]
          /\ scan' = [scan EXCEPT ![s] = [NoScan EXCEPT !.date = d]]
          /\ call' = [call EXCEPT ![s] = seals + 1]
          /\ calm' \in BOOLEAN
          /\ UNCHANGED <<diskVars, faults, returned, still>>
        BY <1>5 DEF BeginSeal, Scanning, auditVars
    <2>3. /\ \A r \in Reader : step'[r] = "scanning" => scan'[r].date \in Date
          /\ scan' \in [Reader -> Scan]
        <3>1. DEFINE x == [NoScan EXCEPT !.date = d]
        <3>2. x \in Scan /\ x.date \in Date /\ scan' = [scan EXCEPT ![s] = x]
            BY <1>a, <2>2
        <3> HIDE DEF x
        <3> QED
            BY <1>0, <2>2, <3>2 DEF Kinds, Reader
    <2> QED
        BY <1>0, <2>1, <2>2, <2>3 DEF Kinds, Reader, diskVars
<1>6. ASSUME NEW s \in Sealer, RefuseSeal(s) PROVE Kinds'
    BY <1>0, <1>a, <1>6 DEF RefuseSeal, Leave, Kinds, Reader, diskVars, auditVars, historyVars
<1>7. ASSUME NEW s \in Sealer,
             AppendBlock(s) \/ \E end \in {"torn", "bare"} : AppendCut(s, end)
      PROVE  Kinds'
    <2>1. PICK end \in {"ended", "torn", "bare"} : Appends(s, end)
        BY <1>7, AppendsIs
    <2>2. step[s] # "idle" /\ call[s] \in Hash
        BY <1>0, <2>1 DEF Appends, Scanned, FirstPass, Kinds
    <2>3. returned' \subseteq Hash /\ calm' \in BOOLEAN /\ still' \in BOOLEAN
        BY <1>0, <1>7, <2>2 DEF AppendBlock, AppendCut, Kinds
    <2>4. tail' \in {"ended", "torn", "bare"}
        BY <2>1 DEF Appends, Write
    <2> QED
        BY <1>0, <1>a, <2>1, <2>3, <2>4 DEF Appends, Leave, Kinds, Reader, auditVars
<1>8. CASE BeginVerify \/ EndVerify
    <2>1. /\ faults' = FALSE /\ still' \in BOOLEAN
          /\ UNCHANGED <<diskVars, call, returned, calm>>
          /\ \E p \in {"idle", "block", "done"} : step' = [step EXCEPT ![Auditor] = p]
          /\ scan' = scan \/ scan' = [scan EXCEPT ![Auditor] = NoScan]
        BY <1>0, <1>8 DEF BeginVerify, EndVerify, Leave, historyVars, Kinds
    <2>2. /\ scan' \in [Reader -> Scan]
          /\ step' \in [Reader -> {"idle", "scanning", "block", "done"}]
          /\ \A s \in Sealer : step'[s] = step[s]
        BY <1>0, <1>a, <2>1 DEF Kinds, Reader
    <2>3. \A r \in Reader : step'[r] = "scanning" => scan'[r].date \in Date
        BY <1>0, <2>1 DEF Kinds, Reader
    <2> QED
        BY <1>0, <2>1, <2>2, <2>3 DEF Kinds, diskVars
<1>9. CASE CheckLink
    <2>1. /\ step' = [step EXCEPT ![Auditor] = "scanning"] /\ faults' \in BOOLEAN
          /\ scan' = [scan EXCEPT ![Auditor] =
                        [NoScan EXCEPT !.date = view[Auditor][position].date]]
          /\ UNCHANGED <<diskVars, view, position, call, seals, historyVars>>
          /\ step[Auditor] = "block" /\ Auditor \in Reader
        BY <1>0, <1>9 DEF CheckLink, Scanning, Kinds, Reader
    <2>2. position \in 1 .. Len(view[Auditor]) /\ IsChain(view[Auditor])
        BY <2>1 DEF Types, Placed, Chains
    <2>3. view[Auditor][position].date \in Date
        BY <2>2 DEF IsChain, IsBlock
    <2>4. /\ \A r \in Reader : step'[r] = "scanning" => scan'[r].date \in Date
          /\ scan' \in [Reader -> Scan]
        <3>1. DEFINE x == [NoScan EXCEPT !.date = view[Auditor][position].date]
        <3>2. x \in Scan /\ x.date \in Date /\ scan' = [scan EXCEPT ![Auditor] = x]
            BY <1>a, <2>1, <2>3
        <3> HIDE DEF x
        <3>3. /\ scan \in [Reader -> Scan] /\ step \in [Reader -> {"idle", "scanning", "block", "done"}]
              /\ \A r \in Reader : step[r] = "scanning" => scan[r].date \in Date
            BY <1>0 DEF Kinds
        <3>4. \A r \in Reader : r # Auditor => step'[r] = step[r] /\ scan'[r] = scan[r]
            BY <2>1, <3>2, <3>3
        <3>5. scan'[Auditor] = x
            BY <2>1, <3>2, <3>3
        <3> QED
            BY <2>1, <3>2, <3>3, <3>4, <3>5
    <2> QED
        BY <1>0, <2>1, <2>4 DEF Kinds, Reader, diskVars, historyVars
<1>10. CASE CheckRoot
    <2>1. /\ \E p \in {"block", "done"} : step' = [step EXCEPT ![Auditor] = p]
          /\ faults' \in BOOLEAN /\ scan' = [scan EXCEPT ![Auditor] = NoScan]
          /\ UNCHANGED <<diskVars, view, call, seals, historyVars>>
        BY <1>0, <1>10 DEF CheckRoot, Kinds
    <2> QED
        BY <1>0, <1>a, <2>1 DEF Kinds, Reader, diskVars, historyVars
<1>11. CASE UNCHANGED vars
    BY <1>0, <1>11 DEF Kinds, vars, diskVars, auditVars, historyVars
<1> QED
    BY <1>1, <1>2, <1>3, <1>4, <1>5, <1>6, <1>7, <1>8, <1>9, <1>10, <1>11 DEF Next

LEMMA ChainAppends ==
    ASSUME NEW c, IsChain(c), NEW b, IsBlock(b), Len(c) + 1 <= MaxSeals
    PROVE  IsChain(Append(c, b))
<1>1. /\ IsSeq(Append(c, b)) /\ Len(Append(c, b)) = Len(c) + 1 /\ Len(c) \in Nat
      /\ \A i \in 1 .. Len(c) : Append(c, b)[i] = c[i]
      /\ Append(c, b)[Len(c) + 1] = b
    BY AppendIsSeq, SeqHasLength DEF IsChain
<1>2. ASSUME NEW i \in 1 .. Len(c) + 1 PROVE IsBlock(Append(c, b)[i])
    BY <1>1, i \in 1 .. Len(c) \/ i = Len(c) + 1 DEF IsChain
<1> QED
    BY <1>1, <1>2 DEF IsChain

(* What a sealer makes of what it has read is a block. *)
LEMMA NewBlockIs ==
    ASSUME Types, NEW s \in Sealer, Scanned(s), scan[s].leaves # {}
    PROVE  IsBlock(NewBlock(s))
<1>1. /\ step[s] = "scanning" /\ scan[s] \in Scan /\ scan[s].date \in Date
      /\ call[s] \in Hash /\ IsChain(view[s]) /\ MaxSeals \in Nat
    BY VaultAssumption DEF Types, Kinds, Chains, Scanned, FirstPass, Reader
<1>2. Len(view[s]) \in Nat /\ DOMAIN view[s] = 1 .. Len(view[s]) /\ Len(view[s]) <= MaxSeals
    BY <1>1, SeqHasLength DEF IsChain
<1>3. \A i \in 1 .. Len(view[s]) : view[s][i].hash \in Hash
    BY <1>1 DEF IsChain, IsBlock
<1>4. [i \in DOMAIN view[s] |-> view[s][i].hash] \in Seq(Hash)
    BY <1>2, <1>3, IsASeq
<1>5. LastHash(view[s]) \in {Genesis} \cup Hash
    <2>1. CASE view[s] = <<>>
        BY <2>1 DEF LastHash
    <2>2. CASE view[s] # <<>>
        <3>1. Len(view[s]) \in 1 .. Len(view[s])
            BY <1>1, <1>2, <2>2, EmptySeq DEF IsChain, IsSeq
        <3> QED
            BY <1>3, <2>2, <3>1 DEF LastHash
    <2> QED
        BY <2>1, <2>2
<1>6. scan[s].leaves \in (SUBSET Version) \ {{}}
    BY <1>1 DEF Scan
<1> QED
    BY <1>1, <1>2, <1>4, <1>5, <1>6 DEF NewBlock, IsBlock

LEMMA ChainsStep == Types /\ [Next]_vars => Chains'
<1> SUFFICES ASSUME Types, [Next]_vars PROVE Chains'
    OBVIOUS
<1>0. /\ Chains /\ Typed /\ Auditor \notin Sealer /\ MaxSeals \in Nat
      /\ view = [r \in Reader |-> view[r]]
    BY VaultAssumption DEF Types, IInv, Typed
<1>a. IsChain(<<>>)
    BY <1>0, NoBlocks DEF IsChain
<1>1. ASSUME UNCHANGED chain,
             \/ UNCHANGED view
             \/ \E r \in Reader, v \in {<<>>, chain} : view' = [view EXCEPT ![r] = v]
      PROVE  Chains'
    BY <1>0, <1>a, <1>1 DEF Chains
<1>2. ASSUME NEW s \in Sealer,
             AppendBlock(s) \/ \E end \in {"torn", "bare"} : AppendCut(s, end)
      PROVE  Chains'
    <2>1. PICK end \in {"ended", "torn", "bare"} : Appends(s, end)
        BY <1>2, AppendsIs
    <2>2. /\ Write(NewBlock(s), end) /\ view' = [view EXCEPT ![s] = <<>>]
          /\ IsBlock(NewBlock(s)) /\ s \in Reader
        BY <2>1, NewBlockIs DEF Appends, Leave, Reader
    <2>3. \A r \in Reader : IsChain(view'[r])
        BY <1>0, <1>a, <2>2 DEF Chains
    <2>4. Len(chain) \in Nat /\ Len(chain) + 1 <= MaxSeals
        <3>1. s \in Busy /\ IsFiniteSet(Busy) /\ seals \in Nat
            BY <2>1 DEF Types, Counts, IInv, Typed, Busy, Appends, Scanned, FirstPass
        <3>2. Cardinality(Busy) \in Nat /\ Cardinality(Busy) # 0
            BY <3>1, FS_CardinalityType, FS_EmptySet
        <3> QED
            BY <1>0, <3>1, <3>2, SeqHasLength DEF Types, Counts, Typed
    <2>5. CASE chain' = Append(chain, NewBlock(s))
        BY <1>0, <2>2, <2>3, <2>4, <2>5, ChainAppends DEF Chains
    <2>6. CASE Shortens(chain, chain')
        <3>1. /\ IsSeq(chain') /\ Len(chain') \in Nat /\ Len(chain') <= Len(chain)
              /\ \A i \in 1 .. Len(chain') : chain'[i] = chain[i]
            BY <2>6, SeqHasLength DEF Shortens
        <3>2. IsChain(chain')
            BY <1>0, <2>4, <3>1 DEF Chains, IsChain
        <3> QED
            BY <2>3, <3>2 DEF Chains
    <2> QED
        BY <1>0, <2>2, <2>5, <2>6, WriteIs
<1>3. ASSUME NEW d \in Date, NEW c \in Control, Collect(d, c) \/ Clear(d, c) PROVE Chains'
    BY <1>1, <1>3 DEF Collect, Clear, SetReport
<1>4. ASSUME NEW r \in Reader, ReadReport(r) \/ LookAgain(r) PROVE Chains'
    BY <1>1, <1>4 DEF ReadReport, LookAgain, diskVars
<1>5. ASSUME NEW r \in Reader, Abort(r) PROVE Chains'
    BY <1>1, <1>5 DEF Abort, Leave, diskVars
<1>6. ASSUME NEW s \in Sealer, NEW d \in Date, BeginSeal(s, d) \/ RefuseSeal(s) PROVE Chains'
    BY <1>1, <1>6 DEF BeginSeal, RefuseSeal, Leave, diskVars, Reader
<1>7. ASSUME NEW s \in Sealer, RefuseSeal(s) PROVE Chains'
    BY <1>1, <1>7 DEF RefuseSeal, Leave, diskVars, Reader
<1>8. CASE BeginVerify \/ CheckLink \/ CheckRoot \/ EndVerify
    BY <1>1, <1>8 DEF BeginVerify, CheckLink, CheckRoot, EndVerify, Leave, diskVars, Reader
<1>9. CASE UNCHANGED vars
    BY <1>1, <1>9 DEF vars, diskVars
<1> QED
    BY <1>2, <1>3, <1>4, <1>5, <1>6, <1>7, <1>8, <1>9 DEF Next

LEMMA PlacedStep == Types /\ [Next]_vars => Placed'
<1> SUFFICES ASSUME Types, [Next]_vars PROVE Placed'
    OBVIOUS
<1>0. /\ Placed /\ Kinds /\ Chains /\ Auditor \notin Sealer /\ Auditor \in Reader
      /\ view = [r \in Reader |-> view[r]]
      /\ Len(view[Auditor]) \in Nat /\ Len(chain) \in Nat
      /\ (chain # <<>> => Len(chain) # 0) /\ Len(<<>>) = 0
    BY VaultAssumption, SeqHasLength, NoBlocks, EmptySeq
    DEF Types, IInv, Typed, Reader, Chains, IsChain, IsSeq
<1>1. ASSUME step'[Auditor] = step[Auditor], view'[Auditor] = view[Auditor],
             UNCHANGED position
      PROVE  Placed'
    BY <1>0, <1>1 DEF Placed
<1>2. ASSUME NEW d \in Date, NEW c \in Control, Collect(d, c) \/ Clear(d, c) PROVE Placed'
    BY <1>1, <1>2 DEF Collect, Clear, SetReport, auditVars
<1>3. ASSUME NEW r \in Reader, ReadReport(r) \/ LookAgain(r) PROVE Placed'
    BY <1>1, <1>3 DEF ReadReport, LookAgain, auditVars
<1>4. ASSUME NEW r \in Reader, Abort(r) PROVE Placed'
    <2>1. CASE r = Auditor
        BY <1>0, <1>4, <2>1 DEF Abort, Leave, Placed, Kinds
    <2>2. CASE r # Auditor
        BY <1>0, <1>1, <1>4, <2>2 DEF Abort, Leave, Kinds
    <2> QED
        BY <2>1, <2>2
<1>5. ASSUME NEW s \in Sealer, NEW d \in Date, BeginSeal(s, d) PROVE Placed'
    BY <1>0, <1>1, <1>5 DEF BeginSeal, auditVars, Kinds
<1>6. ASSUME NEW s \in Sealer, RefuseSeal(s) PROVE Placed'
    BY <1>0, <1>1, <1>6 DEF RefuseSeal, Leave, auditVars, Kinds
<1>7. ASSUME NEW s \in Sealer,
             AppendBlock(s) \/ \E end \in {"torn", "bare"} : AppendCut(s, end)
      PROVE  Placed'
    <2>1. PICK end \in {"ended", "torn", "bare"} : Appends(s, end)
        BY <1>7, AppendsIs
    <2> QED
        BY <1>0, <1>1, <2>1 DEF Appends, Leave, auditVars, Kinds
<1>8. CASE BeginVerify
    BY <1>0, <1>8 DEF BeginVerify, Placed, Kinds
<1>9. CASE CheckLink
    BY <1>0, <1>9 DEF CheckLink, Placed, Kinds
<1>10. CASE CheckRoot
    BY <1>0, <1>10 DEF CheckRoot, Scanned, FirstPass, Placed, Kinds
<1>11. CASE EndVerify
    BY <1>0, <1>11 DEF EndVerify, Leave, Placed, Kinds
<1>12. CASE UNCHANGED vars
    BY <1>1, <1>12 DEF vars, auditVars
<1> QED
    BY <1>2, <1>3, <1>4, <1>5, <1>6, <1>7, <1>8, <1>9, <1>10, <1>11, <1>12 DEF Next

LEMMA TypesStep == Types /\ [Next]_vars => Types'
    BY Step, CountsStep, KindsStep, ChainsStep, PlacedStep DEF Types

LEMMA AlwaysTyped == Spec => []Types
    BY InitTypes, TypesStep, PTL DEF Spec

(***************************************************************************)
(* The vault keeps its types: what seal_run appends are blocks, the        *)
(* auditor stays inside the chain it has read, and only a chain that ends  *)
(* in a block ends without its newline.                                    *)
(***************************************************************************)
THEOREM VaultTyped == Spec => []TypeOK
<1>1. ASSUME Types PROVE TypeOK
    <2>1. /\ Kinds /\ Chains /\ Placed /\ Counts /\ Typed
          /\ MaxSeals \in Nat /\ Auditor \in Reader
        BY <1>1, VaultAssumption DEF Types, IInv, Reader
    <2>2. /\ Len(chain) \in Nat /\ DOMAIN chain = 1 .. Len(chain)
          /\ \A r \in Reader : Len(view[r]) \in Nat /\ DOMAIN view[r] = 1 .. Len(view[r])
        BY <2>1, SeqHasLength DEF Chains, IsChain
    <2>3. /\ \A i \in DOMAIN chain : IsBlock(chain[i])
          /\ \A r \in Reader : \A i \in DOMAIN view[r] : IsBlock(view[r][i])
        BY <2>1, <2>2 DEF Chains, IsChain
    <2>4. position \in 1 .. MaxSeals + 1
        <3>1. Len(view[Auditor]) \in Nat /\ Len(view[Auditor]) <= MaxSeals
            BY <2>1, <2>2 DEF Chains, IsChain
        <3>2. step[Auditor] \in {"idle", "scanning", "block", "done"}
            BY <2>1 DEF Kinds
        <3> QED
            BY <2>1, <3>1, <3>2 DEF Placed
    <2>5. seals \in {0} \cup Hash /\ cuts \in 0 .. MaxSeals
        <3>1. Cardinality(Busy) \in Nat /\ seals \in Nat
            BY <2>1, FS_CardinalityType DEF Counts, Typed
        <3> QED
            BY <2>1, <3>1 DEF Counts, Hash
    <2>6. tail = "bare" => chain # <<>>
        BY <2>1 DEF Typed
    <2> QED
        BY <2>1, <2>3, <2>4, <2>5, <2>6 DEF TypeOK, Kinds
<1> QED
    BY <1>1, AlwaysTyped, PTL

-----------------------------------------------------------------------------
(***************************************************************************)
(* Lost blocks.  A cut append leaves the file unended, and the next append *)
(* pays for it: it joins the open line, which is ended after that, or it   *)
(* is cut itself.  The block on a line without its newline was returned to *)
(* nobody, so that nothing is lost when it becomes unreadable.             *)
(***************************************************************************)
Lost(c, ret) == ret \ {c[i].hash : i \in 1 .. Len(c)}
Open(t) == IF t = "ended" THEN 0 ELSE 1

Losses ==
    /\ IsFiniteSet(returned) /\ \A h \in returned : Issued(seals, h)
    /\ \A s \in Sealer : step[s] # "idle" => call[s] \notin returned
    /\ tail = "bare" => chain[Len(chain)].hash \notin returned
    /\ Cardinality(Lost(chain, returned)) + Open(tail) <= cuts

LEMMA InitLosses == Init => Losses
<1> SUFFICES ASSUME Init PROVE Losses
    OBVIOUS
<1>1. Lost(chain, returned) = {}
    BY DEF Init, Lost
<1>2. \A s \in Sealer : step[s] = "idle"
    BY DEF Init, Reader
<1>3. IsFiniteSet(returned) /\ Cardinality({}) = 0 /\ returned = {}
    BY FS_EmptySet DEF Init
<1>4. tail = "ended" /\ cuts = 0
    BY DEF Init
<1>5. Cardinality(Lost(chain, returned)) + Open(tail) <= cuts
    BY <1>1, <1>3, <1>4 DEF Open
<1> QED
    BY <1>2, <1>3, <1>4, <1>5 DEF Losses

(* Steps that append nothing. *)
LEMMA LossesKept ==
    ASSUME Types, Losses, UNCHANGED <<chain, tail, returned, cuts>>,
           seals' \in Nat, seals <= seals',
           \A s \in Sealer : step'[s] # "idle" =>
               \/ step[s] # "idle" /\ call'[s] = call[s]
               \/ seals < call'[s]
    PROVE  Losses'
<1>1. seals \in Nat
    BY DEF Types, IInv, Typed
<1>2. \A h \in returned : Issued(seals', h) /\ ~(seals < h)
    BY <1>1 DEF Losses, Issued
<1> QED
    BY <1>2 DEF Losses

(* The block reaches the chain: none is lost by it. *)
LEMMA LostByAppend ==
    ASSUME NEW c, IsSeq(c), NEW b, NEW ret
    PROVE  /\ Lost(Append(c, b), ret) \subseteq Lost(c, ret)
           /\ Lost(Append(c, b), ret \cup {b.hash}) \subseteq Lost(c, ret)
<1>1. /\ Len(Append(c, b)) = Len(c) + 1 /\ Len(c) \in Nat
      /\ \A i \in 1 .. Len(c) : Append(c, b)[i] = c[i]
      /\ Append(c, b)[Len(c) + 1] = b
    BY AppendIsSeq, SeqHasLength
<1>2. \A i \in 1 .. Len(c) : i \in 1 .. Len(c) + 1
    BY <1>1
<1>3. Len(c) + 1 \in 1 .. Len(c) + 1
    BY <1>1
<1>4. ASSUME NEW i \in 1 .. Len(c)
      PROVE  c[i].hash \in {Append(c, b)[j].hash : j \in 1 .. Len(Append(c, b))}
    BY <1>1, <1>2
<1>5. b.hash \in {Append(c, b)[j].hash : j \in 1 .. Len(Append(c, b))}
    BY <1>1, <1>3
<1> QED
    BY <1>4, <1>5 DEF Lost

(* The block does not: it is the only one that is lost, when the last line *)
(* has no block, or one that was returned to nobody.                       *)
LEMMA LostByJoining ==
    ASSUME NEW s, NEW end \in {"ended", "torn", "bare"}, Types, Losses,
           Write(NewBlock(s), end), ~(tail = "ended" /\ end # "torn"), NEW more
    PROVE  Lost(chain', returned \cup more) \subseteq Lost(chain, returned) \cup more
<1>1. CASE tail # "bare"
    <2>1. chain' = chain
        BY <1>1 DEF Write
    <2> QED
        BY <2>1 DEF Lost
<1>2. CASE tail = "bare"
    <2>1. chain' = SubSeq(chain, 1, Len(chain) - 1) /\ IsSeq(chain) /\ chain # <<>>
        BY <1>2 DEF Write, Types, IInv, Typed
    <2>3. /\ Len(chain) \in Nat /\ Len(chain) >= 1
          /\ Len(chain') = Len(chain) - 1
          /\ \A i \in 1 .. Len(chain) - 1 : chain'[i] = chain[i]
        BY <2>1, FrontIs
    <2>4. chain[Len(chain)].hash \notin returned
        BY <1>2 DEF Losses
    <2>5. ASSUME NEW i \in 1 .. Len(chain), chain[i].hash \in returned
          PROVE  chain[i].hash \in {chain'[j].hash : j \in 1 .. Len(chain')}
        <3>1. i \in 1 .. Len(chain) - 1
            BY <2>3, <2>4, <2>5
        <3> QED
            BY <2>3, <3>1
    <2> QED
        BY <2>5 DEF Lost
<1> QED
    BY <1>1, <1>2

LEMMA SmallerLoss ==
    ASSUME NEW A, NEW B, IsFiniteSet(B), A \subseteq B
    PROVE  IsFiniteSet(A) /\ Cardinality(A) \in Nat /\ Cardinality(B) \in Nat
           /\ Cardinality(A) <= Cardinality(B)
    BY FS_Subset, FS_CardinalityType

LEMMA LossesStep == Types /\ Losses /\ [Next]_vars => Losses'
<1> SUFFICES ASSUME Types, Losses, [Next]_vars PROVE Losses'
    OBVIOUS
<1>0. /\ Typed /\ Kinds /\ Losses /\ NewIsUnseen /\ seals \in Nat /\ cuts \in Nat
      /\ Auditor \notin Sealer /\ \A s \in Sealer : s \in Reader
    BY VaultAssumption DEF Types, Counts, IInv, Typed, Reader
<1>1. ASSUME NEW d \in Date, NEW c \in Control, Collect(d, c) \/ Clear(d, c) PROVE Losses'
    BY <1>0, <1>1, LossesKept DEF Collect, Clear, SetReport
<1>2. ASSUME NEW r \in Reader, ReadReport(r) \/ LookAgain(r) PROVE Losses'
    BY <1>0, <1>2, LossesKept DEF ReadReport, LookAgain, diskVars, historyVars
<1>3. ASSUME NEW r \in Reader, Abort(r) PROVE Losses'
    BY <1>0, <1>3, LossesKept DEF Abort, Leave, Kinds, diskVars, historyVars
<1>4. ASSUME NEW s \in Sealer, NEW d \in Date, BeginSeal(s, d) PROVE Losses'
    <2>1. /\ step' = [step EXCEPT ![s] = "scanning"] /\ seals' = seals + 1
          /\ call' = [call EXCEPT ![s] = seals + 1]
          /\ UNCHANGED <<chain, tail, returned, cuts>>
        BY <1>4 DEF BeginSeal, diskVars
    <2>2. ASSUME NEW t \in Sealer, step'[t] # "idle"
          PROVE  (step[t] # "idle" /\ call'[t] = call[t]) \/ seals < call'[t]
        BY <1>0, <2>1, <2>2 DEF Kinds
    <2> QED
        BY <1>0, <2>1, <2>2, LossesKept
<1>5. ASSUME NEW s \in Sealer, RefuseSeal(s) PROVE Losses'
    BY <1>0, <1>5, LossesKept DEF RefuseSeal, Leave, Kinds, diskVars, historyVars
<1>6. ASSUME NEW s \in Sealer,
             AppendBlock(s) \/ \E end \in {"torn", "bare"} : AppendCut(s, end)
      PROVE  Losses'
    <2>1. \E end \in {"ended", "torn", "bare"} :
             /\ Appends(s, end)
             /\ \/ end = "ended" /\ returned' = returned \cup {call[s]} /\ cuts' = cuts
                \/ end # "ended" /\ returned' = returned /\ cuts' = cuts + 1
        BY <1>6 DEF AppendBlock, AppendCut, Appends
    <2>2. PICK end \in {"ended", "torn", "bare"} :
             /\ Appends(s, end)
             /\ \/ end = "ended" /\ returned' = returned \cup {call[s]} /\ cuts' = cuts
                \/ end # "ended" /\ returned' = returned /\ cuts' = cuts + 1
        BY <2>1
    <2>3. /\ step[s] = "scanning" /\ step' = [step EXCEPT ![s] = "idle"]
          /\ Write(NewBlock(s), end) /\ UNCHANGED <<seals, call>>
        BY <2>2 DEF Appends, Scanned, FirstPass, Leave
    <2>4. call[s] \notin returned /\ Issued(seals, call[s]) /\ NewBlock(s).hash = call[s]
        BY <1>0, <2>3 DEF Losses, Typed, Issued, NewBlock
    <2>5. IsFiniteSet(returned') /\ \A h \in returned' : Issued(seals', h)
        BY <1>0, <2>2, <2>3, <2>4, FS_AddElement DEF Losses
    <2>6. ASSUME NEW t \in Sealer, step'[t] # "idle" PROVE call'[t] \notin returned'
        <3>1. t # s /\ step[t] # "idle"
            BY <1>0, <2>3, <2>6 DEF Kinds
        <3>2. call[s] # call[t]
            BY <1>0, <2>3, <3>1 DEF NewIsUnseen, Unseen
        <3> QED
            BY <1>0, <2>2, <2>3, <3>1, <3>2 DEF Losses
    <2>7. tail' = "bare" => chain'[Len(chain')].hash \notin returned'
        <3> SUFFICES ASSUME tail' = "bare" PROVE chain'[Len(chain')].hash \notin returned'
            OBVIOUS
        <3>1. chain' = Append(chain, NewBlock(s)) /\ end = "bare"
            BY <2>3 DEF Write
        <3>2. chain'[Len(chain')] = NewBlock(s)
            BY <1>0, <3>1, AppendIsSeq DEF Typed
        <3> QED
            BY <2>2, <2>4, <3>1, <3>2
    <2>8. Cardinality(Lost(chain', returned')) + Open(tail') <= cuts'
        <3>1. /\ IsFiniteSet(Lost(chain, returned)) /\ Cardinality(Lost(chain, returned)) \in Nat
              /\ Lost(chain, returned) \subseteq returned
              /\ Cardinality(Lost(chain, returned)) + Open(tail) <= cuts
            BY <1>0, FS_Subset, FS_CardinalityType DEF Losses, Lost
        <3>2. CASE tail = "ended" /\ end # "torn"
            <4>1. chain' = Append(chain, NewBlock(s)) /\ tail' = end
                BY <2>3, <3>2 DEF Write
            <4>2. Lost(chain', returned') \subseteq Lost(chain, returned)
                BY <1>0, <2>2, <2>4, <4>1, LostByAppend DEF Typed
            <4>3. /\ Cardinality(Lost(chain', returned')) \in Nat
                  /\ Cardinality(Lost(chain', returned')) <= Cardinality(Lost(chain, returned))
                BY <3>1, <4>2, SmallerLoss
            <4> QED
                BY <1>0, <2>2, <3>1, <3>2, <4>1, <4>3 DEF Open
        <3>3. CASE ~(tail = "ended" /\ end # "torn") /\ end # "ended"
            <4>1. Lost(chain', returned \cup {}) \subseteq Lost(chain, returned) \cup {}
                BY <2>3, <3>3, LostByJoining
            <4>2. /\ Cardinality(Lost(chain', returned')) \in Nat
                  /\ Cardinality(Lost(chain', returned')) <= Cardinality(Lost(chain, returned))
                BY <2>2, <3>1, <3>3, <4>1, SmallerLoss
            <4>3. Open(tail) \in {0, 1} /\ Open(tail') \in {0, 1} /\ cuts' = cuts + 1
                BY <2>2, <3>3 DEF Open
            <4>4. Open(tail') <= Open(tail) + 1
                BY <4>3
            <4> QED
                BY <1>0, <3>1, <4>2, <4>3, <4>4
        <3>4. CASE tail # "ended" /\ end = "ended"
            <4>1. Lost(chain', returned \cup {call[s]})
                     \subseteq Lost(chain, returned) \cup {call[s]}
                BY <2>3, <3>4, LostByJoining
            <4>2. call[s] \notin Lost(chain, returned)
                BY <2>4, <3>1
            <4>3. /\ IsFiniteSet(Lost(chain, returned) \cup {call[s]})
                  /\ Cardinality(Lost(chain, returned) \cup {call[s]})
                        = Cardinality(Lost(chain, returned)) + 1
                BY <3>1, <4>2, FS_AddElement
            <4>4. /\ Cardinality(Lost(chain', returned')) \in Nat
                  /\ Cardinality(Lost(chain', returned'))
                        <= Cardinality(Lost(chain, returned)) + 1
                BY <2>2, <3>4, <4>1, <4>3, SmallerLoss
            <4>5. tail' = "ended"
                BY <2>3, <3>4 DEF Write
            <4> QED
                BY <1>0, <2>2, <3>1, <3>4, <4>4, <4>5 DEF Open
        <3> QED
            BY <3>2, <3>3, <3>4
    <2> QED
        BY <2>5, <2>6, <2>7, <2>8 DEF Losses
<1>7. CASE BeginVerify \/ CheckLink \/ CheckRoot \/ EndVerify
    BY <1>0, <1>7, LossesKept
    DEF BeginVerify, CheckLink, CheckRoot, EndVerify, Leave, Kinds, diskVars, historyVars
<1>8. CASE UNCHANGED vars
    BY <1>0, <1>8, LossesKept DEF vars, diskVars, historyVars
<1> QED
    BY <1>1, <1>2, <1>3, <1>4, <1>5, <1>6, <1>7, <1>8 DEF Next

(***************************************************************************)
(* The chain loses a block that seal_run has returned only to an append    *)
(* that was cut short, and each of those takes one at most.                *)
(***************************************************************************)
THEOREM LossesAreCuts == Spec => []OneLossPerCut
<1>1. ASSUME Types, Losses PROVE OneLossPerCut
    <2>1. DOMAIN chain = 1 .. Len(chain)
        BY <1>1, SeqHasLength DEF Types, IInv, Typed
    <2>2. Cardinality(Lost(chain, returned)) \in Nat /\ cuts \in Nat
        BY <1>1, FS_Subset, FS_CardinalityType DEF Losses, Lost, Types, Counts
    <2>3. Cardinality(Lost(chain, returned)) <= cuts
        BY <1>1, <2>2 DEF Losses, Open
    <2> QED
        BY <2>1, <2>3 DEF OneLossPerCut, Lost
<1> QED
    BY <1>1, InitTypes, InitLosses, TypesStep, LossesStep, PTL DEF Spec

-----------------------------------------------------------------------------
(***************************************************************************)
(* What a reader has found of a date's reports is what is there, as long   *)
(* as nobody changes them under its hands.                                 *)
(***************************************************************************)
Found(row, n) == {row[c] : c \in 1 .. n - 1} \ {0}
Reports(row) == {row[c] : c \in Control} \ {0}
TrueScan(rep, x) == x.leaves = Found(rep[x.date], x.next)

LEMMA TrueStart == \A rep, d : TrueScan(rep, [NoScan EXCEPT !.date = d])
<1> SUFFICES ASSUME NEW rep, NEW d PROVE TrueScan(rep, [NoScan EXCEPT !.date = d])
    OBVIOUS
<1>1. /\ [NoScan EXCEPT !.date = d].next = 1 /\ [NoScan EXCEPT !.date = d].leaves = {}
    BY DEF NoScan
<1>2. \A row : Found(row, 1) = {}
    BY DEF Found
<1> QED
    BY <1>1, <1>2 DEF TrueScan

LEMMA TrueReading ==
    ASSUME Types, NEW r \in Reader, ReadReport(r) \/ LookAgain(r), TrueScan(report, scan[r])
    PROVE  TrueScan(report, scan'[r]) /\ scan'[r].date = scan[r].date
<1>0. Kinds /\ scan[r] \in Scan /\ DOMAIN scan = Reader
    BY DEF Types, Kinds
<1>1. CASE ReadReport(r)
    <2> DEFINE row == report[scan[r].date]
               n == scan[r].next
    <2>1. /\ scan'[r].date = scan[r].date /\ scan'[r].next = n + 1
          /\ scan'[r].leaves = scan[r].leaves \cup ({row[n]} \ {0})
        BY <1>0, <1>1 DEF ReadReport, Scan
    <2>2. n \in Nat /\ n >= 1
        BY <1>0 DEF Scan
    <2>3. \A c : c \in 1 .. n <=> c \in 1 .. n - 1 \/ c = n
        BY <2>2
    <2>4. (n + 1) - 1 = n
        BY <2>2
    <2>5. Found(row, n + 1) = Found(row, n) \cup ({row[n]} \ {0})
        BY <2>3, <2>4 DEF Found
    <2> QED
        BY <2>1, <2>5 DEF TrueScan
<1>2. CASE LookAgain(r)
    <2>1. /\ scan'[r].date = scan[r].date /\ scan'[r].next = 1 /\ scan'[r].leaves = {}
        BY <1>0, <1>2 DEF LookAgain, Scan
    <2> QED
        BY <2>1 DEF TrueScan, Found
<1> QED
    BY <1>1, <1>2

LEMMA TrueEnd ==
    ASSUME Types, NEW r \in Reader, Scanned(r), TrueScan(report, scan[r])
    PROVE  scan[r].leaves = Reports(report[scan[r].date])
<1>1. scan[r] \in Scan /\ scan[r].next \notin Control /\ Controls \in Nat \ {0}
    BY VaultAssumption DEF Types, Kinds, Scanned, FirstPass
<1>2. scan[r].next = Controls + 1
    BY <1>1 DEF Scan, Control
<1>3. \A row : Found(row, Controls + 1) = Reports(row)
    <2> DEFINE n == Controls + 1
    <2>1. n - 1 = Controls
        BY <1>1
    <2> HIDE DEF n
    <2>2. \A row : Found(row, n) = Reports(row)
        BY <2>1, Zenon DEF Found, Reports, Control
    <2> QED
        BY <2>2 DEF n
<1> QED
    BY <1>2, <1>3 DEF TrueScan

-----------------------------------------------------------------------------
(***************************************************************************)
(* The verdict on a ledger that holds still: the auditor has the chain and *)
(* true scans, and its faults are those of the blocks it has passed.       *)
(***************************************************************************)
Holds(c, rep, i) == LinksAt(c, i) /\ Reports(rep[c[i].date]) \in {{}, c[i].root}

Exact ==
    still = TRUE /\ step[Auditor] # "idle" =>
        /\ view[Auditor] = chain
        /\ step[Auditor] = "scanning" =>
               /\ scan[Auditor].date = chain[position].date
               /\ TrueScan(report, scan[Auditor])
        /\ (faults = TRUE) <=>
               \/ \E i \in 1 .. position - 1 : ~Holds(chain, report, i)
               \/ step[Auditor] = "scanning" /\ ~LinksAt(chain, position)

LEMMA ExactStep == Types /\ Exact /\ [Next]_vars => Exact'
<1> SUFFICES ASSUME Types, Exact, [Next]_vars PROVE Exact'
    OBVIOUS
<1>0. /\ Kinds /\ Placed /\ Chains /\ Auditor \notin Sealer /\ Auditor \in Reader
      /\ \A s \in Sealer : s \in Reader
      /\ view = [r \in Reader |-> view[r]]
    BY VaultAssumption DEF Types, IInv, Typed, Reader
<1>1. ASSUME UNCHANGED <<chain, report, still, position, faults>>,
             step'[Auditor] = step[Auditor], view'[Auditor] = view[Auditor],
             scan'[Auditor] = scan[Auditor]
      PROVE  Exact'
    BY <1>1 DEF Exact
<1>2. ASSUME NEW d \in Date, NEW c \in Control, Collect(d, c) \/ Clear(d, c) PROVE Exact'
    BY <1>2 DEF Collect, Clear, SetReport, Exact
<1>3. ASSUME NEW r \in Reader, ReadReport(r) \/ LookAgain(r) PROVE Exact'
    <2>1. /\ UNCHANGED <<chain, report, still, position, faults, step, view>>
          /\ step[r] = "scanning"
        BY <1>3 DEF ReadReport, LookAgain, FirstPass, diskVars, auditVars, historyVars
    <2>2. CASE r # Auditor
        <3>1. scan'[Auditor] = scan[Auditor]
            BY <1>0, <1>3, <2>2 DEF ReadReport, LookAgain, Kinds
        <3> QED
            BY <1>1, <2>1, <3>1
    <2>3. CASE r = Auditor
        <3>1. TrueScan(report, scan[r]) =>
                 TrueScan(report, scan'[r]) /\ scan'[r].date = scan[r].date
            BY <1>3, TrueReading
        <3> QED
            BY <2>1, <2>3, <3>1 DEF Exact
    <2> QED
        BY <2>2, <2>3
<1>4. ASSUME NEW r \in Reader, Abort(r) PROVE Exact'
    <2>1. CASE r = Auditor
        BY <1>0, <1>4, <2>1 DEF Abort, Leave, Exact, Kinds
    <2>2. CASE r # Auditor
        BY <1>0, <1>1, <1>4, <2>2 DEF Abort, Leave, Kinds, diskVars, historyVars
    <2> QED
        BY <2>1, <2>2
<1>5. ASSUME NEW s \in Sealer, NEW d \in Date, BeginSeal(s, d) PROVE Exact'
    BY <1>0, <1>1, <1>5 DEF BeginSeal, Scanning, auditVars, diskVars, Kinds
<1>6. ASSUME NEW s \in Sealer, RefuseSeal(s) PROVE Exact'
    BY <1>0, <1>1, <1>6 DEF RefuseSeal, Leave, auditVars, diskVars, historyVars, Kinds
<1>7. ASSUME NEW s \in Sealer,
             AppendBlock(s) \/ \E end \in {"torn", "bare"} : AppendCut(s, end)
      PROVE  Exact'
    BY <1>7 DEF AppendBlock, AppendCut, Exact
<1>8. CASE BeginVerify
    <2>1. /\ UNCHANGED <<chain, report>> /\ position' = 1 /\ faults' = FALSE
          /\ view'[Auditor] = chain /\ step'[Auditor] # "scanning"
        BY <1>0, <1>8 DEF BeginVerify, diskVars, Kinds
    <2>2. ~ \E i \in 1 .. position' - 1 : ~Holds(chain', report', i)
        BY <2>1
    <2> QED
        BY <2>1, <2>2 DEF Exact
<1>9. CASE CheckLink
    <2>1. /\ UNCHANGED <<chain, report, still, position, view>>
          /\ step[Auditor] = "block" /\ step'[Auditor] = "scanning"
          /\ faults' = (faults \/ ~LinksAt(view[Auditor], position))
          /\ scan'[Auditor] = [NoScan EXCEPT !.date = view[Auditor][position].date]
        BY <1>0, <1>9 DEF CheckLink, Scanning, diskVars, historyVars, Kinds
    <2>2. TrueScan(report, scan'[Auditor])
        <3>1. TrueScan(report, [NoScan EXCEPT !.date = view[Auditor][position].date])
            BY TrueStart
        <3> QED
            BY <2>1, <3>1
    <2>3. scan'[Auditor].date = view[Auditor][position].date
        BY <2>1 DEF NoScan
    <2>4. faults \in BOOLEAN
        BY <1>0 DEF Kinds
    <2> QED
        BY <2>1, <2>2, <2>3, <2>4 DEF Exact
<1>10. CASE CheckRoot
    <2>1. /\ UNCHANGED <<chain, report, still, view>> /\ Scanned(Auditor)
          /\ step[Auditor] = "scanning" /\ step'[Auditor] \in {"block", "done"}
          /\ position' = position + 1
          /\ faults' = (faults \/ (/\ scan[Auditor].leaves # {}
                                   /\ scan[Auditor].leaves # view[Auditor][position].root))
        BY <1>0, <1>10 DEF CheckRoot, Scanned, FirstPass, diskVars, historyVars, Kinds
    <2> SUFFICES ASSUME still = TRUE PROVE Exact'
        BY <2>1 DEF Exact
    <2>2. /\ view[Auditor] = chain /\ scan[Auditor].date = chain[position].date
          /\ TrueScan(report, scan[Auditor])
          /\ (faults = TRUE) <=>
                 \/ \E i \in 1 .. position - 1 : ~Holds(chain, report, i)
                 \/ ~LinksAt(chain, position)
        BY <2>1 DEF Exact
    <2>3. scan[Auditor].leaves = Reports(report[chain[position].date])
        BY <1>0, <2>1, <2>2, TrueEnd
    <2>4. position \in 1 .. Len(view[Auditor]) /\ Len(view[Auditor]) \in Nat
        BY <1>0, <2>1, SeqHasLength DEF Placed, Chains, IsChain
    <2>5. /\ (position + 1) - 1 = position
          /\ \A i : i \in 1 .. position <=> i \in 1 .. position - 1 \/ i = position
        BY <2>4
    <2>6. faults \in BOOLEAN
        BY <1>0 DEF Kinds
    <2>7. (faults' = TRUE) <=>
             \/ \E i \in 1 .. position - 1 : ~Holds(chain, report, i)
             \/ ~Holds(chain, report, position)
        BY <2>1, <2>2, <2>3, <2>6 DEF Holds
    <2>8. (faults' = TRUE) <=> \E i \in 1 .. position' - 1 : ~Holds(chain', report', i)
        <3>1. position' - 1 = position /\ chain' = chain /\ report' = report
            BY <2>1, <2>5
        <3>2. (faults' = TRUE) <=> \E i \in 1 .. position : ~Holds(chain, report, i)
            BY <2>5, <2>7
        <3> QED
            BY <3>1, <3>2
    <2> QED
        BY <2>1, <2>2, <2>8 DEF Exact
<1>11. CASE EndVerify
    BY <1>0, <1>11 DEF EndVerify, Leave, Exact, Kinds
<1>12. CASE UNCHANGED vars
    BY <1>1, <1>12 DEF vars, diskVars, auditVars, historyVars
<1> QED
    BY <1>2, <1>3, <1>4, <1>5, <1>6, <1>7, <1>8, <1>9, <1>10, <1>11, <1>12 DEF Next

(***************************************************************************)
(* verify_chain's verdict on a ledger that nothing changes meanwhile is    *)
(* exact, however many reads it takes.                                     *)
(***************************************************************************)
THEOREM VerdictsAreExact == Spec => []VerdictIsExact
<1>1. Init => Exact
    BY DEF Init, Exact, Reader
<1>2. ASSUME Types, Exact PROVE VerdictIsExact
    <2> SUFFICES ASSUME step[Auditor] = "done", still
                 PROVE  ~faults <=> /\ Linked(chain)
                                    /\ \A i \in DOMAIN chain :
                                           Leaves(chain[i].date) \in {{}, chain[i].root}
        BY DEF VerdictIsExact
    <2>1. /\ still = TRUE /\ faults \in BOOLEAN
          /\ position = Len(view[Auditor]) + 1
          /\ DOMAIN chain = 1 .. Len(chain) /\ Len(chain) \in Nat
        BY <1>2, SeqHasLength DEF Types, Kinds, Placed, Chains, IsChain
    <2>2. /\ view[Auditor] = chain
          /\ (faults = TRUE) <=> \E i \in 1 .. position - 1 : ~Holds(chain, report, i)
        BY <1>2, <2>1 DEF Exact
    <2>3. position - 1 = Len(chain)
        BY <2>1, <2>2
    <2>4. ~faults <=> \A i \in DOMAIN chain : Holds(chain, report, i)
        BY <2>1, <2>2, <2>3
    <2>5. \A i \in DOMAIN chain : Leaves(chain[i].date) = Reports(report[chain[i].date])
        BY DEF Leaves, Reports
    <2> QED
        BY <2>4, <2>5 DEF Holds, Linked
<1> QED
    BY <1>1, <1>2, InitTypes, TypesStep, ExactStep, PTL DEF Spec

-----------------------------------------------------------------------------
(***************************************************************************)
(* While all is calm, one seal at a time extends a chain that is in order, *)
(* and what the auditor has read of it is its beginning.                   *)
(***************************************************************************)
InOrder(c, rep) ==
    \A i \in 1 .. Len(c) : LinksAt(c, i) /\ Reports(rep[c[i].date]) = c[i].root

OneSealer ==
    \A s \in Sealer : step[s] # "idle" =>
        view[s] = chain /\ \A t \in Sealer : step[t] # "idle" => t = s

Scans == \A r \in Reader : step[r] = "scanning" => TrueScan(report, scan[r])

AuditorOnCourse ==
    step[Auditor] # "idle" =>
        /\ Shortens(chain, view[Auditor]) /\ faults = FALSE
        /\ step[Auditor] = "scanning" => scan[Auditor].date = view[Auditor][position].date

Calm ==
    calm = TRUE =>
        tail = "ended" /\ InOrder(chain, report) /\ OneSealer /\ Scans /\ AuditorOnCourse

(* Steps that leave the ledger and the sealers at work as they are. *)
LEMMA CalmKept ==
    ASSUME Types, Calm, UNCHANGED <<chain, tail, report>>, calm' = TRUE => calm = TRUE,
           \A s \in Sealer : step'[s] # "idle" => step[s] # "idle" /\ view'[s] = view[s],
           calm = TRUE => Scans' /\ AuditorOnCourse'
    PROVE  Calm'
    BY DEF Calm, OneSealer

(* A block that was sealed of the whole chain keeps it in order. *)
LEMMA InOrderAppends ==
    ASSUME NEW c, IsSeq(c), NEW rep, InOrder(c, rep), NEW b, b.index = Len(c),
           b.prev = LastHash(c), b.root = Reports(rep[b.date])
    PROVE  InOrder(Append(c, b), rep)
<1>1. /\ Len(Append(c, b)) = Len(c) + 1 /\ Len(c) \in Nat
      /\ \A i \in 1 .. Len(c) : Append(c, b)[i] = c[i]
      /\ Append(c, b)[Len(c) + 1] = b
    BY AppendIsSeq, SeqHasLength
<1>2. ASSUME NEW i \in 1 .. Len(c)
      PROVE  /\ LinksAt(Append(c, b), i)
             /\ Reports(rep[Append(c, b)[i].date]) = Append(c, b)[i].root
    <2>1. LinksAt(c, i) /\ Reports(rep[c[i].date]) = c[i].root
        BY DEF InOrder
    <2>2. i = 1 \/ i - 1 \in 1 .. Len(c)
        BY <1>1
    <2> QED
        BY <1>1, <2>1, <2>2 DEF LinksAt
<1>3. LinksAt(Append(c, b), Len(c) + 1)
    <2>1. b.index = (Len(c) + 1) - 1
        BY <1>1
    <2>2. CASE c = <<>>
        <3>1. Len(c) = 0
            BY <2>2, NoBlocks
        <3> QED
            BY <1>1, <2>1, <2>2, <3>1 DEF LinksAt, LastHash
    <2>3. CASE c # <<>>
        <3>1. Len(c) # 0
            BY <2>3, EmptySeq DEF IsSeq
        <3>2. /\ Len(c) \in 1 .. Len(c) /\ (Len(c) + 1) - 1 = Len(c)
              /\ Len(c) + 1 # 1
            BY <1>1, <3>1
        <3> QED
            BY <1>1, <2>1, <2>3, <3>2 DEF LinksAt, LastHash
    <2> QED
        BY <2>2, <2>3
<1>4. \A i \in 1 .. Len(c) + 1 : i \in 1 .. Len(c) \/ i = Len(c) + 1
    BY <1>1
<1> QED
    BY <1>1, <1>2, <1>3, <1>4 DEF InOrder

LEMMA CalmStep == Types /\ Calm /\ [Next]_vars => Calm'
<1> SUFFICES ASSUME Types, Calm, [Next]_vars PROVE Calm'
    OBVIOUS
<1>0. /\ Kinds /\ Placed /\ Chains /\ Typed /\ Auditor \notin Sealer /\ Auditor \in Reader
      /\ \A s \in Sealer : s \in Reader
      /\ \A r \in Reader : r \in Sealer \/ r = Auditor
      /\ view = [r \in Reader |-> view[r]]
      /\ NoDate \notin Date /\ calm \in BOOLEAN
    BY VaultAssumption DEF Types, IInv, Typed, Reader, Kinds
<1>a. /\ IsSeq(chain) /\ Len(chain) \in Nat /\ DOMAIN chain = 1 .. Len(chain)
      /\ Shortens(chain, chain)
    BY <1>0, SeqHasLength DEF Typed, Shortens
<1>1. ASSUME NEW d \in Date, NEW c \in Control, Collect(d, c) \/ Clear(d, c) PROVE Calm'
    <2>1. PICK v : SetReport(d, c, v)
        BY <1>1 DEF Collect, Clear
    <2>2. /\ report' = [report EXCEPT ![d][c] = v] /\ calm' = (calm /\ ~Disturbs(d))
          /\ UNCHANGED <<chain, tail, step, view, scan, position, faults>>
        BY <2>1 DEF SetReport, auditVars
    <2> SUFFICES ASSUME calm' = TRUE PROVE Calm'
        BY DEF Calm
    <2>3. calm = TRUE /\ ~Disturbs(d)
        BY <1>0, <2>2
    <2>4. \A e \in Date : e # d => report'[e] = report[e]
        BY <1>0, <2>2 DEF Kinds
    <2>5. InOrder(chain', report')
        <3>1. ASSUME NEW i \in 1 .. Len(chain)
              PROVE  report'[chain[i].date] = report[chain[i].date]
            <4>1. chain[i].date # d /\ chain[i].date \in Date
                BY <1>0, <1>a, <2>3 DEF Disturbs, Chains, IsChain, IsBlock
            <4> QED
                BY <2>4, <4>1
        <3> QED
            BY <2>2, <2>3, <3>1 DEF Calm, InOrder
    <2>6. Scans'
        <3> SUFFICES ASSUME NEW r \in Reader, step[r] = "scanning"
                     PROVE  TrueScan(report', scan[r])
            BY <2>2 DEF Scans
        <3>1. scan[r].date # d /\ scan[r].date \in Date
            BY <1>0, <2>3 DEF Disturbs, Kinds
        <3> QED
            BY <2>3, <2>4, <3>1 DEF Calm, Scans, TrueScan
    <2> QED
        BY <2>2, <2>3, <2>5, <2>6 DEF Calm, OneSealer, AuditorOnCourse
<1>2. ASSUME NEW r \in Reader, ReadReport(r) \/ LookAgain(r) PROVE Calm'
    <2>1. /\ UNCHANGED <<diskVars, step, view, auditVars, calm>> /\ step[r] = "scanning"
          /\ \A q \in Reader : q # r => scan'[q] = scan[q]
        BY <1>0, <1>2 DEF ReadReport, LookAgain, FirstPass, historyVars, Kinds
    <2>2. TrueScan(report, scan[r]) => TrueScan(report, scan'[r]) /\ scan'[r].date = scan[r].date
        BY <1>2, TrueReading
    <2>3. calm = TRUE => Scans'
        BY <2>1, <2>2 DEF Calm, Scans, diskVars
    <2>4. calm = TRUE => AuditorOnCourse'
        BY <1>0, <2>1, <2>2 DEF Calm, Scans, AuditorOnCourse, diskVars, auditVars
    <2> QED
        BY <2>1, <2>3, <2>4, CalmKept DEF diskVars
<1>3. ASSUME NEW r \in Reader, Abort(r) PROVE Calm'
    <2>1. /\ UNCHANGED <<diskVars, calm>> /\ step'[r] = "idle"
          /\ \A q \in Reader : q # r =>
                 scan'[q] = scan[q] /\ step'[q] = step[q] /\ view'[q] = view[q]
          /\ r # Auditor => UNCHANGED auditVars
        BY <1>0, <1>3 DEF Abort, Leave, historyVars, Kinds, auditVars
    <2>2. calm = TRUE => Scans'
        BY <2>1 DEF Calm, Scans, diskVars
    <2>3. calm = TRUE => AuditorOnCourse'
        BY <1>0, <2>1 DEF Calm, AuditorOnCourse, diskVars, auditVars
    <2> QED
        BY <1>0, <2>1, <2>2, <2>3, CalmKept DEF diskVars
<1>4. ASSUME NEW s \in Sealer, NEW d \in Date, BeginSeal(s, d) PROVE Calm'
    <2>1. /\ UNCHANGED <<diskVars, auditVars>>
          /\ calm' = (calm /\ \A other \in Sealer : step[other] = "idle")
          /\ step'[s] = "scanning" /\ view'[s] = chain
          /\ scan'[s] = [NoScan EXCEPT !.date = d]
          /\ \A q \in Reader : q # s =>
                 scan'[q] = scan[q] /\ step'[q] = step[q] /\ view'[q] = view[q]
        BY <1>0, <1>4 DEF BeginSeal, Scanning, Kinds
    <2> SUFFICES ASSUME calm' = TRUE PROVE Calm'
        BY DEF Calm
    <2>2. calm = TRUE /\ \A other \in Sealer : step[other] = "idle"
        BY <1>0, <2>1
    <2>3. OneSealer'
        BY <1>0, <2>1, <2>2 DEF OneSealer, diskVars
    <2>4. Scans'
        <3>1. TrueScan(report, scan'[s])
            BY <2>1, TrueStart
        <3> QED
            BY <2>1, <2>2, <3>1 DEF Calm, Scans, diskVars
    <2>5. AuditorOnCourse'
        BY <1>0, <2>1, <2>2 DEF Calm, AuditorOnCourse, diskVars, auditVars
    <2> QED
        BY <2>1, <2>2, <2>3, <2>4, <2>5 DEF Calm, diskVars
<1>5. ASSUME NEW s \in Sealer, RefuseSeal(s) PROVE Calm'
    <2>1. /\ UNCHANGED <<diskVars, auditVars, calm>> /\ step'[s] = "idle"
          /\ \A q \in Reader : q # s =>
                 scan'[q] = scan[q] /\ step'[q] = step[q] /\ view'[q] = view[q]
        BY <1>0, <1>5 DEF RefuseSeal, Leave, historyVars, Kinds
    <2>2. calm = TRUE => Scans'
        BY <2>1 DEF Calm, Scans, diskVars
    <2>3. calm = TRUE => AuditorOnCourse'
        BY <1>0, <2>1 DEF Calm, AuditorOnCourse, diskVars, auditVars
    <2> QED
        BY <1>0, <2>1, <2>2, <2>3, CalmKept DEF diskVars
<1>6. ASSUME NEW s \in Sealer, AppendBlock(s) PROVE Calm'
    <2>1. /\ UNCHANGED <<report, auditVars, calm>> /\ step[s] = "scanning" /\ step'[s] = "idle"
          /\ \A q \in Reader : q # s =>
                 scan'[q] = scan[q] /\ step'[q] = step[q] /\ view'[q] = view[q]
          /\ Write(NewBlock(s), "ended") /\ Scanned(s)
        BY <1>0, <1>6 DEF AppendBlock, Leave, Scanned, FirstPass, Kinds
    <2> SUFFICES ASSUME calm = TRUE PROVE Calm'
        BY <2>1 DEF Calm
    <2>2. /\ tail = "ended" /\ InOrder(chain, report) /\ OneSealer /\ Scans
          /\ AuditorOnCourse
        BY DEF Calm
    <2>3. chain' = Append(chain, NewBlock(s)) /\ tail' = "ended"
        BY <2>1, <2>2 DEF Write
    <2>4. view[s] = chain /\ \A t \in Sealer : step'[t] = "idle"
        BY <1>0, <2>1, <2>2 DEF OneSealer
    <2>5. scan[s].leaves = Reports(report[scan[s].date])
        BY <1>0, <2>1, <2>2, TrueEnd DEF Scans
    <2>6. InOrder(chain', report')
        BY <1>a, <2>1, <2>2, <2>3, <2>4, <2>5, InOrderAppends DEF NewBlock
    <2>7. Scans'
        BY <2>1, <2>2 DEF Scans
    <2>8. AuditorOnCourse'
        <3> SUFFICES ASSUME step[Auditor] # "idle" PROVE AuditorOnCourse'
            BY <1>0, <2>1 DEF AuditorOnCourse
        <3>1. /\ IsSeq(view[Auditor]) /\ Len(view[Auditor]) <= Len(chain)
              /\ \A i \in 1 .. Len(view[Auditor]) : view[Auditor][i] = chain[i]
              /\ Len(view[Auditor]) \in Nat
            BY <2>2, SeqHasLength DEF AuditorOnCourse, Shortens
        <3>2. /\ Len(chain') = Len(chain) + 1
              /\ \A i \in 1 .. Len(chain) : chain'[i] = chain[i]
            BY <1>a, <2>3, AppendIsSeq
        <3>3. Shortens(chain', view[Auditor])
            BY <1>a, <3>1, <3>2 DEF Shortens
        <3> QED
            BY <1>0, <2>1, <2>2, <3>3 DEF AuditorOnCourse, auditVars
    <2> QED
        BY <2>3, <2>4, <2>6, <2>7, <2>8 DEF Calm, OneSealer
<1>7. ASSUME NEW s \in Sealer, NEW end \in {"torn", "bare"}, AppendCut(s, end) PROVE Calm'
    BY <1>7 DEF AppendCut, Calm
<1>8. ASSUME BeginVerify \/ CheckLink \/ CheckRoot \/ EndVerify,
             calm = TRUE => Scans' /\ AuditorOnCourse'
      PROVE  Calm'
    <2>1. /\ UNCHANGED <<diskVars, calm>>
          /\ \A s \in Sealer : step'[s] = step[s] /\ view'[s] = view[s]
        BY <1>0, <1>8
        DEF BeginVerify, CheckLink, CheckRoot, EndVerify, Leave, historyVars, Kinds
    <2> QED
        BY <1>8, <2>1, CalmKept DEF diskVars
<1>9. CASE BeginVerify
    <2>1. /\ UNCHANGED <<diskVars, scan>> /\ view'[Auditor] = chain /\ faults' = FALSE
          /\ step'[Auditor] # "scanning" /\ \A q \in Reader : q # Auditor => step'[q] = step[q]
        BY <1>0, <1>9 DEF BeginVerify, Kinds
    <2> QED
        BY <1>a, <1>8, <1>9, <2>1 DEF Calm, Scans, AuditorOnCourse, diskVars
<1>10. CASE CheckLink
    <2>1. /\ UNCHANGED <<diskVars, view, position>>
          /\ step[Auditor] = "block" /\ step'[Auditor] = "scanning"
          /\ faults' = (faults \/ ~LinksAt(view[Auditor], position))
          /\ scan'[Auditor] = [NoScan EXCEPT !.date = view[Auditor][position].date]
          /\ \A q \in Reader : q # Auditor => scan'[q] = scan[q] /\ step'[q] = step[q]
        BY <1>0, <1>10 DEF CheckLink, Scanning, Kinds
    <2>2. TrueScan(report, scan'[Auditor])
        <3>1. TrueScan(report, [NoScan EXCEPT !.date = view[Auditor][position].date])
            BY TrueStart
        <3> QED
            BY <2>1, <3>1
    <2>3. scan'[Auditor].date = view[Auditor][position].date
        BY <2>1 DEF NoScan
    <2>4. position \in 1 .. Len(view[Auditor]) /\ Len(view[Auditor]) \in Nat
        BY <1>0, <2>1, SeqHasLength DEF Placed, Chains, IsChain
    <2>5. ASSUME calm = TRUE PROVE LinksAt(view[Auditor], position)
        <3>1. Shortens(chain, view[Auditor]) /\ InOrder(chain, report)
            BY <2>1, <2>5 DEF Calm, AuditorOnCourse
        <3>2. position \in 1 .. Len(chain) /\ LinksAt(chain, position)
            BY <1>a, <2>4, <3>1 DEF Shortens, InOrder
        <3>3. position = 1 \/ position - 1 \in 1 .. Len(view[Auditor])
            BY <2>4
        <3> QED
            BY <2>4, <3>1, <3>2, <3>3 DEF Shortens, LinksAt
    <2>6. calm = TRUE => AuditorOnCourse'
        BY <2>1, <2>3, <2>5 DEF Calm, AuditorOnCourse, diskVars
    <2>7. calm = TRUE => Scans'
        BY <2>1, <2>2 DEF Calm, Scans, diskVars
    <2> QED
        BY <1>8, <1>10, <2>6, <2>7
<1>11. CASE CheckRoot
    <2>1. /\ UNCHANGED <<diskVars, view>> /\ Scanned(Auditor)
          /\ step[Auditor] = "scanning" /\ step'[Auditor] \in {"block", "done"}
          /\ faults' = (faults \/ (/\ scan[Auditor].leaves # {}
                                   /\ scan[Auditor].leaves # view[Auditor][position].root))
          /\ \A q \in Reader : q # Auditor => scan'[q] = scan[q] /\ step'[q] = step[q]
        BY <1>0, <1>11 DEF CheckRoot, Scanned, FirstPass, Kinds
    <2>2. position \in 1 .. Len(view[Auditor]) /\ Len(view[Auditor]) \in Nat
        BY <1>0, <2>1, SeqHasLength DEF Placed, Chains, IsChain
    <2>3. ASSUME calm = TRUE PROVE scan[Auditor].leaves = view[Auditor][position].root
        <3>1. /\ Shortens(chain, view[Auditor]) /\ InOrder(chain, report)
              /\ scan[Auditor].date = view[Auditor][position].date
              /\ TrueScan(report, scan[Auditor])
            BY <1>0, <2>1, <2>3 DEF Calm, AuditorOnCourse, Scans
        <3>2. position \in 1 .. Len(chain) /\ view[Auditor][position] = chain[position]
            BY <1>a, <2>2, <3>1 DEF Shortens
        <3> QED
            BY <1>0, <2>1, <3>1, <3>2, TrueEnd DEF InOrder
    <2>4. calm = TRUE => AuditorOnCourse'
        BY <2>1, <2>3 DEF Calm, AuditorOnCourse, diskVars
    <2>5. calm = TRUE => Scans'
        BY <2>1 DEF Calm, Scans, diskVars
    <2> QED
        BY <1>8, <1>11, <2>4, <2>5
<1>12. CASE EndVerify
    <2>1. /\ UNCHANGED diskVars /\ step'[Auditor] = "idle"
          /\ \A q \in Reader : q # Auditor => scan'[q] = scan[q] /\ step'[q] = step[q]
        BY <1>0, <1>12 DEF EndVerify, Leave, Kinds
    <2> QED
        BY <1>8, <1>12, <2>1 DEF Calm, Scans, AuditorOnCourse, diskVars
<1>13. CASE UNCHANGED vars
    BY <1>13 DEF vars, diskVars, auditVars, historyVars, Calm, OneSealer, Scans, AuditorOnCourse
<1> QED
    BY <1>1, <1>2, <1>3, <1>4, <1>5, <1>6, <1>7, <1>9, <1>10, <1>11, <1>12, <1>13 DEF Next

(***************************************************************************)
(* verify_chain raises no false alarm over a ledger whose seals did not    *)
(* overlap, none of them cut short, and whose sealed dates nobody          *)
(* collected again, even while a sealer is at work.                        *)
(***************************************************************************)
THEOREM NoAlarmIsFalse == Spec => []NoFalseAlarm
<1>1. Init => Calm
    <2> SUFFICES ASSUME Init PROVE Calm
        OBVIOUS
    <2>1. \A r \in Reader : step[r] = "idle"
        BY DEF Init
    <2>2. InOrder(chain, report)
        BY NoBlocks DEF Init, InOrder
    <2>3. tail = "ended"
        BY DEF Init
    <2> QED
        BY <2>1, <2>2, <2>3 DEF Calm, OneSealer, Scans, AuditorOnCourse, Reader
<1>2. ASSUME Types, Calm PROVE NoFalseAlarm
    BY <1>2 DEF NoFalseAlarm, Calm, AuditorOnCourse, Types, Kinds
<1> QED
    BY <1>1, <1>2, InitTypes, TypesStep, CalmStep, PTL DEF Spec
=============================================================================
