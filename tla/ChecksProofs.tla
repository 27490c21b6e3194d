---------------------------- MODULE ChecksProofs ----------------------------
(***************************************************************************)
(* The two rules of checks.py that compare parts of a document find what   *)
(* they are for, in documents of any size, and signing changes nothing     *)
(* that a rule or a signature depends on.                                  *)
(***************************************************************************)
EXTENDS Checks, TLAPS

Prefixes == [address : Nat, size : Nat \ {0}]

LEMMA FirstIsInteger ==
    ASSUME NEW p \in Prefixes
    PROVE  FirstOf(p) \in Int /\ p.size \in Nat \ {0}
<1>1. p.address \in Nat /\ p.size \in Nat \ {0}
    BY DEF Prefixes
<1>2. p.address % p.size \in Int
    BY <1>1
<1>3. QED BY <1>1, <1>2 DEF FirstOf

\* Comparing the ends of two prefixes, as Python's overlaps does, finds every
\* address they share.
THEOREM OverlapsIsSharing ==
    ASSUME NEW p \in Prefixes, NEW q \in Prefixes
    PROVE  Overlaps(p, q) <=> ShareAddress(p, q)
<1> DEFINE F(r) == FirstOf(r)
           L(r) == LastOf(r)
<1>1. /\ F(p) \in Int /\ L(p) \in Int /\ F(p) <= L(p)
      /\ F(q) \in Int /\ L(q) \in Int /\ F(q) <= L(q)
    <2>1. ASSUME NEW r \in Prefixes PROVE F(r) \in Int /\ L(r) \in Int /\ F(r) <= L(r)
        <3>1. FirstOf(r) \in Int /\ r.size \in Nat \ {0}
            BY FirstIsInteger
        <3>2. QED BY <3>1 DEF LastOf
    <2>2. QED BY <2>1
<1>2. Overlaps(p, q) <=> \/ F(p) <= F(q) /\ F(q) <= L(p)
                         \/ F(p) <= L(q) /\ L(q) <= L(p)
                         \/ F(q) <= F(p) /\ F(p) <= L(q)
                         \/ F(q) <= L(p) /\ L(p) <= L(q)
    BY DEF Overlaps, Holds
<1>3. ShareAddress(p, q) <=> \E a \in F(p)..L(p) : F(q) <= a /\ a <= L(q)
    BY DEF ShareAddress, Holds
<1> HIDE DEF F, L
<1>4. ASSUME Overlaps(p, q) PROVE ShareAddress(p, q)
    <2>1. CASE F(p) <= F(q)
        <3>1. F(q) \in F(p)..L(p)
            BY <1>1, <1>2, <1>4, <2>1
        <3>2. QED BY <1>1, <1>3, <3>1
    <2>2. CASE F(q) < F(p)
        <3>1. F(p) \in F(p)..L(p) /\ F(q) <= F(p) /\ F(p) <= L(q)
            BY <1>1, <1>2, <1>4, <2>2
        <3>2. QED BY <1>3, <3>1
    <2>3. QED BY <1>1, <2>1, <2>2
<1>5. ASSUME ShareAddress(p, q) PROVE Overlaps(p, q)
    <2>1. PICK a \in F(p)..L(p) : F(q) <= a /\ a <= L(q)
        BY <1>3, <1>5
    <2>2. QED BY <1>1, <1>2, <2>1
<1>6. QED BY <1>4, <1>5

\* One pass that remembers the PCIs before a cell finds every reuse, of cells
\* of one site or of different sites.
THEOREM NoIssueMeansDistinct ==
    ASSUME NEW sites \in Seq(Seq(Nat \cup {NoPci}))
    PROVE  PciIssues(sites) = {} <=> CellsDistinct(sites)
<1>1. ASSUME NEW a \in Cells(sites)
      PROVE  a = <<a[1], a[2]>> /\ a[1] \in Nat /\ a[2] \in Nat
    <2>1. PICK s \in DOMAIN sites : a \in {<<s, c>> : c \in DOMAIN sites[s]}
        BY <1>1 DEF Cells
    <2>2. PICK c \in DOMAIN sites[s] : a = <<s, c>>
        BY <2>1
    <2>3. s \in 1..Len(sites) /\ sites[s] \in Seq(Nat \cup {NoPci})
        BY <2>1
    <2>4. c \in 1..Len(sites[s])
        BY <2>2, <2>3
    <2>5. QED BY <2>2, <2>3, <2>4
<1>2. ASSUME NEW a \in Cells(sites), NEW b \in Cells(sites), a # b
      PROVE  Earlier(a, b) \/ Earlier(b, a)
    <2>1. a[1] # b[1] \/ a[2] # b[2]
        BY <1>1, <1>2
    <2>2. QED BY <1>1, <2>1 DEF Earlier
<1>3. ASSUME NEW a \in Cells(sites), NEW b \in Cells(sites), Earlier(a, b)
      PROVE  a # b
    BY <1>1, <1>3 DEF Earlier
<1>4. ASSUME PciIssues(sites) = {}, NEW a \in Cells(sites), NEW b \in Cells(sites),
             Pci(sites, a) = Pci(sites, b), a # b
      PROVE  Pci(sites, a) = NoPci
    BY <1>2, <1>4 DEF PciIssues
<1>5. ASSUME CellsDistinct(sites), NEW b \in PciIssues(sites) PROVE FALSE
    BY <1>3, <1>5 DEF PciIssues, CellsDistinct
<1>6. QED BY <1>4, <1>5 DEF CellsDistinct

\* So content that passes the rules is sound.
THEOREM PassingIsSound ==
    ASSUME NEW d,
           d.body.sites \in Seq(Seq(Nat \cup {NoPci})),
           d.body.ue \in Prefixes, d.body.services \in Prefixes,
           ContentPasses(d)
    PROVE  Sound(d)
BY NoIssueMeansDistinct, OverlapsIsSharing DEF ContentPasses, Sound
=============================================================================
