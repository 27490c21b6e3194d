------------------------------- MODULE Checks -------------------------------
(***************************************************************************)
(* What `island-init check` asks of an island.yaml beyond its schema       *)
(* (island_init/checks.py): no physical cell identity twice, no address    *)
(* both a subscriber's and a service's, nothing of the lab in production,  *)
(* a signature that verifies, and a WireGuard key on disk that is the      *)
(* declared one. A check is passed when it reports no issue.               *)
(*                                                                         *)
(* A document is [shape, id, body, sk, wg, sig]. Its body has the fields   *)
(* that a check reads. A number names a generation of keys: sk stands for  *)
(* signing_public_key and its fingerprint, wg for the WireGuard key, and   *)
(* the private halves on disk bear the same number.                        *)
(***************************************************************************)
EXTENDS Integers, Sequences

CONSTANTS
    NoKey,      \* a null key
    NoSig,      \* no signature, or null
    NoFile,     \* nothing on disk
    NoPci       \* a cell that has no PCI yet

-----------------------------------------------------------------------------
(* PCIs: sites is a sequence of sequences of cells.                         *)

Cells(sites) == UNION {{<<s, c>> : c \in DOMAIN sites[s]} : s \in DOMAIN sites}

Pci(sites, cell) == sites[cell[1]][cell[2]]

\* Mutant of Earlier: `seen` starts anew with every site.
EarlierInSite(a, b) == a[1] = b[1] /\ a[2] < b[2]

Earlier(a, b) == a[1] < b[1] \/ (a[1] = b[1] /\ a[2] < b[2])

\* check_pci_uniqueness: `seen` holds the PCIs of the cells before this one.
PciIssues(sites) ==
    {b \in Cells(sites) :
        /\ Pci(sites, b) # NoPci
        /\ \E a \in Cells(sites) : Earlier(a, b) /\ Pci(sites, a) = Pci(sites, b)}

\* What it is for: an island's cells can be told apart.
CellsDistinct(sites) ==
    \A a, b \in Cells(sites) :
        Pci(sites, a) = Pci(sites, b) => a = b \/ Pci(sites, a) = NoPci

-----------------------------------------------------------------------------
(* Prefixes: an address and how many addresses share its network part.      *)

\* ip_network(strict=False) clears the host bits.
FirstOf(prefix) == prefix.address - (prefix.address % prefix.size)

LastOf(prefix) == FirstOf(prefix) + prefix.size - 1

Holds(prefix, address) == FirstOf(prefix) <= address /\ address <= LastOf(prefix)

\* Python's IPv4Network.overlaps.
Overlaps(p, q) ==
    \/ Holds(p, FirstOf(q)) \/ Holds(p, LastOf(q))
    \/ Holds(q, FirstOf(p)) \/ Holds(q, LastOf(p))

\* What it is for: no address belongs to both.
ShareAddress(p, q) == \E a \in FirstOf(p)..LastOf(p) : Holds(q, a)

-----------------------------------------------------------------------------
(* The whole document.                                                      *)

\* check_production_profile; the signature it asks for is asked for here too.
ProductionPasses(d) ==
    d.body.profile = "production" =>
        /\ ~(d.body.mcc = "001" /\ d.body.mnc = "01")
        /\ d.body.imsiPrefix # "00101"
        /\ d.sk # NoKey /\ d.wg # NoKey
        /\ d.body.association \notin {"", "[local association name]"}
        /\ d.body.contact # ""
        /\ d.sig # NoSig

\* What the rules are for.
Sound(d) ==
    /\ CellsDistinct(d.body.sites)
    /\ ~ShareAddress(d.body.ue, d.body.services)

\* canonical_payload: everything but the signature.
Payload(d) == [d EXCEPT !.sig = NoSig]

SignDocument(d, key) == [d EXCEPT !.sig = [by |-> key, over |-> Payload(d)]]

\* verify_document: the declared key made the signature, over this content.
Verifies(d) == d.sk # NoKey /\ d.sig = [by |-> d.sk, over |-> Payload(d)]

\* What the rules say of a document's content, signed or not. Its prefixes read
\* as networks: of one that does not, checks.py:73-74 leaves the complaint to
\* the schema.
ContentPasses(d) ==
    /\ PciIssues(d.body.sites) = {}
    /\ ~Overlaps(d.body.ue, d.body.services)

\* validate_schema and run_semantic_checks: the console's and apply's
\* `validate`, and _issues_for without a secrets directory.
Validates(d) ==
    /\ d.shape = "whole"
    /\ ContentPasses(d)
    /\ ProductionPasses(d)
    /\ d.sig # NoSig => Verifies(d)

\* check_wireguard_key_matches; keyFile is the content of wireguard.key.
WireguardMatches(d, keyFile) ==
    d.wg = NoKey \/ keyFile = NoFile \/ keyFile = d.wg
=============================================================================
