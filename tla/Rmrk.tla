-------------------------------- MODULE Rmrk --------------------------------
(***************************************************************************)
(* The NFT collections the pallets mint into: pallet_rmrk_core over        *)
(* pallet_uniques, neither part of the repository. A collection belongs to *)
(* its issuer, who alone may mint into it; item ids are handed out in      *)
(* order and never reused, so an item is an index of its collection's      *)
(* sequence (NFT id i is index i + 1).                                     *)
(*                                                                         *)
(* Left out: the optional maximum of a collection, deposits, resources,    *)
(* nesting, changes of the issuer, and what the issuer of a collection     *)
(* does to it without going through the pallets (minting, thawing and      *)
(* moving items).                                                          *)
(***************************************************************************)
EXTENDS Traits, Sequences, FiniteSets

CONSTANTS
    MaxCollections,      \* bound: how many collections are ever created
    CollectionCreators,  \* the users who create collections of their own
    Burners              \* the users who burn items they own

VARIABLES
    nextCollectionId,   \* rmrk CollectionIndex
    issuer,             \* [CollectionId -> Account \cup {None}]
    items               \* [CollectionId -> Seq(Item)]

rmrkVars == <<nextCollectionId, issuer, items>>

CollectionId == 0 .. (MaxCollections - 1)

ASSUME RmrkAssumption ==
    /\ MaxCollections \in Nat \ {0}
    /\ CollectionCreators \subseteq Account
    /\ Burners \subseteq Account

RmrkTypeOK ==
    /\ nextCollectionId \in 0 .. MaxCollections
    /\ issuer \in [CollectionId -> Account \cup {None}]
    /\ items \in [CollectionId -> Seq(Item)]

RmrkInit ==
    /\ nextCollectionId = 0
    /\ issuer = [c \in CollectionId |-> None]
    /\ items = [c \in CollectionId |-> << >>]

\* owned_in_collection: the live items of collection c that belong to a.
OwnedInCollection(a, c) == {i \in DOMAIN items[c] : items[c][i].owner = a}

\* create_collection by `who`, who becomes the issuer.
CreateCollection(who) ==
    /\ nextCollectionId < MaxCollections
    /\ issuer' = [issuer EXCEPT ![nextCollectionId] = who]
    /\ nextCollectionId' = nextCollectionId + 1
    /\ UNCHANGED items

\* mint_nft signed by `who` succeeds n times in a row: NextNftId is a u32 that
\* is increased with a check.
CanMint(who, c, n) ==
    /\ issuer[c] = who
    /\ Len(items[c]) + n <= U32Max

\* burn_nft by the owner of item i. The freeze the pallets put on an item
\* forbids moving it, not burning it.
BurnNft(who, c, i) ==
    /\ i \in OwnedInCollection(who, c)
    /\ items' = [items EXCEPT ![c][i].owner = None]
    /\ UNCHANGED <<nextCollectionId, issuer>>
=============================================================================
