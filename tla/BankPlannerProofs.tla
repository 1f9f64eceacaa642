-------------------------- MODULE BankPlannerProofs --------------------------
(***************************************************************************)
(* For every geometry, every list of images and every list of assets:      *)
(* what the planner has placed stays whole, and it places each asset in    *)
(* the first bank with room.                                               *)
(***************************************************************************)
EXTENDS BankPlanner, TLAPS

-----------------------------------------------------------------------------
(***************************************************************************)
(* aligned_offset returns the least aligned offset.                        *)
(***************************************************************************)
\* A quotient and a remainder determine the remainder.
LEMMA RemainderUnique ==
  ASSUME NEW align \in Nat \ {0}, NEW q \in Nat, NEW r \in 0..(align - 1)
  PROVE  (align * q + r) % align = r
BY SMTT(30)

\* Every number has a quotient and a remainder.
LEMMA Division ==
  ASSUME NEW a \in Nat, NEW align \in Nat \ {0}
  PROVE  /\ a % align \in 0..(align - 1)
         /\ \E q \in Nat : a = align * q + (a % align)
<1>1. /\ a \div align \in Nat
      /\ a % align \in 0..(align - 1)
      /\ a = align * (a \div align) + (a % align)
  BY SMTT(30)
<1> QED BY <1>1

\* The padding leads to an aligned address.
LEMMA PaddedIsAligned ==
  ASSUME NEW a \in Nat, NEW align \in Nat \ {0}
  PROVE  /\ Padding(a, align) \in 0..(align - 1)
         /\ (a + Padding(a, align)) % align = 0
<1> DEFINE r == a % align
<1>1. PICK q \in Nat : a = align * q + r
  BY Division
<1>2. r \in 0..(align - 1)
  BY Division
<1>3. CASE r = 0
  BY <1>1, <1>3 DEF Padding
<1>4. CASE r # 0
  <2>1. Padding(a, align) = align - r
    BY <1>4 DEF Padding
  <2> HIDE DEF r
  <2>2. a + (align - r) = align * (q + 1) + 0
    BY <1>1, <1>2, SMTT(30)
  <2>3. (align * (q + 1) + 0) % align = 0
    BY RemainderUnique, q + 1 \in Nat, 0 \in 0..(align - 1)
  <2> QED BY <1>2, <1>4, <2>1, <2>2, <2>3
<1> QED BY <1>3, <1>4

\* No aligned address lies between an address and the padded one.
LEMMA PaddedIsLeast ==
  ASSUME NEW a \in Nat, NEW align \in Nat \ {0}, NEW b \in Nat, b >= a, b % align = 0
  PROVE  b >= a + Padding(a, align)
<1> DEFINE r == a % align
<1>1. PICK q \in Nat : a = align * q + r
  BY Division
<1>2. PICK p \in Nat : b = align * p
  <2>1. PICK p \in Nat : b = align * p + (b % align)
    BY Division
  <2>2. b = align * p
    BY <2>1, b % align = 0
  <2> QED BY <2>2
<1>3. r \in 0..(align - 1)
  BY Division
<1>4. CASE r = 0
  BY <1>4 DEF Padding
<1>5. CASE r # 0
  <2>1. Padding(a, align) = align - r
    BY <1>5 DEF Padding
  <2> HIDE DEF r
  <2>2. align * p > align * q
    BY <1>1, <1>2, <1>3, <1>5
  <2>3. p >= q + 1
    <3>1. SUFFICES ASSUME p <= q PROVE FALSE
      OBVIOUS
    <3>2. align * p <= align * q
      BY <3>1, SMTT(30)
    <3> QED BY <2>2, <3>2
  <2>4. align * p >= align * (q + 1)
    BY <2>3, SMTT(30)
  <2>5. align * (q + 1) = align * q + align
    BY SMTT(30)
  <2> QED BY <1>1, <1>2, <1>3, <2>1, <2>4, <2>5
<1> QED BY <1>4, <1>5

-----------------------------------------------------------------------------
(***************************************************************************)
(* The inductive invariant: a bank is used up to used[i], what it holds    *)
(* lies before that, and nothing is placed before the images are read.     *)
(***************************************************************************)
Placement == [size : Nat, align : Nat \ {0}, bank : Banks, offset : Nat]

PlanTypeOK ==
  /\ geometry \in Geometries
  /\ images \in Seq(Images)
  /\ placements \in Seq(Placement)
  /\ used \in [Banks -> 0..Capacity]
  /\ sealed \in [Banks -> BOOLEAN]
  /\ bytes \in [Banks -> [0..(Capacity - 1) -> Nat \X Nat]]
  /\ status \in {"geometry", "images"} => placements = <<>>

ImageKept(n) ==
  \E i \in BanksOf(images[n]) :
    /\ images[n].size <= used[i]
    /\ Holds(bytes[i], 0, images[n].size, Image)
    /\ sealed[i] = images[n].sealed

AssetKept(n) ==
  /\ AssetIntact(n)
  /\ placements[n].offset + placements[n].size <= used[placements[n].bank]
  /\ ~sealed[placements[n].bank]

PlanInv ==
  /\ PlanTypeOK
  /\ \A n \in DOMAIN images : ImageKept(n)
  /\ \A n \in DOMAIN placements : AssetKept(n)

\* The types of what the planner is given.
LEMMA GeometryTypes ==
  ASSUME PlanTypeOK
  PROVE  /\ Capacity \in Nat
         /\ geometry.window_address \in Nat
         /\ Len(geometry.bank_ids) \in Nat
BY PlannerAssumption DEF PlanTypeOK, Capacity

\* The offset at which an asset is placed: behind what the bank holds, and
\* the first one that is aligned.
LEMMA AlignedOffset ==
  ASSUME PlanTypeOK, NEW from \in Nat, NEW align \in Nat \ {0}
  PROVE  /\ aligned_offset(from, align) \in Nat
         /\ aligned_offset(from, align) >= from
         /\ (geometry.window_address + aligned_offset(from, align)) % align = 0
         /\ \A o \in Nat : o >= from /\ (geometry.window_address + o) % align = 0
                           => o >= aligned_offset(from, align)
<1> DEFINE window == geometry.window_address
<1>1. window \in Nat
  BY GeometryTypes
<1>2. /\ Padding(window + from, align) \in 0..(align - 1)
      /\ (window + from + Padding(window + from, align)) % align = 0
  BY <1>1, PaddedIsAligned, window + from \in Nat
<1>3. ASSUME NEW o \in Nat, o >= from, (window + o) % align = 0
      PROVE  window + o >= window + from + Padding(window + from, align)
  BY <1>1, <1>3, PaddedIsLeast, window + o \in Nat, window + from \in Nat,
     window + o >= window + from
<1>4. window + aligned_offset(from, align) = window + from + Padding(window + from, align)
  BY <1>1, <1>2 DEF aligned_offset
<1> HIDE DEF window
<1>5. aligned_offset(from, align) = from + Padding(window + from, align)
  BY DEF aligned_offset, window
<1> QED BY <1>1, <1>2, <1>3, <1>4, <1>5 DEF window

\* Initially nothing is held.
LEMMA PlanInit == Init => PlanInv
<1> SUFFICES ASSUME Init PROVE PlanInv
  OBVIOUS
<1>1. geometry \in Geometries /\ Capacity \in Nat
  BY PlannerAssumption DEF Init, Capacity
<1>2. Fill \in Nat \X Nat
  BY DEF Fill
<1>3. /\ images \in Seq(Images) /\ placements \in Seq(Placement)
      /\ DOMAIN images = {} /\ DOMAIN placements = {}
  BY DEF Init
<1>4. bytes \in [Banks -> [0..(Capacity - 1) -> Nat \X Nat]]
  BY <1>2 DEF Init
<1>5. used \in [Banks -> 0..Capacity] /\ sealed \in [Banks -> BOOLEAN]
  BY <1>1 DEF Init
<1> QED BY <1>1, <1>3, <1>4, <1>5 DEF Init, PlanInv, PlanTypeOK

\* A bank into which something was copied is still a bank,
LEMMA CopiedType ==
  ASSUME NEW capacity \in Nat, NEW bank \in [0..(capacity - 1) -> Nat \X Nat],
         NEW offset \in Nat, NEW size \in Nat, NEW source \in Nat
  PROVE  Copied(bank, offset, size, source) \in [0..(capacity - 1) -> Nat \X Nat]
<1>1. ASSUME NEW o \in 0..(capacity - 1)
      PROVE  (IF o \in offset..(offset + size - 1) THEN <<source, o - offset>> ELSE bank[o])
               \in Nat \X Nat
  OBVIOUS
<1> QED BY <1>1 DEF Copied

\* it holds what was copied,
LEMMA CopiedHolds ==
  ASSUME NEW bank, NEW offset \in Nat, NEW size \in Nat, NEW source,
         offset..(offset + size - 1) \subseteq DOMAIN bank
  PROVE  Holds(Copied(bank, offset, size, source), offset, size, source)
<1> SUFFICES ASSUME NEW k \in 0..(size - 1)
             PROVE  Copied(bank, offset, size, source)[offset + k] = <<source, k>>
  BY DEF Holds
<1>1. offset + k \in offset..(offset + size - 1) /\ (offset + k) - offset = k
  OBVIOUS
<1> QED BY <1>1 DEF Copied

\* and what it held before the place of the copy.
LEMMA CopiedKeeps ==
  ASSUME NEW bank, NEW offset \in Nat, NEW size \in Nat, NEW source,
         NEW before \in Nat, NEW length \in Nat, NEW held,
         Holds(bank, before, length, held), before + length <= offset,
         before..(before + length - 1) \subseteq DOMAIN bank
  PROVE  Holds(Copied(bank, offset, size, source), before, length, held)
<1> SUFFICES ASSUME NEW k \in 0..(length - 1)
             PROVE  Copied(bank, offset, size, source)[before + k] = <<held, k>>
  BY DEF Holds
<1>1. /\ before + k \in before..(before + length - 1)
      /\ before + k \notin offset..(offset + size - 1)
  OBVIOUS
<1>2. bank[before + k] = <<held, k>>
  BY DEF Holds
<1> QED BY <1>1, <1>2 DEF Copied

-----------------------------------------------------------------------------
\* An image is copied to the start of a bank, before any asset is placed.
LEMMA CopyImageKeeps ==
  ASSUME PlanInv, status = "images", NEW image \in Images, CopyImage(image)
  PROVE  PlanInv'
<1>1. PICK i \in BanksOf(image) :
        /\ bytes'  = [bytes EXCEPT ![i] = Copied(@, 0, image.size, Image)]
        /\ used'   = [used EXCEPT ![i] = image.size]
        /\ sealed' = [sealed EXCEPT ![i] = image.sealed]
  BY DEF CopyImage
<1>2. /\ image.size \in 0..Capacity /\ image.sealed \in BOOLEAN
      /\ i \in Banks /\ Capacity \in Nat /\ Image \in Nat
  BY PlannerAssumption, GeometryTypes DEF CopyImage, BanksOf, PlanInv, Image
<1>3. /\ UNCHANGED <<geometry, status, placements>> /\ placements = <<>>
      /\ Banks' = Banks /\ Capacity' = Capacity
      /\ images' = Append(images, image)
  BY DEF CopyImage, PlanInv, PlanTypeOK, Banks, Capacity
<1>4. /\ bytes'[i] = Copied(bytes[i], 0, image.size, Image)
      /\ used'[i] = image.size /\ sealed'[i] = image.sealed
      /\ \A j \in Banks : j # i => /\ bytes'[j] = bytes[j] /\ used'[j] = used[j]
                                   /\ sealed'[j] = sealed[j]
  BY <1>1, <1>2 DEF PlanInv, PlanTypeOK
<1>5. /\ bytes'[i] \in [0..(Capacity - 1) -> Nat \X Nat]
      /\ Holds(bytes'[i], 0, image.size, Image)
  <2>1. bytes[i] \in [0..(Capacity - 1) -> Nat \X Nat]
    BY <1>2 DEF PlanInv, PlanTypeOK
  <2>2. Copied(bytes[i], 0, image.size, Image) \in [0..(Capacity - 1) -> Nat \X Nat]
    BY <1>2, <2>1, CopiedType, 0 \in Nat, image.size \in Nat
  <2>3. image.size \in Nat /\ 0..(0 + image.size - 1) \subseteq DOMAIN bytes[i]
    BY <1>2, <2>1
  <2>4. Holds(bytes'[i], 0, image.size, Image)
    BY <1>4, <2>3, CopiedHolds
  <2> QED BY <1>4, <2>2, <2>4
<1>6. PlanTypeOK'
  <2>1. used' \in [Banks -> 0..Capacity] /\ sealed' \in [Banks -> BOOLEAN]
    BY <1>1, <1>2 DEF PlanInv, PlanTypeOK
  <2>2. bytes' \in [Banks -> [0..(Capacity - 1) -> Nat \X Nat]]
    BY <1>1, <1>2, <1>4, <1>5 DEF PlanInv, PlanTypeOK
  <2>3. images' \in Seq(Images)
    BY <1>3 DEF PlanInv, PlanTypeOK
  <2> QED BY <1>3, <2>1, <2>2, <2>3 DEF PlanInv, PlanTypeOK, Placement
<1>7. ASSUME NEW n \in DOMAIN images' PROVE ImageKept(n)'
  <2>1. CASE n = Len(images) + 1
    <3>1. images'[n] = image
      BY <1>3, <2>1 DEF PlanInv, PlanTypeOK
    <3>2. i \in BanksOf(images[n])'
      BY <1>3, <3>1 DEF BanksOf
    <3> QED BY <1>2, <1>4, <1>5, <3>1, <3>2 DEF ImageKept
  <2>2. CASE n \in DOMAIN images
    <3>1. images'[n] = images[n] /\ images[n] \in Images
      BY <1>3, <2>2 DEF PlanInv, PlanTypeOK
    <3>2. PICK j \in BanksOf(images[n]) :
            /\ images[n].size <= used[j]
            /\ Holds(bytes[j], 0, images[n].size, Image)
            /\ sealed[j] = images[n].sealed
      BY <2>2 DEF PlanInv, ImageKept
    <3>3. j \in Banks /\ j # i
      BY <1>1, <2>2, <3>2 DEF CopyImage, Duplicate, BanksOf
    <3>4. j \in BanksOf(images[n])'
      BY <1>3, <3>1, <3>2 DEF BanksOf
    <3> QED BY <1>4, <3>1, <3>2, <3>3, <3>4 DEF ImageKept
  <2> QED BY <1>3, <2>1, <2>2 DEF PlanInv, PlanTypeOK
<1> QED BY <1>3, <1>6, <1>7 DEF PlanInv

\* An asset is placed behind all that its bank holds.
LEMMA PlaceKeeps ==
  ASSUME PlanInv, status = "assets", NEW asset \in Candidates, asset.align # 0,
         NEW i \in Banks, StopsAt(i, asset), Place(asset, i)
  PROVE  PlanInv'
<1> DEFINE offset == Offset(i, asset)
           number == Len(placements) + 1
<1>1. /\ asset.size \in Nat /\ asset.align \in Nat \ {0} /\ Capacity \in Nat
      /\ geometry.window_address \in Nat /\ used[i] \in 0..Capacity
      /\ Len(placements) \in Nat
  BY PlannerAssumption, GeometryTypes DEF PlanInv, PlanTypeOK
<1>2. /\ offset \in Nat /\ offset >= used[i]
      /\ (geometry.window_address + offset) % asset.align = 0
  <2>1. used[i] \in Nat /\ PlanTypeOK
    BY <1>1 DEF PlanInv
  <2> QED BY <1>1, <2>1, AlignedOffset DEF Offset
<1>3. offset + asset.size <= Capacity /\ ~sealed[i]
  BY DEF StopsAt, Stops, Fits, Place
<1>4. /\ bytes' = [bytes EXCEPT ![i] = Copied(@, offset, asset.size, number + 1)]
      /\ used' = [used EXCEPT ![i] = offset + asset.size]
      /\ placements' = Append(placements, [size |-> asset.size, align |-> asset.align,
                                           bank |-> i, offset |-> offset])
      /\ UNCHANGED <<geometry, status, images, sealed>>
      /\ Banks' = Banks /\ Capacity' = Capacity
  BY DEF Place, Asset, Banks, Capacity
<1> HIDE DEF offset
<1>5. /\ bytes'[i] = Copied(bytes[i], offset, asset.size, number + 1)
      /\ used'[i] = offset + asset.size
      /\ \A j \in Banks : j # i => bytes'[j] = bytes[j] /\ used'[j] = used[j]
  BY <1>4 DEF PlanInv, PlanTypeOK
<1>6. /\ bytes'[i] \in [0..(Capacity - 1) -> Nat \X Nat]
      /\ Holds(bytes'[i], offset, asset.size, number + 1)
  <2>1. bytes[i] \in [0..(Capacity - 1) -> Nat \X Nat] /\ number + 1 \in Nat
    BY <1>1 DEF PlanInv, PlanTypeOK
  <2>2. offset..(offset + asset.size - 1) \subseteq DOMAIN bytes[i]
    BY <1>1, <1>2, <1>3, <2>1
  <2> HIDE DEF number
  <2>3. Copied(bytes[i], offset, asset.size, number + 1) \in [0..(Capacity - 1) -> Nat \X Nat]
    BY <1>1, <1>2, <2>1, CopiedType
  <2>4. Holds(bytes'[i], offset, asset.size, number + 1)
    BY <1>1, <1>2, <1>5, <2>2, CopiedHolds
  <2> QED BY <1>5, <2>3, <2>4
<1>7. PlanTypeOK'
  <2>1. used' \in [Banks -> 0..Capacity]
    BY <1>1, <1>2, <1>3, <1>4 DEF PlanInv, PlanTypeOK
  <2>2. bytes' \in [Banks -> [0..(Capacity - 1) -> Nat \X Nat]]
    BY <1>4, <1>5, <1>6 DEF PlanInv, PlanTypeOK
  <2>3. placements' \in Seq(Placement)
    <3>1. [size |-> asset.size, align |-> asset.align, bank |-> i, offset |-> offset] \in Placement
      BY <1>1, <1>2 DEF Placement
    <3> QED BY <1>4, <3>1 DEF PlanInv, PlanTypeOK
  <2>4. Placement' = Placement
    BY <1>4 DEF Placement
  <2> QED BY <1>4, <2>1, <2>2, <2>3, <2>4 DEF PlanInv, PlanTypeOK
\* What was held before is held after.
<1>8. ASSUME NEW j \in Banks, NEW start \in Nat, NEW size \in Nat, NEW source,
             Holds(bytes[j], start, size, source), start + size <= used[j]
      PROVE  Holds(bytes'[j], start, size, source) /\ start + size <= used'[j]
  <2>1. CASE j = i
    <3>1. start + size <= used'[i]
      BY <1>1, <1>2, <1>5, <1>8, <2>1
    <3>2. start + size <= offset /\ start..(start + size - 1) \subseteq DOMAIN bytes[i]
      BY <1>1, <1>2, <1>8, <2>1 DEF PlanInv, PlanTypeOK
    <3>3. Holds(Copied(bytes[i], offset, asset.size, number + 1), start, size, source)
      BY <1>1, <1>2, <1>8, <2>1, <3>2, CopiedKeeps
    <3> QED BY <1>5, <2>1, <3>1, <3>3
  <2>2. CASE j # i
    BY <1>5, <1>8, <2>2
  <2> QED BY <2>1, <2>2
<1>9. ASSUME NEW n \in DOMAIN images' PROVE ImageKept(n)'
  <2>1. images[n] \in Images /\ images'[n] = images[n]
    BY <1>4 DEF PlanInv, PlanTypeOK
  <2>2. images[n].size \in Nat
    BY <2>1, PlannerAssumption
  <2>3. PICK j \in BanksOf(images[n]) :
          /\ images[n].size <= used[j]
          /\ Holds(bytes[j], 0, images[n].size, Image)
          /\ sealed[j] = images[n].sealed
    BY <1>4 DEF PlanInv, ImageKept
  <2>4. j \in Banks /\ j \in BanksOf(images[n])'
    BY <1>4, <2>1, <2>3 DEF BanksOf
  <2>5. Holds(bytes'[j], 0, images[n].size, Image) /\ images[n].size <= used'[j]
    <3>1. 0 + images[n].size <= used[j] /\ 0 \in Nat
      BY <2>2, <2>3
    <3>2. Holds(bytes'[j], 0, images[n].size, Image) /\ 0 + images[n].size <= used'[j]
      BY <1>8, <2>2, <2>3, <2>4, <3>1
    <3> QED BY <2>2, <3>2
  <2> QED BY <1>4, <2>1, <2>3, <2>4, <2>5 DEF ImageKept
<1>10. ASSUME NEW n \in DOMAIN placements' PROVE AssetKept(n)'
  <2>1. CASE n = number
    <3>1. placements'[n] = [size |-> asset.size, align |-> asset.align, bank |-> i,
                            offset |-> offset]
      BY <1>4, <2>1 DEF PlanInv, PlanTypeOK
    <3>2. Holds(bytes'[i], offset, asset.size, Asset(n))
      BY <1>6, <2>1 DEF Asset
    <3>3. AssetIntact(n)'
      BY <1>2, <1>3, <1>4, <3>1, <3>2 DEF AssetIntact, Asset
    <3>4. offset + asset.size <= used'[i] /\ ~sealed'[i]
      BY <1>1, <1>2, <1>3, <1>4, <1>5
    <3> QED BY <3>1, <3>3, <3>4 DEF AssetKept
  <2>2. CASE n \in DOMAIN placements
    <3> DEFINE p == placements[n]
    <3>1. placements'[n] = p /\ p \in Placement
      BY <1>4, <2>2 DEF PlanInv, PlanTypeOK
    <3>2. /\ p.bank \in Banks /\ p.offset \in Nat /\ p.size \in Nat
      BY <3>1 DEF Placement
    <3>3. /\ Holds(bytes[p.bank], p.offset, p.size, Asset(n))
          /\ p.offset + p.size <= Capacity
          /\ (geometry.window_address + p.offset) % p.align = 0
          /\ p.offset + p.size <= used[p.bank] /\ ~sealed[p.bank]
      BY <2>2 DEF PlanInv, AssetKept, AssetIntact
    <3> HIDE DEF p
    <3>4. Holds(bytes'[p.bank], p.offset, p.size, Asset(n)) /\ p.offset + p.size <= used'[p.bank]
      BY <1>8, <3>2, <3>3
    <3> QED BY <1>4, <3>1, <3>3, <3>4 DEF AssetKept, AssetIntact, Asset
  <2> QED BY <1>4, <2>1, <2>2 DEF PlanInv, PlanTypeOK
<1> QED BY <1>7, <1>9, <1>10 DEF PlanInv

\* A step that copies nothing.
LEMMA OthersKeep ==
  ASSUME PlanInv, UNCHANGED <<geometry, images, bytes, used, sealed, placements>>,
         status' \in {"geometry", "images"} => status \in {"geometry", "images"}
  PROVE  PlanInv'
BY DEF PlanInv, PlanTypeOK, Placement, ImageKept, AssetKept, AssetIntact, Holds, BanksOf, Banks,
       Capacity

\* Every step keeps the invariant.
LEMMA PlanNext == PlanInv /\ [Next]_vars => PlanInv'
<1> SUFFICES ASSUME PlanInv, [Next]_vars PROVE PlanInv'
  OBVIOUS
<1>1. CASE ValidateGeometry
  BY <1>1, OthersKeep DEF ValidateGeometry
<1>2. CASE SupplyImage
  <2>1. PICK image \in Images : CopyImage(image) \/ RefuseImage(image)
    BY <1>2 DEF SupplyImage
  <2>2. CASE CopyImage(image)
    BY <1>2, <2>2, CopyImageKeeps DEF SupplyImage
  <2>3. CASE RefuseImage(image)
    BY <2>3, OthersKeep DEF RefuseImage, Fails
  <2> QED BY <2>1, <2>2, <2>3
<1>3. CASE ImagesDone
  BY <1>3, OthersKeep DEF ImagesDone
<1>4. CASE PlaceNext
  <2>1. PICK asset \in Candidates : PlaceAsset(asset)
    BY <1>4 DEF PlaceNext
  <2>2. CASE \E i \in Banks : asset.align # 0 /\ StopsAt(i, asset) /\ Place(asset, i)
    BY <1>4, <2>2, PlaceKeeps DEF PlaceNext
  <2>3. CASE \E error \in {"InvalidAlignment", "AssetTooLarge", "InvalidGeometry",
                           "CapacityExhausted"} : Refuse(asset, error)
    BY <2>3, OthersKeep DEF Refuse, Fails
  <2> QED BY <2>1, <2>2, <2>3 DEF PlaceAsset
<1>5. CASE AssetsDone
  BY <1>5, OthersKeep DEF AssetsDone
<1>6. CASE UNCHANGED vars
  BY <1>6, OthersKeep DEF vars
<1> QED BY <1>1, <1>2, <1>3, <1>4, <1>5, <1>6 DEF Next

\* The invariant is inductive, so every reachable state has it.
LEMMA PlanInvariant == Spec => []PlanInv
BY PlanInit, PlanNext, PTL DEF Spec

(***************************************************************************)
(* plan_asset_banks never overwrites an image or an asset, and aligns what *)
(* it places at the linked address.                                        *)
(***************************************************************************)
THEOREM PlacedBytesIntactCorrect == Spec => []PlacedBytesIntact
<1>1. PlanInv => PlacedBytesIntact
  <2> SUFFICES ASSUME PlanInv PROVE PlacedBytesIntact
    OBVIOUS
  <2>1. ASSUME NEW n \in DOMAIN images PROVE ImageIntact(n)
    <3>1. PICK i \in BanksOf(images[n]) :
            /\ images[n].size <= used[i]
            /\ Holds(bytes[i], 0, images[n].size, Image)
            /\ sealed[i] = images[n].sealed
      BY DEF PlanInv, ImageKept
    <3>2. images[n].size <= Capacity
      <4>1. images[n].size \in Nat /\ used[i] \in 0..Capacity /\ Capacity \in Nat
        BY PlannerAssumption, GeometryTypes DEF PlanInv, PlanTypeOK, BanksOf
      <4> QED BY <3>1, <4>1
    <3>3. ASSUME images[n].sealed, NEW p \in DOMAIN placements PROVE placements[p].bank # i
      BY <3>1, <3>3 DEF PlanInv, AssetKept
    <3> QED BY <3>1, <3>2, <3>3 DEF ImageIntact
  <2> QED BY <2>1 DEF PlacedBytesIntact, PlanInv, AssetKept
<1> QED BY <1>1, PlanInvariant, PTL

-----------------------------------------------------------------------------
(***************************************************************************)
(* First fit.                                                              *)
(***************************************************************************)
\* Room behind a later byte is room behind an earlier one.
LEMMA RoomShrinks ==
  ASSUME NEW before \in Nat, NEW after \in Nat, before <= after, NEW asset, HasRoom(after, asset)
  PROVE  HasRoom(before, asset)
BY DEF HasRoom

\* A bank that the loop does not stop at has no room.
LEMMA NoStopNoRoom ==
  ASSUME PlanInv, NEW asset \in Candidates, asset.align # 0, NEW from \in Nat,
         aligned_offset(from, asset.align) + asset.size > Capacity
  PROVE  ~HasRoom(from, asset)
<1>1. /\ asset.size \in Nat /\ asset.align \in Nat \ {0} /\ Capacity \in Nat
  BY PlannerAssumption, GeometryTypes DEF PlanInv
<1>2. SUFFICES ASSUME NEW o \in from..Capacity, o + asset.size <= Capacity,
                      (geometry.window_address + o) % asset.align = 0
               PROVE  FALSE
  BY DEF HasRoom
<1>3. o \in Nat /\ o >= from
  BY <1>1
<1>4. aligned_offset(from, asset.align) \in Nat /\ o >= aligned_offset(from, asset.align)
  BY <1>1, <1>2, <1>3, AlignedOffset DEF PlanInv
<1> QED BY <1>1, <1>2, <1>3, <1>4

\* A step that copies nothing and does not fail for want of space.
LEMMA OthersFirstFit ==
  ASSUME NoRoomPassedOver, UNCHANGED <<geometry, used, sealed, placements>>,
         status' \notin {"AssetTooLarge", "CapacityExhausted"} \/ UNCHANGED <<status, refused>>
  PROVE  NoRoomPassedOver'
BY DEF NoRoomPassedOver, HasRoom, Banks, Capacity

\* Placing an asset where the loop stops.
LEMMA PlaceFirstFit ==
  ASSUME PlanInv, PlanInv', NoRoomPassedOver, status = "assets",
         NEW asset \in Candidates, asset.align # 0,
         NEW i \in Banks, StopsAt(i, asset), Place(asset, i)
  PROVE  NoRoomPassedOver'
<1>1. /\ status' = "assets" /\ UNCHANGED <<geometry, sealed>>
      /\ Banks' = Banks /\ Capacity' = Capacity
      /\ placements' = Append(placements, [size |-> asset.size, align |-> asset.align,
                                           bank |-> i, offset |-> Offset(i, asset)])
  BY DEF Place, Banks, Capacity
<1>2. ASSUME NEW j \in Banks PROVE used[j] \in Nat /\ used'[j] \in Nat /\ used[j] <= used'[j]
  <2>1. used[j] \in Nat /\ used'[j] \in Nat
    BY <1>1, GeometryTypes DEF PlanInv, PlanTypeOK
  <2>2. CASE j = i
    <3>1. used'[i] = Offset(i, asset) + asset.size
      BY DEF Place, PlanInv, PlanTypeOK
    <3>2. asset.size \in Nat /\ asset.align \in Nat \ {0}
      BY PlannerAssumption
    <3>3. Offset(i, asset) \in Nat /\ Offset(i, asset) >= used[i]
      BY <2>1, <2>2, <3>2, AlignedOffset DEF Offset, PlanInv
    <3> QED BY <2>1, <2>2, <3>1, <3>2, <3>3
  <2>3. CASE j # i
    BY <2>1, <2>3 DEF Place, PlanInv, PlanTypeOK
  <2> QED BY <2>1, <2>2, <2>3
<1>3. ASSUME NEW n \in DOMAIN placements', NEW j \in Banks, j < placements'[n].bank,
             ~sealed[j]
      PROVE  ~HasRoom(used[j], placements'[n])
  <2>1. CASE n = Len(placements) + 1
    <3>1. /\ placements'[n].size = asset.size /\ placements'[n].align = asset.align
          /\ placements'[n].bank = i
      BY <1>1, <2>1 DEF PlanInv, PlanTypeOK
    <3>2. aligned_offset(used[j], asset.align) + asset.size > Capacity
      <4>1. ~Fits(j, asset)
        BY <1>3, <3>1 DEF StopsAt, Stops
      <4>2. used[j] \in Nat /\ asset.align \in Nat \ {0} /\ asset.size \in Nat /\ Capacity \in Nat
        BY <1>2, PlannerAssumption, GeometryTypes DEF PlanInv
      <4>3. aligned_offset(used[j], asset.align) \in Nat
        BY <4>2, AlignedOffset DEF PlanInv
      <4> QED BY <4>1, <4>2, <4>3 DEF Fits, Offset
    <3>3. ~HasRoom(used[j], asset)
      BY <1>2, <3>2, NoStopNoRoom
    <3> QED BY <3>1, <3>3 DEF HasRoom
  <2>2. CASE n \in DOMAIN placements
    <3>1. placements'[n] = placements[n]
      BY <1>1, <2>2 DEF PlanInv, PlanTypeOK
    <3> QED BY <1>3, <2>2, <3>1 DEF NoRoomPassedOver
  <2> QED BY <1>1, <2>1, <2>2 DEF PlanInv, PlanTypeOK
<1>4. ASSUME NEW n \in DOMAIN placements', NEW j \in Banks, j < placements'[n].bank
      PROVE  (sealed[j] \/ ~HasRoom(used[j], placements[n]))'
  <2>1. sealed[j] \/ ~HasRoom(used'[j], placements'[n])
    BY <1>2, <1>3, <1>4, RoomShrinks
  <2> QED BY <1>1, <2>1 DEF HasRoom
<1> QED BY <1>1, <1>4 DEF NoRoomPassedOver

\* Failing at an asset.
LEMMA RefuseFirstFit ==
  ASSUME PlanInv, NoRoomPassedOver, status = "assets",
         NEW asset \in Candidates, asset.align # 0, NEW error,
         Refuse(asset, error),
         \/ error = "InvalidGeometry"
         \/ error = "AssetTooLarge" /\ TooLarge(asset)
         \/ error = "CapacityExhausted" /\ \A i \in Banks : ~Stops(i, asset)
  PROVE  NoRoomPassedOver'
<1>1. /\ status' = error /\ UNCHANGED <<geometry, used, sealed, placements>>
      /\ refused'[1] = asset /\ Banks' = Banks /\ Capacity' = Capacity
  BY DEF Refuse, Fails, Banks, Capacity
<1>2. /\ asset.size \in Nat /\ asset.align \in Nat \ {0} /\ Capacity \in Nat
      /\ \A i \in Banks : used[i] \in Nat
  BY PlannerAssumption, GeometryTypes DEF PlanInv, PlanTypeOK
<1>3. ASSUME error = "AssetTooLarge" PROVE ~HasRoom(0, asset)
  BY <1>2, <1>3, NoStopNoRoom DEF TooLarge
<1>4. ASSUME error = "CapacityExhausted", NEW i \in Banks
      PROVE  sealed[i] \/ ~HasRoom(used[i], asset)
  <2>1. aligned_offset(used[i], asset.align) \in Nat
    BY <1>2, AlignedOffset DEF PlanInv
  <2>2. sealed[i] \/ aligned_offset(used[i], asset.align) + asset.size > Capacity
    BY <1>2, <1>4, <2>1 DEF Stops, Fits, Offset
  <2> QED BY <1>2, <2>2, NoStopNoRoom
<1> QED BY <1>1, <1>3, <1>4 DEF NoRoomPassedOver, HasRoom

\* Every step keeps first fit.
LEMMA FirstFitNext ==
  PlanInv /\ PlanInv' /\ NoRoomPassedOver /\ [Next]_vars => NoRoomPassedOver'
<1> SUFFICES ASSUME PlanInv, PlanInv', NoRoomPassedOver, [Next]_vars PROVE NoRoomPassedOver'
  OBVIOUS
<1>1. CASE ValidateGeometry \/ ImagesDone \/ AssetsDone
  BY <1>1, OthersFirstFit DEF ValidateGeometry, ImagesDone, AssetsDone
<1>2. CASE SupplyImage
  <2>1. PICK image \in Images : CopyImage(image) \/ RefuseImage(image)
    BY <1>2 DEF SupplyImage
  <2>2. CASE CopyImage(image)
    <3>1. status' = "images" /\ placements' = <<>>
      BY <1>2, <2>2 DEF SupplyImage, CopyImage, PlanInv, PlanTypeOK
    <3> QED BY <3>1 DEF NoRoomPassedOver
  <2>3. CASE RefuseImage(image)
    BY <2>3, OthersFirstFit DEF RefuseImage, Fails
  <2> QED BY <2>1, <2>2, <2>3
<1>3. CASE PlaceNext
  <2>1. PICK asset \in Candidates : PlaceAsset(asset)
    BY <1>3 DEF PlaceNext
  <2>2. status = "assets"
    BY <1>3 DEF PlaceNext
  <2>3. CASE asset.align = 0 /\ Refuse(asset, "InvalidAlignment")
    BY <2>3, OthersFirstFit DEF Refuse, Fails
  <2>4. CASE \E i \in Banks : asset.align # 0 /\ StopsAt(i, asset) /\ Place(asset, i)
    BY <2>2, <2>4, PlaceFirstFit
  <2>5. CASE /\ asset.align # 0
             /\ \/ Refuse(asset, "InvalidGeometry")
                \/ TooLarge(asset) /\ Refuse(asset, "AssetTooLarge")
                \/ (\A i \in Banks : ~Stops(i, asset)) /\ Refuse(asset, "CapacityExhausted")
    BY <2>2, <2>5, RefuseFirstFit
  <2> QED BY <2>1, <2>3, <2>4, <2>5 DEF PlaceAsset
<1>4. CASE UNCHANGED vars
  BY <1>4, OthersFirstFit DEF vars
<1> QED BY <1>1, <1>2, <1>3, <1>4 DEF Next

(***************************************************************************)
(* plan_asset_banks passes no bank over that has room for an asset, and    *)
(* fails for want of space only when there is none.                        *)
(***************************************************************************)
THEOREM NoRoomPassedOverCorrect == Spec => []NoRoomPassedOver
<1>1. Init => NoRoomPassedOver
  BY DEF Init, NoRoomPassedOver
<1> QED BY <1>1, PlanInvariant, FirstFitNext, PTL DEF Spec
=============================================================================
