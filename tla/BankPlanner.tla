----------------------------- MODULE BankPlanner -----------------------------
(***************************************************************************)
(* plan_asset_banks of src/src/banking.rs: assets are packed, in the       *)
(* caller's order, into the first bank that has room behind what it        *)
(* already holds.  A bank may come with an image: a prefix that is kept,   *)
(* and after a sealed one nothing is added.                                *)
(*                                                                         *)
(* A byte is named by where it comes from.  The caller's images and assets *)
(* are taken one at a time, which covers every list of them.               *)
(***************************************************************************)
EXTENDS Naturals, Sequences

CONSTANTS
  Geometries,    \* [window_address, capacity, bank_ids]: what targets say
  Images,        \* [bank_id, size, sealed]: supplied bank images
  Candidates,    \* [size, align]: assets
  MaxImages,     \* bound on the number of images of one plan
  MaxCandidates, \* bound on the number of assets of one plan
  U64Max         \* the greatest address, and the greatest usize

ASSUME PlannerAssumption ==
  /\ U64Max \in Nat
  /\ Geometries \subseteq [window_address : 0..U64Max, capacity : 0..U64Max, bank_ids : Seq(Nat)]
  /\ Images \subseteq [bank_id : Nat, size : Nat, sealed : BOOLEAN]
  /\ Candidates \subseteq [size : Nat, align : 0..U64Max]

VARIABLES
  geometry,
  status,      \* "geometry", "images", "assets", "planned", or the error
  images,      \* the supplied images already copied
  bytes,       \* bytes[i] of the i-th bank
  used,        \* its first free byte
  sealed,
  placements,  \* of the assets placed so far
  refused      \* the asset at which planning failed, if it did

vars == <<geometry, status, images, bytes, used, sealed, placements, refused>>

-----------------------------------------------------------------------------
Banks    == 1..Len(geometry.bank_ids)
Capacity == geometry.capacity

\* The k-th byte of an image or of the n-th asset is <<source, k>>.
Fill     == <<0, 0>>
Image    == 1
Asset(n) == n + 1

\* A bank after copy_from_slice of all size bytes of source to offset.
Copied(bank, offset, size, source) ==
  [o \in DOMAIN bank |->
     IF o \in offset..(offset + size - 1) THEN <<source, o - offset>> ELSE bank[o]]

-----------------------------------------------------------------------------
(***************************************************************************)
(* validate_geometry                                                       *)
(***************************************************************************)
GeometryValid ==
  /\ Capacity > 0
  /\ geometry.bank_ids # <<>>
  /\ \A i, j \in Banks : i # j => geometry.bank_ids[i] # geometry.bank_ids[j]
  /\ geometry.window_address + (Capacity - 1) <= U64Max

Init ==
  /\ geometry \in Geometries
  /\ status = "geometry"
  /\ images = <<>> /\ placements = <<>> /\ refused = <<>>
  /\ bytes  = [i \in Banks |-> [o \in 0..(Capacity - 1) |-> Fill]]
  /\ used   = [i \in Banks |-> 0]
  /\ sealed = [i \in Banks |-> FALSE]

Fails(error) == status' = error /\ UNCHANGED <<geometry, images, bytes, used, sealed, placements>>

ValidateGeometry ==
  /\ status = "geometry"
  /\ status' = IF GeometryValid THEN "images" ELSE "InvalidGeometry"
  /\ UNCHANGED <<geometry, images, bytes, used, sealed, placements, refused>>

-----------------------------------------------------------------------------
(***************************************************************************)
(* The loop over supplied_images.                                          *)
(***************************************************************************)
Duplicate(image) == \E n \in DOMAIN images : images[n].bank_id = image.bank_id
BanksOf(image)   == {i \in Banks : geometry.bank_ids[i] = image.bank_id}

CopyImage(image) ==
  /\ ~Duplicate(image)
  /\ image.size <= Capacity
  /\ \E i \in BanksOf(image) :
       /\ bytes'  = [bytes EXCEPT ![i] = Copied(@, 0, image.size, Image)]
       /\ used'   = [used EXCEPT ![i] = image.size]
       /\ sealed' = [sealed EXCEPT ![i] = image.sealed]
  /\ images' = Append(images, image)
  /\ UNCHANGED <<geometry, status, placements, refused>>

RefuseImage(image) ==
  /\ \/ Duplicate(image) /\ Fails("DuplicateBankImage")
     \/ ~Duplicate(image) /\ BanksOf(image) = {} /\ Fails("UnknownBankImage")
     \/ /\ ~Duplicate(image) /\ BanksOf(image) # {} /\ image.size > Capacity
        /\ Fails("BankImageTooLarge")
  /\ UNCHANGED refused

SupplyImage ==
  /\ status = "images"
  /\ Len(images) < MaxImages
  /\ \E image \in Images : CopyImage(image) \/ RefuseImage(image)

ImagesDone ==
  /\ status = "images"
  /\ status' = "assets"
  /\ UNCHANGED <<geometry, images, bytes, used, sealed, placements, refused>>

-----------------------------------------------------------------------------
(***************************************************************************)
(* aligned_offset: the first offset from `from` on whose linked address is *)
(* aligned.                                                                *)
(***************************************************************************)
Padding(address, align) ==
  IF address % align = 0 THEN 0 ELSE align - (address % align)

\* Mutant: the offset is aligned, not the address it is linked at.
aligned_offset_in_bank(from, align) == from + Padding(from, align)

aligned_offset(from, align) == from + Padding(geometry.window_address + from, align)

Overflows(from, align) ==
  \/ geometry.window_address + from > U64Max
  \/ aligned_offset(from, align) > U64Max

TooLarge(asset) == aligned_offset(0, asset.align) + asset.size > Capacity

-----------------------------------------------------------------------------
(***************************************************************************)
(* The loop over the candidates, and for each the loop over the banks,     *)
(* which an overflow ends as a fitting bank does.                          *)
(***************************************************************************)
Offset(i, asset) == aligned_offset(used[i], asset.align)
Fits(i, asset)   == Offset(i, asset) + asset.size <= Capacity

\* Mutant: the last byte of a bank is never used.
StopsShort(i, asset) ==
  ~sealed[i] /\ (Overflows(used[i], asset.align) \/ Offset(i, asset) + asset.size < Capacity)

Stops(i, asset) == ~sealed[i] /\ (Overflows(used[i], asset.align) \/ Fits(i, asset))

StopsAt(i, asset) == Stops(i, asset) /\ \A j \in Banks : j < i => ~Stops(j, asset)

Place(asset, i) ==
  /\ ~Overflows(used[i], asset.align)
  /\ geometry.window_address + Offset(i, asset) <= U64Max
  /\ bytes' = [bytes EXCEPT
                 ![i] = Copied(@, Offset(i, asset), asset.size, Asset(Len(placements) + 1))]
  /\ used' = [used EXCEPT ![i] = Offset(i, asset) + asset.size]
  /\ placements' = Append(placements, [size |-> asset.size, align |-> asset.align, bank |-> i,
                                       offset |-> Offset(i, asset)])
  /\ UNCHANGED <<geometry, status, images, sealed, refused>>

Refuse(asset, error) == Fails(error) /\ refused' = <<asset>>

PlaceAsset(asset) ==
  \/ asset.align = 0 /\ Refuse(asset, "InvalidAlignment")
  \/ /\ asset.align # 0
     /\ \/ TooLarge(asset) /\ Refuse(asset, "AssetTooLarge")
        \/ /\ ~TooLarge(asset)
           /\ \/ \E i \in Banks : StopsAt(i, asset) /\ Place(asset, i)
              \/ /\ \E i \in Banks : /\ StopsAt(i, asset)
                                     /\ \/ Overflows(used[i], asset.align)
                                        \/ geometry.window_address + Offset(i, asset) > U64Max
                 /\ Refuse(asset, "InvalidGeometry")
              \/ /\ \A i \in Banks : ~Stops(i, asset)
                 /\ Refuse(asset, "CapacityExhausted")

PlaceNext ==
  /\ status = "assets"
  /\ Len(placements) < MaxCandidates
  /\ \E asset \in Candidates : PlaceAsset(asset)

AssetsDone ==
  /\ status = "assets"
  /\ status' = "planned"
  /\ UNCHANGED <<geometry, images, bytes, used, sealed, placements, refused>>

Next == ValidateGeometry \/ SupplyImage \/ ImagesDone \/ PlaceNext \/ AssetsDone

Spec == Init /\ [][Next]_vars

-----------------------------------------------------------------------------
Holds(bank, offset, size, source) ==
  \A k \in 0..(size - 1) : bank[offset + k] = <<source, k>>

(***************************************************************************)
(* Whatever is added, each image is still at the start of its bank, each   *)
(* asset is still whole at the place that was returned for it, and its     *)
(* address in the window, not its offset, has the alignment.               *)
(***************************************************************************)
ImageIntact(n) ==
  \E i \in BanksOf(images[n]) :
    /\ images[n].size <= Capacity
    /\ Holds(bytes[i], 0, images[n].size, Image)
    /\ images[n].sealed => \A p \in DOMAIN placements : placements[p].bank # i

AssetIntact(n) ==
  LET p == placements[n]
  IN  /\ p.offset + p.size <= Capacity
      /\ Holds(bytes[p.bank], p.offset, p.size, Asset(n))
      /\ (geometry.window_address + p.offset) % p.align = 0

PlacedBytesIntact ==
  /\ \A n \in DOMAIN images : ImageIntact(n)
  /\ \A n \in DOMAIN placements : AssetIntact(n)

(***************************************************************************)
(* First fit: no bank with room for an asset is passed over, neither when  *)
(* the asset is placed in a later bank nor when planning fails for want of *)
(* space.  Room is any aligned stretch behind what the bank holds.         *)
(***************************************************************************)
HasRoom(start, asset) ==
  \E o \in start..Capacity : /\ (geometry.window_address + o) % asset.align = 0
                             /\ o + asset.size <= Capacity

NoRoomPassedOver ==
  /\ \A n \in DOMAIN placements : \A i \in Banks :
       i < placements[n].bank => sealed[i] \/ ~HasRoom(used[i], placements[n])
  /\ status = "CapacityExhausted" =>
       \A i \in Banks : sealed[i] \/ ~HasRoom(used[i], refused[1])
  /\ status = "AssetTooLarge" => ~HasRoom(0, refused[1])
=============================================================================
