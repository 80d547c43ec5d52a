--------------------------- MODULE ImageResources ---------------------------
(***************************************************************************)
(* resource_cache.rs: the way of an image from the updates of a client to  *)
(* the texture cache entries that frames draw.  A raw image is stored, and *)
(* uploaded where it is dirty.  A blob image is rasterized, where it is    *)
(* dirty, on its way through the scene builder; what arrives waits in a    *)
(* queue until a frame draws the image, and a frame that needs an image    *)
(* with nothing in its queue has it rasterized at once.                    *)
(*                                                                         *)
(* One image, without tiles, of a size that does not change; its           *)
(* transactions are of one priority and of documents that stay.            *)
(***************************************************************************)
EXTENDS Integers, Sequences, FiniteSets

CONSTANTS
  Width,          \* the image is a row of this many pixels: a rect is an interval
  Renderings, AutoRendering,   \* ImageRendering: each has a cache entry of its own
  QueueLimit,     \* the queue length above which the whole image is rasterized
  MaxUpdates,     \* BOUND on the updates of the image
  MaxClears,      \* BOUND on the times that textures are dropped
  MaxFailures,    \* BOUND on the rasterizations that fail
  MaxInFlight     \* BOUND on the transactions in the scene builder

ASSUME ImageAssumption ==
  /\ QueueLimit \in Nat \ {0}
  /\ {Width, MaxUpdates, MaxClears, MaxFailures, MaxInFlight} \subseteq Nat
  /\ IsFiniteSet(Renderings) /\ AutoRendering \in Renderings

Pixels == 1..Width

(* DirtyRect: All is the same as the whole image.                          *)
Rects == {r \in SUBSET Pixels : \A a, b \in r : a..b \subseteq r}

(* Contents, by the number of the update that last changed each pixel;     *)
(* Garbage is where the data of some other place was put.                  *)
Garbage == -1
Contents == [Pixels -> Nat]
Texture == [Pixels -> Nat \cup {Garbage}]

Nothing == <<>>
Unallocated == <<>>

(* CachedImageInfo: its handle stands for the texture cache entry.         *)
NoEntry == [present |-> FALSE, handle |-> Unallocated, dirty_rect |-> {}]
NewEntry == [present |-> TRUE, handle |-> Unallocated, dirty_rect |-> Pixels]

(* What was rasterized; n is its place in the queue.                       *)
RasterizedBlobImage == [rect : Rects, content : Contents, n : Nat]

VARIABLES
  kind,          \* "none", "raw" or "blob"
  deleted,       \* whether the client has deleted the image
  sent,          \* what the client has made of the image: the blob handler's commands
  transactions,  \* on their way through the scene builder
  image_template,     \* Nothing, or what the transactions that arrived make of the image
  rasterizer,    \* Nothing, or the commands that blob_image_rasterizer draws
  rasterized,    \* whether rasterized_blob_images has a queue for the image ...
  queue, arrived,     \* ... the queue, and the place of its next item
  cached_images, \* [Renderings -> CachedImageInfo]
  state,         \* of ResourceCache: Idle between the frames
  pending_image_requests, missing_blob_images,
  requested,     \* history: the renderings that the frame will read
  updates, clears,
  torn,          \* history: textures were dropped with a partial rasterization on its way
  failures       \* rasterizations that failed so far

clientVars == <<kind, deleted, sent, transactions, updates>>
blobVars == <<rasterizer, rasterized, queue, arrived>>
frameVars == <<state, pending_image_requests, missing_blob_images, requested>>
vars == <<clientVars, image_template, blobVars, cached_images, frameVars, clears, torn, failures>>

Init ==
  /\ kind = "none" /\ deleted = FALSE /\ sent = [p \in Pixels |-> 0]
  /\ transactions = <<>> /\ updates = 0
  /\ image_template = Nothing
  /\ rasterizer = Nothing /\ rasterized = FALSE /\ queue = {} /\ arrived = 0
  /\ cached_images = [r \in Renderings |-> NoEntry]
  /\ state = "Idle" /\ pending_image_requests = {} /\ missing_blob_images = FALSE
  /\ requested = {}
  /\ clears = 0 /\ torn = FALSE /\ failures = 0

-----------------------------------------------------------------------------
(* Transactions, before the scene builder.                                 *)

Present(r) == cached_images[r].present
NeedsUpload(r) == cached_images[r].handle = Unallocated

(* create_blob_scene_builder_requests rasterizes the dirty part only if    *)
(* the texture cache has the rest, and the queue does not grow: images     *)
(* with entries for several renderings are always drawn as a whole.        *)
RequestRectOfEvicted(dirty) == IF Cardinality(queue) > QueueLimit THEN Pixels ELSE dirty

RequestRect(dirty) ==
  IF \/ NeedsUpload(AutoRendering) \/ \E r \in Renderings \ {AutoRendering} : Present(r)
     \/ Cardinality(queue) > QueueLimit
  THEN Pixels ELSE dirty

Send(op, dirty, request) ==
  /\ state = "Idle" /\ Len(transactions) < MaxInFlight
  /\ transactions' = Append(transactions,
       [op |-> op, dirty |-> dirty, request |-> request, content |-> sent'])
  /\ UNCHANGED <<image_template, blobVars, cached_images, frameVars, clears, torn, failures>>

(* AddImage and AddBlobImage.                                              *)
Add(k) ==
  /\ kind = "none" /\ kind' = k
  /\ UNCHANGED <<deleted, sent, updates>>
  /\ Send("add", Pixels, Pixels)

(* UpdateImage and UpdateBlobImage, with a rect around what changed; with  *)
(* an empty one this is also SetBlobImageVisibleArea.                      *)
Update(dirty) ==
  /\ kind # "none" /\ ~deleted
  /\ updates < MaxUpdates /\ updates' = updates + 1
  /\ sent' = [p \in Pixels |-> IF p \in dirty THEN updates' ELSE sent[p]]
  /\ UNCHANGED <<kind, deleted>>
  /\ Send("update", dirty, RequestRect(dirty))

Delete ==
  /\ kind # "none" /\ ~deleted /\ deleted' = TRUE
  /\ UNCHANGED <<kind, sent, updates>>
  /\ Send("delete", {}, {})

-----------------------------------------------------------------------------
(* Transactions, after the scene builder, which has drawn the blob with a  *)
(* rasterizer of the time when the transaction was sent.                   *)

(* add_rasterized_blob_images, of one that is not tiled: it replaces what  *)
(* it covers.                                                              *)
KeptAll(rect) == queue

Kept(rect) == {i \in queue : ~(i.rect \subseteq rect)}

AddRasterized(rect, content) ==
  /\ rasterized' = TRUE
  /\ LET n == IF Kept(rect) = {} THEN 0 ELSE arrived
     IN /\ queue' = Kept(rect) \cup {[rect |-> rect, content |-> content, n |-> n]}
        /\ arrived' = n + 1

NothingRasterized == UNCHANGED <<rasterized, queue, arrived>>

(* The blob handler may fail, for lack of memory say.                      *)
RasterizationFails == NothingRasterized /\ failures < MaxFailures /\ failures' = failures + 1

Take(op) ==
  /\ state = "Idle"
  /\ transactions # <<>> /\ Head(transactions).op = op
  /\ transactions' = Tail(transactions)
  /\ UNCHANGED <<kind, deleted, sent, updates, frameVars, clears, torn>>

(* add_rasterized_blob_images and set_blob_rasterizer.                     *)
TakeBlob(t) ==
  \/ /\ kind = "blob" /\ rasterizer' = t.content
     /\ \/ AddRasterized(t.request, t.content) /\ UNCHANGED failures
        \/ RasterizationFails
  \/ kind = "raw" /\ UNCHANGED <<blobVars, failures>>

(* Entries of an image that changed are dirty where it changed, or, a      *)
(* union of rects being a rect, where it lies between the changes.         *)
Hull(r, s) == {p \in Pixels : \E a, b \in r \cup s : a <= p /\ p <= b}

(* post_scene_building_update.                                             *)
TakeAdd ==
  /\ Take("add")
  /\ TakeBlob(Head(transactions))
  /\ image_template' = Head(transactions).content
  /\ UNCHANGED cached_images

TakeUpdate ==
  /\ Take("update")
  /\ TakeBlob(Head(transactions))
  /\ image_template' = Head(transactions).content
  /\ cached_images' = [r \in Renderings |->
       IF Present(r) THEN [cached_images[r] EXCEPT !.dirty_rect = Hull(@, Head(transactions).dirty)]
                     ELSE NoEntry]

TakeDelete ==
  /\ Take("delete")
  /\ image_template' = Nothing
  /\ cached_images' = [r \in Renderings |-> NoEntry]
  /\ rasterized' = FALSE /\ queue' = {} /\ arrived' = 0
  /\ UNCHANGED <<rasterizer, failures>>

-----------------------------------------------------------------------------
(* Frames.                                                                 *)

BeginFrame ==
  /\ state = "Idle" /\ state' = "AddResources"
  /\ requested' = {}
  /\ UNCHANGED <<clientVars, image_template, blobVars, cached_images, pending_image_requests,
                 missing_blob_images, clears, torn, failures>>

Entry(r) == IF Present(r) THEN cached_images[r] ELSE NewEntry

MissingAfterFirst == kind = "blob" /\ rasterized /\ queue = {}

Missing == kind = "blob" /\ queue = {}

(* request_image: the image waits for an upload unless the texture cache   *)
(* has all of it, and for a rasterization if there is nothing to upload.   *)
RequestImage(r) ==
  /\ state = "AddResources"
  /\ image_template # Nothing
  /\ cached_images' = [cached_images EXCEPT ![r] = Entry(r)]
  /\ requested' = requested \cup {r}
  /\ IF NeedsUpload(r) \/ Entry(r).dirty_rect # {}
     THEN /\ pending_image_requests' = pending_image_requests \cup {r}
          /\ missing_blob_images' = (missing_blob_images \/ Missing)
     ELSE UNCHANGED <<pending_image_requests, missing_blob_images>>
  /\ UNCHANGED <<clientVars, image_template, blobVars, state, clears, torn, failures>>

(* block_until_all_resources_added, up to rasterize_missing_blob_images.   *)
BlockUntilAllResourcesAdded ==
  /\ state = "AddResources" /\ state' = "QueryResources"
  /\ missing_blob_images' = FALSE
  /\ \/ missing_blob_images /\ AddRasterized(Pixels, rasterizer) /\ UNCHANGED failures
     \/ missing_blob_images /\ RasterizationFails
     \/ ~missing_blob_images /\ NothingRasterized /\ UNCHANGED failures
  /\ UNCHANGED <<clientVars, image_template, rasterizer, cached_images, pending_image_requests,
                 requested, clears, torn>>

(* TextureCache::update: a new texture is uploaded as a whole, also when   *)
(* the data is that of a part.                                             *)
Uploaded(texture, rect, content) ==
  [p \in Pixels |-> IF p \in rect THEN content[p]
                    ELSE IF texture = Unallocated THEN Garbage ELSE texture[p]]

(* What the queue makes of a texture, item after item.                     *)
Drained(texture) ==
  LET first == CHOOSE i \in queue : \A j \in queue : i.n <= j.n
      drawn == IF texture = Unallocated /\ first.rect # Pixels THEN queue \ {first} ELSE queue
      Over(p) == {i \in drawn : p \in i.rect}
      last(p) == CHOOSE i \in Over(p) : \A j \in Over(p) : j.n <= i.n
  IN [p \in Pixels |-> IF Over(p) # {} THEN last(p).content[p]
                       ELSE IF texture = Unallocated THEN Garbage ELSE texture[p]]

SetHandle(r, texture) ==
  cached_images' = [cached_images EXCEPT ![r] = [@ EXCEPT !.handle = texture, !.dirty_rect = {}]]

(* One turn of ResourceCache::update_texture_cache.                        *)
UploadRaw(r) ==
  /\ kind = "raw"
  /\ LET entry == cached_images[r]
     IN SetHandle(r, Uploaded(entry.handle,
                              IF NeedsUpload(r) THEN Pixels ELSE entry.dirty_rect,
                              image_template))
  /\ UNCHANGED <<queue, arrived, state>>

UploadBlob(r) ==
  /\ kind = "blob" /\ rasterized
  /\ IF queue = {} THEN UNCHANGED cached_images
                   ELSE SetHandle(r, Drained(cached_images[r].handle))
  /\ queue' = {} /\ arrived' = 0
  /\ UNCHANGED state

(* There is no queue, and rasterized_blob_images.get_mut().unwrap() fails. *)
UploadFails ==
  /\ kind = "blob" /\ ~rasterized
  /\ state' = "Panic"
  /\ UNCHANGED <<cached_images, queue, arrived>>

UpdateTextureCache(r) ==
  /\ state = "QueryResources" /\ r \in pending_image_requests
  /\ pending_image_requests' = pending_image_requests \ {r}
  /\ UploadRaw(r) \/ UploadBlob(r) \/ UploadFails
  /\ UNCHANGED <<clientVars, image_template, rasterizer, rasterized,
                 missing_blob_images, requested, clears, torn, failures>>

EndFrame ==
  /\ state = "QueryResources" /\ pending_image_requests = {}
  /\ state' = "Idle"
  /\ UNCHANGED <<clientVars, image_template, blobVars, cached_images, pending_image_requests,
                 missing_blob_images, requested, clears, torn, failures>>

-----------------------------------------------------------------------------
(* The texture cache.                                                      *)

(* Rasterizations of a part that are on their way.                         *)
Partial == {t \in 1..Len(transactions) :
              kind = "blob" /\ transactions[t].op # "delete" /\ transactions[t].request # Pixels}

(* An entry of a raw image is evicted when it is not used; those of blob   *)
(* images have Eviction::Manual.                                           *)
Evict(r) ==
  /\ state = "Idle" /\ kind = "raw"
  /\ ~NeedsUpload(r)
  /\ cached_images' = [cached_images EXCEPT ![r] = [@ EXCEPT !.handle = Unallocated]]
  /\ UNCHANGED <<clientVars, image_template, blobVars, frameVars, clears, torn, failures>>

(* maybe_reclaim_shared_memory drops all textures of the shared cache.     *)
ReclaimSharedMemory ==
  /\ state = "Idle"
  /\ clears < MaxClears /\ clears' = clears + 1
  /\ cached_images' = [r \in Renderings |-> [cached_images[r] EXCEPT !.handle = Unallocated]]
  /\ torn' = (torn \/ Partial # {} \/ \E i \in queue : i.rect # Pixels)
  /\ UNCHANGED <<clientVars, image_template, blobVars, frameVars, failures>>

(* MemoryPressure: clear(ClearCache::all()).                               *)
MemoryPressure ==
  /\ state = "Idle"
  /\ clears < MaxClears /\ clears' = clears + 1
  /\ cached_images' = [r \in Renderings |-> NoEntry]
  /\ rasterized' = FALSE /\ queue' = {} /\ arrived' = 0
  /\ torn' = (torn \/ Partial # {})
  /\ UNCHANGED <<clientVars, image_template, rasterizer, frameVars, failures>>

Next ==
  \/ \E k \in {"raw", "blob"} : Add(k)
  \/ \E dirty \in Rects : Update(dirty)
  \/ Delete
  \/ TakeAdd \/ TakeUpdate \/ TakeDelete
  \/ BeginFrame \/ BlockUntilAllResourcesAdded \/ EndFrame
  \/ \E r \in Renderings : RequestImage(r) \/ UpdateTextureCache(r) \/ Evict(r)
  \/ ReclaimSharedMemory \/ MemoryPressure

Spec == Init /\ [][Next]_vars

-----------------------------------------------------------------------------
(* Properties.                                                             *)

TypeOK ==
  /\ kind \in {"none", "raw", "blob"} /\ deleted \in BOOLEAN /\ sent \in Contents
  /\ transactions \in Seq([op : {"add", "update", "delete"}, dirty : Rects, request : Rects,
                           content : Contents])
  /\ updates \in Nat /\ clears \in Nat /\ torn \in BOOLEAN /\ failures \in Nat
  /\ image_template \in Contents \cup {Nothing} /\ rasterizer \in Contents \cup {Nothing}
  /\ rasterized \in BOOLEAN /\ arrived \in Nat
  /\ queue \subseteq RasterizedBlobImage
  /\ cached_images \in [Renderings -> [present : BOOLEAN, handle : Texture \cup {Unallocated},
                                       dirty_rect : Rects]]
  /\ state \in {"Idle", "AddResources", "QueryResources", "Panic"}
  /\ pending_image_requests \subseteq Renderings /\ requested \subseteq Renderings
  /\ missing_blob_images \in BOOLEAN

(* The copies of a raw image are all uploaded from its data; those of a    *)
(* blob image all come from the one queue.                                 *)
OneCopy == kind = "blob" => Cardinality({r \in Renderings : Present(r)}) <= 1

(* A frame draws the image as the transactions that have arrived make it,  *)
(* every pixel of it, whatever was uploaded, rasterized in part, queued    *)
(* while it was off-screen, evicted or cleared before.  Excepted are a     *)
(* blob image that is drawn in two ways, failed rasterizations, and        *)
(* textures that are dropped while a partial rasterization is on its way.  *)
DrawnIsCurrent ==
  /\ OneCopy /\ ~torn /\ failures = 0
  /\ state = "QueryResources" /\ pending_image_requests = {}
  => \A r \in requested : cached_images[r].handle = image_template

(* Each entry has a dirty rect of its own, so that an image that is drawn  *)
(* in two ways is updated in both (resource_cache.rs:934).  TLC refutes it *)
(* for a blob image, of which the first upload drains the one queue.       *)
CopiesUpdated ==
  ~torn /\ failures = 0 /\ state = "QueryResources" /\ pending_image_requests = {}
  => \A r \in requested : cached_images[r].handle = image_template

(* A blob image that a frame waits for has a queue of rasterized rects:    *)
(* the frame had it rasterized if there was none.                          *)
QueueForRequests == failures = 0 => state # "Panic"

(* The updates of an image that is off-screen do not pile up, in the queue *)
(* or in the scene builder: when the queue is long, the whole image is     *)
(* rasterized and replaces it.                                             *)
QueueStaysShort == Cardinality(queue) + Cardinality(Partial) <= QueueLimit + MaxInFlight

(* The types of the state, in which the dirty rect of a template or entry  *)
(* is one rect, and the two sides of the queue of a blob image.            *)
ImagesInv == TypeOK /\ QueueForRequests /\ QueueStaysShort
=============================================================================
