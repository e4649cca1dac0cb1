\* Two caches (three and two objects a slab) share the three pages the
\* allocator hands out; callers hold up to six objects, enough to fill
\* all three pages and to reach page_alloc()'s assert.
CONSTANTS
  NPAGES = 4
  Reserved = {0}
  PAGE_SIZE = 256
  SLAB_OBJ_SIZE = 24
  SLAB_INFO_SIZE = 48
  ObjSizes <- TwoCaches
  MaxHeld = 6
SPECIFICATION Spec
CHECK_DEADLOCK FALSE
INVARIANTS
  ObjectsAccounted
  NoHeldObjectInFreePage
  SlabOnRightList
PROPERTIES
  PageUse
