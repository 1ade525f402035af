CONSTANTS
  None = None
  Panic = Panic
  MAX_MEMORY_REGIONS = 2
  VIRT_UART = 11
  Q35_UART = 13
  VIRT_RAM <- MCVirtRam
  Q35_RAM <- MCQ35Ram
  EFI_PAGE_SIZE = 2
  NumPages = 8
  Machines <- MCMachines
  FirmwarePages = {1, 5}
  MaxEvents = 3
  MAX_DEPTH = 4
  CELL = 16
  Blobs <- MCBlobs
  KIB = 4
  MultibootInfos <- MCMultibootInfos
  QUEUE_SIZE = 4
  GPU_DEFAULT <- MCGpuDefault
  SlotSets <- MCSlotSets
  GLYPH = 2
  Font <- MCFont
  VIRTUAL <- MCVirtual
  DEMO <- MCDemo
  Drawings <- MCDrawings
  Layers <- MCLayers
  MaxLayers = 2
  MaxDrawings = 1
  IMAGE <- MCImage
  MAX_FRAMES = 4
SPECIFICATION Spec
VIEW View
INVARIANTS
  HandedMemoryFree
  ImageComplete
  
  
  PoolClearOfImage
  
  
 
