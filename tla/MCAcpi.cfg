CONSTANTS
  PAGE_SIZE = 64
  HEADER = 36
  Firmwares <- Machines
  Others <- Strays
  Sigs = {"APIC", "FACP", "MCFG"}
SPECIFICATION Spec
INVARIANTS ReadsAreMapped SuccessIsComplete LookupsAgree
CHECK_DEADLOCK FALSE
