SPECIFICATION Spec
CONSTANTS
  Articles = {a, b, c}
  Package = p
  Nobody = Nobody
  Slots = {1, 2}
  MaxEntries = 2
  MaxRequests = 6
SYMMETRY Symmetry
INVARIANTS LastVersion LinksAgree UpdateAfterOriginal PendingScheduled CorrectionCanEnd PackageLinks NothingDeadInPackage
CHECK_DEADLOCK FALSE
