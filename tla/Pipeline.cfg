SPECIFICATION Spec
CONSTANTS
  Lot = "fits"
  MaxStages = 4
  PipeCapacity = 2
  Jobs <- MCJobs
  Programs <- MCPrograms
  Disk <- MCDisk
  Journals <- MCJournals
  Tree <- MCTree
  Variables <- MCVariables
  Functions = {}
  Numbers <- MCNumbers
  Instants <- MCInstants
  LongOptions <- MCLongOptions
  ShortOptions = {"-a", "-f", "-r", "-h"}
INVARIANTS TypeOK OutputIntact
PROPERTIES PipelineCompletes
