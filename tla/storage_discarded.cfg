\* An update by the GUI is cancelled after staging, or cannot overwrite a file.
SPECIFICATION KernelSpec
CONSTANTS
    Files = {core, lib}
    Programs = {core}
    Versions = {v1, v2}
    Releases = {v2}
    NoFile = NoFile
    TornFile = TornFile
    Callers = {"gui"}
    KernelFaults = {"lock"}
    MaxKept = 1
PROPERTIES FailureKeepsCore
