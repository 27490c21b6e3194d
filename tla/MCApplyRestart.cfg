SPECIFICATION Spec
CONSTANTS
    op1 = op1
    op2 = op2
    mmeYaml = mmeYaml
    mmeConf = mmeConf
    ausfYaml = ausfYaml
    zone = zone
    lis = lis
    mme = mme
    ausf = ausf
    dns = dns
    Editors = {op1, op2}
    File = {mmeYaml, mmeConf, ausfYaml, zone, lis}
    Container = {mme, ausf, dns}
    NoContainer = NoContainer
    consumer <- Readers
    Mapped = {mmeYaml, mmeConf, zone}
    Core = {mme, ausf}
    Val = {0, 1}
    Torn = Torn
    Stopped = Stopped
    NoDoc = NoDoc
    MaxSaves = 2
    MaxCommands = 3
SYMMETRY Interchangeable
CHECK_DEADLOCK FALSE
PROPERTIES
    ClearedIsRunning
