SPECIFICATION FairSpec
CONSTANTS
    Calls = {1, 2}
    Requests <- MCRequests
    Devices = {"srl1", "srl2"}
    Texts = {"", "srl1", "srl2", "gone", "ann", "bob", "eve", "pw1", "admin",
             "NokiaSrl1!"}
INVARIANTS
    OwnDeviceOwnCredentials
    ConnectionClosed
PROPERTIES
    CallsReturn
CHECK_DEADLOCK FALSE
